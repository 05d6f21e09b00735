-------------------------- MODULE FulfilmentProofs --------------------------
(***************************************************************************)
(* Theorems about Fulfilment, for any carts, courses, modes and attempts.  *)
(* ProgressInv follows each attempt through the courses of its cart;       *)
(* SoldInv adds what the learner holds, and what an attempt goes by when   *)
(* it writes an enrolment long after it read it.                           *)
(***************************************************************************)
EXTENDS Fulfilment, TLAPS

\* The courses an attempt is done with, in the pass it is in.
Passed(s) == {CoursesOf[s.cart][m] : m \in 1..(s.next - 1)}

\* What an attempt at work has written, found held, and looked up; off are the
\* courses off sale ever since it began.
AtWork(s, off) ==
  /\ s.wrote \subseteq Granted(s.cart) /\ s.held \subseteq Granted(s.cart)
  /\ s.at = "checking" => s.wrote = {} /\ s.held = {} /\ Passed(s) \cap off = {}
  /\ s.at \in {"reading", "writing"} => s.wrote \subseteq Passed(s) /\ Passed(s) \subseteq s.wrote \cup s.held
  /\ s.at = "closing" => Granted(s.cart) \subseteq s.wrote \cup s.held
  /\ s.at \in {"reading", "writing", "closing"} => Granted(s.cart) \cap off = {}

\* What Open edX announced is on record, or will be when the attempt fails.
ToldIsKept ==
  \A c \in Bundles \ (invoiced \cup silent) : \A k \in told[c] :
    \/ k \in trail[c].landed
    \/ \E a \in Attempts : attempt[a].at # "idle" /\ Cart(a) = c /\ k \in attempt[a].landed

ProgressInv ==
  /\ TypeOK
  /\ \A a \in Attempts : missing[a] \cap onSale = {}
  /\ \A a \in Attempts : attempt[a].at # "idle" => AtWork(attempt[a], missing[a])
  /\ ToldIsKept

LEMMA CoursesType ==
  ASSUME NEW c \in Carts
  PROVE  /\ Len(CoursesOf[c]) \in Nat /\ Len(CoursesOf[c]) >= 1
         /\ \A n \in 1..Len(CoursesOf[c]) : CoursesOf[c][n] \in Courses
         /\ Granted(c) = {CoursesOf[c][n] : n \in 1..Len(CoursesOf[c])}
         /\ Granted(c) \subseteq Courses
         /\ \A k \in Courses : ModeOf[c][k] \in Modes \ Free /\ ModeOf[c][k] # NoMode
  <1>1. CoursesOf[c] \in Seq(Courses) /\ CoursesOf[c] # <<>>
    BY FulfilmentAssumption
  <1> QED
    BY <1>1, FulfilmentAssumption DEF Granted

LEMMA IdleType == Idle \in AttemptStates /\ Idle.at = "idle"
  BY DEF Idle, AttemptStates

LEMMA InitProgress == Init => ProgressInv
  <1> SUFFICES ASSUME Init
      PROVE  ProgressInv
    OBVIOUS
  <1>1. attempt \in [Attempts -> AttemptStates] /\ \A a \in Attempts : attempt[a].at = "idle"
    BY IdleType DEF Init
  <1>2. trail \in [Carts -> Entries]
    BY DEF Init, Entries
  <1>3. TypeOK
    BY <1>1, <1>2 DEF Init, TypeOK
  <1>4. ToldIsKept
    BY FulfilmentAssumption DEF Init, ToldIsKept
  <1> QED
    BY <1>1, <1>3, <1>4 DEF Init, ProgressInv

\* The attempt at work, its cart and the course it is at.
LEMMA AtMember ==
  ASSUME ProgressInv, NEW a \in Attempts, attempt[a].at # "idle"
  PROVE  /\ attempt[a] \in AttemptStates /\ Cart(a) \in Carts
         /\ attempt[a].cart = Cart(a)
         /\ attempt[a].next \in 1..Len(CoursesOf[Cart(a)])
         /\ Member(a) = CoursesOf[Cart(a)][attempt[a].next]
         /\ Member(a) \in Granted(Cart(a)) /\ Member(a) \in Courses
         /\ AtWork(attempt[a], missing[a])
  BY CoursesType DEF ProgressInv, TypeOK, Cart, Member, Granted

\* On to the next course, or past the last one.
LEMMA AdvanceTo ==
  ASSUME ProgressInv, NEW a \in Attempts, attempt[a].at # "idle",
         NEW state \in AttemptStates, state.cart = Cart(a), state.next = attempt[a].next,
         NEW stage \in {"reading", "closing"}, Advance(a, state, stage),
         state.at # "idle"
  PROVE  /\ attempt' \in [Attempts -> AttemptStates]
         /\ \A b \in Attempts \ {a} : attempt'[b] = attempt[b]
         /\ attempt'[a].cart = Cart(a) /\ attempt'[a].at # "idle"
         /\ attempt'[a].next \in 1..Len(CoursesOf[Cart(a)])
         /\ attempt'[a].wrote = state.wrote /\ attempt'[a].held = state.held
         /\ attempt'[a].landed = state.landed
         /\ \/ /\ attempt[a].next = Len(CoursesOf[Cart(a)])
               /\ attempt'[a].at = stage /\ attempt'[a].next = 1
            \/ /\ attempt'[a].next = attempt[a].next + 1
               /\ attempt'[a].at = IF stage = "closing" THEN "reading" ELSE state.at
  <1>1. /\ Cart(a) \in Carts /\ attempt[a].next \in 1..Len(CoursesOf[Cart(a)])
        /\ Len(CoursesOf[Cart(a)]) \in Nat /\ Len(CoursesOf[Cart(a)]) >= 1
        /\ attempt \in [Attempts -> AttemptStates]
    BY AtMember, CoursesType DEF ProgressInv, TypeOK
  <1>2. CASE state.next = Len(CoursesOf[Cart(a)])
    <2>1. attempt' = [attempt EXCEPT ![a] = [state EXCEPT !.at = stage, !.next = 1]]
      BY <1>2 DEF Advance
    <2>2. [state EXCEPT !.at = stage, !.next = 1] \in AttemptStates
      BY DEF AttemptStates
    <2> QED
      BY <1>1, <1>2, <2>1, <2>2 DEF AttemptStates
  <1>3. CASE state.next # Len(CoursesOf[Cart(a)])
    <2>1. PICK at \in {"checking", "reading", "writing", "closing", "failing"} :
            /\ at = IF stage = "closing" THEN "reading" ELSE state.at
            /\ attempt' = [attempt EXCEPT ![a] = [state EXCEPT !.next = state.next + 1, !.at = at]]
      BY <1>3 DEF Advance, AttemptStates
    <2>2. [state EXCEPT !.next = state.next + 1, !.at = at] \in AttemptStates
      <3>1. state.next + 1 \in Nat
        BY <1>1
      <3> QED
        BY <2>1, <3>1 DEF AttemptStates
    <2> QED
      BY <1>1, <1>3, <2>1, <2>2 DEF AttemptStates
  <1> QED
    BY <1>2, <1>3

\* Passing a course: what had been passed, and it.
LEMMA PassOne ==
  ASSUME NEW c \in Carts, NEW n \in 1..Len(CoursesOf[c]), NEW S
  PROVE  /\ {CoursesOf[c][m] : m \in 1..((n + 1) - 1)} = {CoursesOf[c][m] : m \in 1..(n - 1)} \cup {CoursesOf[c][n]}
         /\ n = Len(CoursesOf[c]) =>
              Granted(c) = {CoursesOf[c][m] : m \in 1..(n - 1)} \cup {CoursesOf[c][n]}
         /\ CoursesOf[c][n] \notin {CoursesOf[c][m] : m \in 1..(n - 1)}
  <1>1. Len(CoursesOf[c]) \in Nat
    BY CoursesType
  <1>2. \A m : m \in 1..((n + 1) - 1) <=> m \in 1..(n - 1) \/ m = n
    BY <1>1
  <1>3. {CoursesOf[c][m] : m \in 1..((n + 1) - 1)} = {CoursesOf[c][m] : m \in 1..(n - 1)} \cup {CoursesOf[c][n]}
    BY <1>2
  <1>4. n = Len(CoursesOf[c]) => Granted(c) = {CoursesOf[c][m] : m \in 1..((n + 1) - 1)}
    BY <1>1, CoursesType
  <1>5. \A m \in 1..(n - 1) : CoursesOf[c][m] # CoursesOf[c][n]
    BY <1>1, FulfilmentAssumption
  <1> QED
    BY <1>3, <1>4, <1>5

(***************************************************************************)
(* One attempt moves; the others, and the enrolments, are as they were.    *)
(***************************************************************************)
\* What a step of attempt a leaves of the rest.
LEMMA ProgressKept ==
  ASSUME ProgressInv, NEW a \in Attempts, TypeOK',
         \A b \in Attempts \ {a} : attempt'[b] = attempt[b],
         \A b \in Attempts : missing'[b] \cap onSale' = {},
         \A b \in Attempts \ {a} : missing'[b] = missing[b],
         attempt'[a].at # "idle" => AtWork(attempt'[a], missing'[a]),
         ToldIsKept'
  PROVE  ProgressInv'
  BY DEF ProgressInv

\* Announcing nothing, an attempt goes on, or ends recorded.
LEMMA ToldStays ==
  ASSUME ProgressInv, NEW a \in Attempts, UNCHANGED told,
         \A b \in Attempts \ {a} : attempt'[b] = attempt[b],
         invoiced \subseteq invoiced', silent \subseteq silent',
         \A c \in Carts : trail[c].landed \subseteq trail'[c].landed,
         attempt[a].at # "idle" =>
           \/ /\ attempt'[a].at # "idle" /\ attempt'[a].cart = attempt[a].cart
              /\ attempt'[a].landed = attempt[a].landed
           \/ Cart(a) \in Bundles => \/ attempt[a].landed \subseteq trail'[Cart(a)].landed
                                     \/ Cart(a) \in invoiced' \cup silent'
  PROVE  ToldIsKept'
  <1> SUFFICES ASSUME NEW c \in Bundles, c \notin invoiced' \cup silent', NEW k \in told[c]
      PROVE  \/ k \in trail'[c].landed
             \/ \E b \in Attempts : attempt'[b].at # "idle" /\ attempt'[b].cart = c /\ k \in attempt'[b].landed
    BY DEF ToldIsKept, Cart
  <1>1. c \in Carts /\ c \notin invoiced \cup silent
    BY FulfilmentAssumption
  <1>2. CASE k \in trail[c].landed
    BY <1>1, <1>2
  <1>3. ASSUME NEW b \in Attempts, attempt[b].at # "idle", attempt[b].cart = c, k \in attempt[b].landed
        PROVE  \/ k \in trail'[c].landed
               \/ attempt'[b].at # "idle" /\ attempt'[b].cart = c /\ k \in attempt'[b].landed
    BY <1>1, <1>3 DEF Cart
  <1> QED
    BY <1>1, <1>2, <1>3 DEF ProgressInv, ToldIsKept, Cart

\* A failing attempt has nothing written, and keeps what it found.
LEMMA FailStep ==
  ASSUME ProgressInv, NEW a \in Attempts, attempt[a].at # "idle", Fail(a),
         UNCHANGED <<enrolled, onSale, invoiced, trail, told, changed, missing, silent, contested>>
  PROVE  /\ ProgressInv'
         /\ \A b \in Attempts \ {a} : attempt'[b] = attempt[b]
         /\ attempt'[a].held = attempt[a].held /\ attempt'[a].cart = attempt[a].cart
         /\ attempt'[a].at = "failing" /\ attempt'[a].wrote = {}
  <1>1. /\ TypeOK /\ attempt[a] \in AttemptStates /\ AtWork(attempt[a], missing[a])
        /\ attempt' = [attempt EXCEPT ![a] = [attempt[a] EXCEPT !.at = "failing", !.wrote = {}]]
    BY AtMember DEF ProgressInv, TypeOK, Fail
  <1>2. /\ attempt' \in [Attempts -> AttemptStates]
        /\ \A b \in Attempts \ {a} : attempt'[b] = attempt[b]
        /\ attempt'[a].at = "failing" /\ attempt'[a].wrote = {}
        /\ attempt'[a].held = attempt[a].held /\ attempt'[a].landed = attempt[a].landed
        /\ attempt'[a].cart = attempt[a].cart /\ attempt'[a].next = attempt[a].next
    BY <1>1 DEF TypeOK, AttemptStates
  <1>3. TypeOK'
    BY <1>1, <1>2 DEF TypeOK, Cart
  <1>4. AtWork(attempt'[a], missing[a])
    BY <1>1, <1>2 DEF AtWork
  <1>5. ToldIsKept'
    BY <1>2, ToldStays DEF Cart
  <1> QED
    BY <1>2, <1>3, <1>4, <1>5, ProgressKept DEF ProgressInv

LEMMA CheckStep ==
  ASSUME ProgressInv, NEW a \in Attempts, CheckMember(a)
  PROVE  /\ ProgressInv'
         /\ UNCHANGED <<enrolled, invoiced, trail, changed, contested>>
         /\ \A b \in Attempts \ {a} : attempt'[b] = attempt[b]
         /\ attempt'[a].held = {} /\ attempt'[a].wrote = {} /\ attempt'[a].at # "writing"
  <1>0. /\ attempt[a].at = "checking" /\ attempt[a] \in AttemptStates /\ Cart(a) \in Carts
        /\ attempt[a].cart = Cart(a) /\ attempt[a].next \in 1..Len(CoursesOf[Cart(a)])
        /\ Member(a) = CoursesOf[Cart(a)][attempt[a].next]
        /\ AtWork(attempt[a], missing[a]) /\ TypeOK /\ missing[a] \cap onSale = {}
        /\ UNCHANGED <<enrolled, onSale, invoiced, trail, told, changed, missing, silent, contested>>
    BY AtMember DEF CheckMember, ProgressInv
  <1>1. attempt[a].wrote = {} /\ attempt[a].held = {} /\ Passed(attempt[a]) \cap missing[a] = {}
    BY <1>0 DEF AtWork
  <1>2. CASE Member(a) \in onSale
    <2>1. Advance(a, attempt[a], "reading")
      BY <1>2 DEF CheckMember
    <2>2. /\ attempt' \in [Attempts -> AttemptStates]
          /\ \A b \in Attempts \ {a} : attempt'[b] = attempt[b]
          /\ attempt'[a].cart = Cart(a) /\ attempt'[a].at # "idle"
          /\ attempt'[a].next \in 1..Len(CoursesOf[Cart(a)])
          /\ attempt'[a].wrote = {} /\ attempt'[a].held = {} /\ attempt'[a].landed = attempt[a].landed
          /\ \/ /\ attempt[a].next = Len(CoursesOf[Cart(a)])
                /\ attempt'[a].at = "reading" /\ attempt'[a].next = 1
             \/ /\ attempt'[a].next = attempt[a].next + 1
                /\ attempt'[a].at = "checking"
      BY <1>0, <1>1, <2>1, AdvanceTo
    <2>3. TypeOK'
      BY <1>0, <2>2 DEF TypeOK, Cart
    <2>4. (Passed(attempt[a]) \cup {Member(a)}) \cap missing[a] = {}
      BY <1>0, <1>1, <1>2
    <2>5. AtWork(attempt'[a], missing[a])
      <3>1. CASE attempt[a].next = Len(CoursesOf[Cart(a)]) /\ attempt'[a].at = "reading" /\ attempt'[a].next = 1
        <4>1. Granted(Cart(a)) \cap missing[a] = {}
          BY <1>0, <2>4, <3>1, PassOne DEF Passed
        <4>2. Passed(attempt'[a]) = {}
          BY <3>1 DEF Passed
        <4> QED
          BY <2>2, <3>1, <4>1, <4>2 DEF AtWork
      <3>2. CASE attempt'[a].next = attempt[a].next + 1 /\ attempt'[a].at = "checking"
        <4>1. Passed(attempt'[a]) = Passed(attempt[a]) \cup {Member(a)}
          BY <1>0, <2>2, <3>2, PassOne DEF Passed
        <4> QED
          BY <2>2, <2>4, <3>2, <4>1 DEF AtWork
      <3> QED
        BY <2>2, <3>1, <3>2
    <2>6. ToldIsKept'
      BY <1>0, <2>2, ToldStays DEF Cart
    <2> QED
      BY <1>0, <2>2, <2>3, <2>5, <2>6, ProgressKept DEF ProgressInv
  <1>3. CASE Member(a) \notin onSale
    <2>1. Fail(a)
      BY <1>3 DEF CheckMember
    <2> QED
      BY <1>0, <1>1, <2>1, FailStep
  <1> QED
    BY <1>2, <1>3

\* The enrolment a cart's own writes leave.
LEMMA ReadStep ==
  ASSUME ProgressInv, NEW a \in Attempts, ReadEnrolment(a)
  PROVE  /\ ProgressInv'
         /\ UNCHANGED <<enrolled, invoiced, trail, changed, contested>>
         /\ \A b \in Attempts \ {a} : attempt'[b] = attempt[b]
         /\ attempt'[a].cart = attempt[a].cart /\ attempt[a].at # "idle"
         /\ \A k \in attempt'[a].held : k \in attempt[a].held \/ enrolled[k] = Mode(a, k)
         /\ attempt'[a].wrote = attempt[a].wrote
         /\ attempt'[a].at = "writing" =>
              attempt'[a].next = attempt[a].next /\ attempt'[a].seen = enrolled[Member(a)]
  <1>0. /\ attempt[a].at = "reading" /\ attempt[a] \in AttemptStates /\ Cart(a) \in Carts
        /\ attempt[a].cart = Cart(a) /\ attempt[a].next \in 1..Len(CoursesOf[Cart(a)])
        /\ Member(a) = CoursesOf[Cart(a)][attempt[a].next] /\ Member(a) \in Granted(Cart(a))
        /\ Member(a) \in Courses
        /\ AtWork(attempt[a], missing[a]) /\ TypeOK /\ missing[a] \cap onSale = {}
        /\ UNCHANGED <<enrolled, onSale, invoiced, trail, told, changed, missing, silent, contested>>
    BY AtMember DEF ReadEnrolment, ProgressInv
  <1>1. /\ attempt[a].wrote \subseteq Passed(attempt[a])
        /\ Passed(attempt[a]) \subseteq attempt[a].wrote \cup attempt[a].held
        /\ Granted(Cart(a)) \cap missing[a] = {}
        /\ attempt[a].wrote \subseteq Granted(Cart(a)) /\ attempt[a].held \subseteq Granted(Cart(a))
    BY <1>0 DEF AtWork
  <1>2. Member(a) \notin attempt[a].wrote
    BY <1>0, <1>1, PassOne DEF Passed
  <1>3. Holding(a, Member(a)) = enrolled[Member(a)] /\ enrolled[Member(a)] \in Modes \cup {NoMode}
    BY <1>0, <1>2 DEF Holding, TypeOK
  <1>4. CASE enrolled[Member(a)] = Mode(a, Member(a))
    <2>1. PICK held \in SUBSET Courses : held = attempt[a].held \cup {Member(a)}
      BY <1>0, <1>1, CoursesType
    <2>2. PICK state : state = [attempt[a] EXCEPT !.held = held]
      OBVIOUS
    <2>3. /\ state \in AttemptStates /\ state.cart = Cart(a) /\ state.next = attempt[a].next
          /\ state.at = "reading" /\ state.wrote = attempt[a].wrote /\ state.held = held
          /\ state.landed = attempt[a].landed
      BY <1>0, <2>2 DEF AttemptStates
    <2>4. Advance(a, state, "closing")
      BY <1>3, <1>4, <2>1, <2>2 DEF ReadEnrolment
    <2>5. /\ attempt' \in [Attempts -> AttemptStates]
          /\ \A b \in Attempts \ {a} : attempt'[b] = attempt[b]
          /\ attempt'[a].cart = Cart(a) /\ attempt'[a].at # "idle"
          /\ attempt'[a].next \in 1..Len(CoursesOf[Cart(a)])
          /\ attempt'[a].wrote = attempt[a].wrote /\ attempt'[a].held = held
          /\ attempt'[a].landed = attempt[a].landed
          /\ \/ /\ attempt[a].next = Len(CoursesOf[Cart(a)])
                /\ attempt'[a].at = "closing" /\ attempt'[a].next = 1
             \/ /\ attempt'[a].next = attempt[a].next + 1
                /\ attempt'[a].at = "reading"
      BY <1>0, <2>3, <2>4, AdvanceTo
    <2>6. TypeOK'
      BY <1>0, <2>5 DEF TypeOK, Cart
    <2>7. AtWork(attempt'[a], missing[a])
      <3>1. CASE attempt[a].next = Len(CoursesOf[Cart(a)]) /\ attempt'[a].at = "closing"
        <4>1. Granted(Cart(a)) \subseteq attempt[a].wrote \cup held
          BY <1>0, <1>1, <2>1, <3>1, PassOne DEF Passed
        <4> QED
          BY <1>0, <1>1, <2>1, <2>5, <3>1, <4>1 DEF AtWork
      <3>2. CASE attempt'[a].next = attempt[a].next + 1 /\ attempt'[a].at = "reading"
        <4>1. Passed(attempt'[a]) = Passed(attempt[a]) \cup {Member(a)}
          BY <1>0, <2>5, <3>2, PassOne DEF Passed
        <4> QED
          BY <1>0, <1>1, <2>1, <2>5, <3>2, <4>1 DEF AtWork
      <3> QED
        BY <2>5, <3>1, <3>2
    <2>8. ToldIsKept'
      BY <1>0, <2>5, ToldStays DEF Cart
    <2>9. ProgressInv'
      BY <1>0, <2>5, <2>6, <2>7, <2>8, ProgressKept DEF ProgressInv
    <2> QED
      BY <1>0, <1>4, <2>1, <2>5, <2>9
  <1>5. CASE enrolled[Member(a)] # Mode(a, Member(a))
    <2>1. attempt' = [attempt EXCEPT ![a] = [@ EXCEPT !.at = "writing", !.seen = enrolled[Member(a)]]]
      BY <1>3, <1>5 DEF ReadEnrolment
    <2>2. /\ attempt' \in [Attempts -> AttemptStates]
          /\ \A b \in Attempts \ {a} : attempt'[b] = attempt[b]
          /\ attempt'[a].cart = Cart(a) /\ attempt'[a].at = "writing"
          /\ attempt'[a].next = attempt[a].next /\ attempt'[a].seen = enrolled[Member(a)]
          /\ attempt'[a].wrote = attempt[a].wrote /\ attempt'[a].held = attempt[a].held
          /\ attempt'[a].landed = attempt[a].landed
      BY <1>0, <1>3, <2>1 DEF TypeOK, AttemptStates
    <2>3. TypeOK'
      BY <1>0, <2>2 DEF TypeOK, Cart
    <2>4. AtWork(attempt'[a], missing[a])
      BY <1>0, <1>1, <2>2 DEF AtWork, Passed
    <2>5. ToldIsKept'
      BY <1>0, <2>2, ToldStays DEF Cart
    <2>6. ProgressInv'
      BY <1>0, <2>2, <2>3, <2>4, <2>5, ProgressKept DEF ProgressInv
    <2> QED
      BY <1>0, <2>2, <2>6
  <1> QED
    BY <1>4, <1>5

LEMMA EnrolStep ==
  ASSUME ProgressInv, NEW a \in Attempts, Enrol(a)
  PROVE  /\ ProgressInv'
         /\ UNCHANGED <<enrolled, invoiced, trail, changed, contested>>
         /\ \A b \in Attempts \ {a} : attempt'[b] = attempt[b]
         /\ attempt'[a].cart = attempt[a].cart /\ attempt'[a].held = attempt[a].held
         /\ attempt[a].at = "writing" /\ attempt'[a].at # "writing"
         /\ attempt'[a].wrote = attempt[a].wrote \cup {Member(a)}
         /\ attempt[a].seen \in Free \/ enrolled[Member(a)] = NoMode
         /\ Granted(Cart(a)) \cap missing[a] = {}
  <1>0. /\ attempt[a].at = "writing" /\ attempt[a] \in AttemptStates /\ Cart(a) \in Carts
        /\ attempt[a].cart = Cart(a) /\ attempt[a].next \in 1..Len(CoursesOf[Cart(a)])
        /\ Member(a) = CoursesOf[Cart(a)][attempt[a].next] /\ Member(a) \in Granted(Cart(a))
        /\ Member(a) \in Courses
        /\ AtWork(attempt[a], missing[a]) /\ TypeOK /\ missing[a] \cap onSale = {}
        /\ UNCHANGED <<enrolled, onSale, invoiced, trail, changed, missing, silent, contested>>
    BY AtMember DEF Enrol, ProgressInv
  <1>1. /\ attempt[a].wrote \subseteq Passed(attempt[a])
        /\ Passed(attempt[a]) \subseteq attempt[a].wrote \cup attempt[a].held
        /\ Granted(Cart(a)) \cap missing[a] = {}
        /\ attempt[a].wrote \subseteq Granted(Cart(a)) /\ attempt[a].held \subseteq Granted(Cart(a))
    BY <1>0 DEF AtWork
  <1>2. PICK wrote \in SUBSET Courses, landed \in SUBSET Courses :
          wrote = attempt[a].wrote \cup {Member(a)} /\ landed = attempt[a].landed \cup {Member(a)}
    BY <1>0 DEF AttemptStates
  <1>3. PICK state : state = [attempt[a] EXCEPT !.wrote = wrote, !.landed = landed]
    OBVIOUS
  <1>4. /\ state \in AttemptStates /\ state.cart = Cart(a) /\ state.next = attempt[a].next
        /\ state.at = "writing" /\ state.wrote = wrote /\ state.held = attempt[a].held
        /\ state.landed = landed
    BY <1>0, <1>3 DEF AttemptStates
  <1>5. Advance(a, state, "closing")
    BY <1>2, <1>3 DEF Enrol
  <1>6. /\ attempt' \in [Attempts -> AttemptStates]
        /\ \A b \in Attempts \ {a} : attempt'[b] = attempt[b]
        /\ attempt'[a].cart = Cart(a) /\ attempt'[a].at # "idle"
        /\ attempt'[a].next \in 1..Len(CoursesOf[Cart(a)])
        /\ attempt'[a].wrote = wrote /\ attempt'[a].held = attempt[a].held
        /\ attempt'[a].landed = landed
        /\ \/ /\ attempt[a].next = Len(CoursesOf[Cart(a)])
              /\ attempt'[a].at = "closing" /\ attempt'[a].next = 1
           \/ /\ attempt'[a].next = attempt[a].next + 1
              /\ attempt'[a].at = "reading"
    BY <1>0, <1>4, <1>5, AdvanceTo
  <1>7. /\ told' = [told EXCEPT ![Cart(a)] = @ \cup {Member(a)}]
        /\ told' \in [Carts -> SUBSET Courses]
    BY <1>0 DEF Enrol, TypeOK
  <1>8. TypeOK'
    BY <1>0, <1>6, <1>7 DEF TypeOK, Cart
  <1>9. AtWork(attempt'[a], missing[a])
    <2>1. CASE attempt[a].next = Len(CoursesOf[Cart(a)]) /\ attempt'[a].at = "closing"
      <3>1. Granted(Cart(a)) \subseteq wrote \cup attempt[a].held
        BY <1>0, <1>1, <1>2, <2>1, PassOne DEF Passed
      <3> QED
        BY <1>0, <1>1, <1>2, <1>6, <2>1, <3>1 DEF AtWork
    <2>2. CASE attempt'[a].next = attempt[a].next + 1 /\ attempt'[a].at = "reading"
      <3>1. Passed(attempt'[a]) = Passed(attempt[a]) \cup {Member(a)}
        BY <1>0, <1>6, <2>2, PassOne DEF Passed
      <3> QED
        BY <1>0, <1>1, <1>2, <1>6, <2>2, <3>1 DEF AtWork
    <2> QED
      BY <1>6, <2>1, <2>2
  <1>10. ToldIsKept'
    <2> SUFFICES ASSUME NEW c \in Bundles, c \notin invoiced \cup silent, NEW k \in told'[c]
        PROVE  \/ k \in trail[c].landed
               \/ \E b \in Attempts : attempt'[b].at # "idle" /\ attempt'[b].cart = c /\ k \in attempt'[b].landed
      BY <1>0 DEF ToldIsKept, Cart
    <2>1. c \in Carts
      BY FulfilmentAssumption
    <2>2. CASE k \in told[c]
      BY <1>0, <1>2, <1>6, <2>2 DEF ProgressInv, ToldIsKept, Cart
    <2>3. CASE k \notin told[c]
      <3>1. c = Cart(a) /\ k = Member(a)
        BY <1>0, <1>7, <2>1, <2>3 DEF TypeOK
      <3> QED
        BY <1>2, <1>6, <3>1
    <2> QED
      BY <2>2, <2>3
  <1>11. ProgressInv'
    BY <1>0, <1>6, <1>8, <1>9, <1>10, ProgressKept DEF ProgressInv
  <1>12. attempt[a].seen \in Free \/ enrolled[Member(a)] = NoMode
    <2>1. Member(a) \notin attempt[a].wrote
      BY <1>0, <1>1, PassOne DEF Passed
    <2> QED
      BY <2>1 DEF Enrol, Holding
  <1> QED
    BY <1>0, <1>1, <1>2, <1>6, <1>11, <1>12

\* Attempts that end, and the failure that is put on record.
LEMMA EndStep ==
  ASSUME ProgressInv, NEW a \in Attempts,
         Commit(a) \/ FailCommit(a) \/ RecordFailure(a) \/ Crash(a)
  PROVE  /\ ProgressInv'
         /\ \A b \in Attempts \ {a} : attempt'[b] = attempt[b]
         /\ attempt'[a].at = "idle" /\ attempt[a].at # "idle"
         /\ UNCHANGED changed /\ contested \subseteq contested'
  <1>0. /\ attempt[a].at # "idle" /\ attempt[a] \in AttemptStates /\ Cart(a) \in Carts /\ TypeOK
        /\ UNCHANGED <<onSale, told, changed, missing>>
    BY AtMember DEF Commit, FailCommit, RecordFailure, Crash, ProgressInv
  <1>1. /\ attempt' = [attempt EXCEPT ![a] = Idle] /\ attempt' \in [Attempts -> AttemptStates]
        /\ attempt'[a].at = "idle" /\ \A b \in Attempts \ {a} : attempt'[b] = attempt[b]
    BY <1>0, IdleType DEF Commit, FailCommit, RecordFailure, Crash, End, TypeOK
  <1>2. /\ enrolled' \in [Courses -> Modes \cup {NoMode}]
        /\ invoiced' \subseteq Carts /\ invoiced \subseteq invoiced'
        /\ silent' \subseteq Carts /\ silent \subseteq silent'
        /\ contested' \subseteq Courses /\ contested \subseteq contested'
    <2>1. CASE Commit(a)
      <3>1. \A k \in Courses : Holding(a, k) \in Modes \cup {NoMode}
        BY <1>0, CoursesType DEF Holding, Mode, TypeOK
      <3>2. Rivalled(a) \subseteq Courses
        BY <1>0 DEF Rivalled, AttemptStates
      <3> QED
        BY <1>0, <2>1, <3>1, <3>2 DEF Commit, TypeOK
    <2>2. CASE FailCommit(a) \/ RecordFailure(a) \/ Crash(a)
      BY <1>0, <2>2 DEF FailCommit, RecordFailure, Crash, TypeOK
    <2> QED
      BY <2>1, <2>2
  <1>3. /\ trail' \in [Carts -> Entries]
        /\ \A c \in Carts : trail[c].landed \subseteq trail'[c].landed
        /\ Cart(a) \in Bundles => \/ attempt[a].landed \subseteq trail'[Cart(a)].landed
                                  \/ Cart(a) \in invoiced' \cup silent'
    <2>1. CASE RecordFailure(a) /\ Cart(a) \in Bundles
      <3>1. PICK entry : entry = [landed |-> trail[Cart(a)].landed \cup attempt[a].landed,
                                  held |-> trail[Cart(a)].held \cup attempt[a].held]
        OBVIOUS
      <3>2. trail' = [trail EXCEPT ![Cart(a)] = entry]
        BY <2>1, <3>1 DEF RecordFailure
      <3>3. /\ entry \in Entries /\ trail[Cart(a)].landed \subseteq entry.landed
            /\ attempt[a].landed \subseteq entry.landed
        BY <1>0, <3>1 DEF TypeOK, Entries, AttemptStates
      <3> QED
        BY <1>0, <3>2, <3>3 DEF TypeOK
    <2>2. CASE ~(RecordFailure(a) /\ Cart(a) \in Bundles)
      BY <1>0, <2>2 DEF Commit, FailCommit, RecordFailure, Crash, TypeOK
    <2> QED
      BY <2>1, <2>2
  <1>4. TypeOK'
    BY <1>0, <1>1, <1>2, <1>3 DEF TypeOK, Cart
  <1>5. ToldIsKept'
    BY <1>0, <1>1, <1>2, <1>3, ToldStays
  <1> QED
    BY <1>0, <1>1, <1>2, <1>4, <1>5, ProgressKept DEF ProgressInv

LEMMA BeginStep ==
  ASSUME ProgressInv, NEW a \in Attempts, NEW c \in Carts, Begin(a, c)
  PROVE  /\ ProgressInv'
         /\ UNCHANGED <<enrolled, invoiced, trail, changed, contested>>
         /\ \A b \in Attempts \ {a} : attempt'[b] = attempt[b]
         /\ attempt'[a].held = {} /\ attempt'[a].wrote = {} /\ attempt'[a].at # "writing"
  <1>0. /\ TypeOK /\ attempt[a].at = "idle"
        /\ attempt' = [attempt EXCEPT ![a] = [Idle EXCEPT !.at = "checking", !.cart = c]]
        /\ missing' = [missing EXCEPT ![a] = Courses \ onSale]
        /\ UNCHANGED <<enrolled, onSale, invoiced, trail, told, changed, silent, contested>>
    BY DEF Begin, ProgressInv
  <1>1. PICK state : state = [Idle EXCEPT !.at = "checking", !.cart = c]
    OBVIOUS
  <1>2. /\ state \in AttemptStates /\ state.at = "checking" /\ state.cart = c /\ state.next = 1
        /\ state.wrote = {} /\ state.held = {} /\ state.landed = {}
    BY <1>1 DEF Idle, AttemptStates
  <1>3. /\ attempt' \in [Attempts -> AttemptStates] /\ attempt'[a] = state
        /\ \A b \in Attempts \ {a} : attempt'[b] = attempt[b]
    BY <1>0, <1>1, <1>2 DEF TypeOK
  <1>4. /\ missing' \in [Attempts -> SUBSET Courses] /\ missing'[a] = Courses \ onSale
        /\ \A b \in Attempts \ {a} : missing'[b] = missing[b]
    BY <1>0 DEF TypeOK
  <1>5. 1 \in 1..Len(CoursesOf[c])
    BY CoursesType
  <1>6. TypeOK'
    BY <1>0, <1>2, <1>3, <1>4, <1>5 DEF TypeOK, Cart
  <1>7. AtWork(state, missing'[a])
    BY <1>2 DEF AtWork, Passed
  <1>8. ToldIsKept'
    BY <1>0, <1>2, <1>3, ToldStays DEF Cart
  <1>9. ProgressInv'
    BY <1>0, <1>3, <1>4, <1>6, <1>7, <1>8, ProgressKept DEF ProgressInv
  <1> QED
    BY <1>0, <1>2, <1>3, <1>9

LEMMA OutsideStep ==
  ASSUME ProgressInv, OpenEdxStep
  PROVE  /\ ProgressInv'
         /\ UNCHANGED <<invoiced, trail, attempt, contested>>
         /\ changed \subseteq changed'
         /\ \A k \in Courses \ changed' : enrolled'[k] = enrolled[k]
  <1>0. TypeOK /\ UNCHANGED <<invoiced, trail, attempt, told, silent, contested>>
    BY DEF OpenEdxStep, EnrolOutside, TakeOffSale, PutOnSale, ProgressInv
  <1>1. /\ enrolled' \in [Courses -> Modes \cup {NoMode}] /\ onSale' \subseteq Courses
        /\ missing' \in [Attempts -> SUBSET Courses] /\ changed' \subseteq Courses
        /\ changed \subseteq changed'
        /\ \A k \in Courses \ changed' : enrolled'[k] = enrolled[k]
        /\ \A a \in Attempts : missing'[a] \subseteq missing[a] /\ missing'[a] \cap onSale' = {}
    <2>1. PICK k \in Unsettled : \/ \E mode \in Modes \cup {NoMode} : EnrolOutside(k, mode)
                                 \/ TakeOffSale(k) \/ PutOnSale(k)
      BY DEF OpenEdxStep
    <2>2. k \in Courses
      BY FulfilmentAssumption
    <2>3. CASE \E mode \in Modes \cup {NoMode} : EnrolOutside(k, mode)
      BY <1>0, <2>2, <2>3 DEF EnrolOutside, TypeOK, ProgressInv
    <2>4. CASE TakeOffSale(k)
      BY <1>0, <2>4 DEF TakeOffSale, TypeOK, ProgressInv
    <2>5. CASE PutOnSale(k)
      BY <1>0, <2>2, <2>5 DEF PutOnSale, TypeOK, ProgressInv
    <2> QED
      BY <2>1, <2>3, <2>4, <2>5
  <1>2. TypeOK'
    BY <1>0, <1>1 DEF TypeOK, Cart
  <1>3. \A a \in Attempts : attempt[a].at # "idle" => AtWork(attempt[a], missing'[a])
    BY <1>1 DEF ProgressInv, AtWork
  <1>4. ToldIsKept'
    BY <1>0 DEF ProgressInv, ToldIsKept, Cart
  <1> QED
    BY <1>0, <1>1, <1>2, <1>3, <1>4 DEF ProgressInv

LEMMA RefuseStep ==
  ASSUME ProgressInv, NEW a \in Attempts, RefuseEnrolment(a)
  PROVE  /\ ProgressInv'
         /\ UNCHANGED <<enrolled, invoiced, trail, changed, contested>>
         /\ \A b \in Attempts \ {a} : attempt'[b] = attempt[b]
         /\ attempt'[a].held = attempt[a].held /\ attempt'[a].cart = attempt[a].cart
         /\ attempt[a].at # "idle" /\ attempt'[a].at = "failing" /\ attempt'[a].wrote = {}
  <1>1. /\ attempt[a].at # "idle" /\ Fail(a)
        /\ UNCHANGED <<enrolled, onSale, invoiced, trail, told, changed, missing, silent, contested>>
    BY DEF RefuseEnrolment
  <1> QED
    BY <1>1, FailStep

LEMMA ProgressAlways == Spec => []ProgressInv
  <1>1. ProgressInv /\ [Next]_vars => ProgressInv'
    <2>1. ASSUME ProgressInv, UNCHANGED vars
          PROVE  ProgressInv'
      BY <2>1 DEF vars, ProgressInv, TypeOK, ToldIsKept, Cart
    <2>2. ASSUME ProgressInv, NEW a \in Attempts, AttemptStep(a) \/ Crash(a)
          PROVE  ProgressInv'
      BY <2>2, CheckStep, ReadStep, EnrolStep, RefuseStep, EndStep DEF AttemptStep
    <2> QED
      BY <2>1, <2>2, BeginStep, OutsideStep DEF Next
  <1> QED
    BY InitProgress, <1>1, PTL DEF Spec

(***************************************************************************)
(* What the learner holds.                                                 *)
(***************************************************************************)
\* The courses sales alone do not account for, or not one sale at a time.
Unsure == changed \cup contested

\* What an attempt found held is held.
HeldAtWork ==
  \A a \in Attempts : attempt[a].at # "idle" =>
    \A k \in attempt[a].held \ Unsure : enrolled[k] = Mode(a, k)

\* A course may be put in a mode without taking anything from the learner.
Below(k, mode) == enrolled[k] \in Free \cup {NoMode, mode}

\* What an attempt has written, or is about to upgrade, is below the mode
\* bought or in it, whatever was committed since it was read.
Raises(s) ==
  /\ \A k \in s.wrote \ Unsure : Below(k, ModeOf[s.cart][k])
  /\ s.at = "writing" /\ s.seen \in Free =>
       LET k == CoursesOf[s.cart][s.next] IN k \in Unsure \/ Below(k, ModeOf[s.cart][k])

SoldInv ==
  /\ ProgressInv
  /\ \A c \in invoiced : \A k \in Granted(c) \ Unsure : enrolled[k] = ModeOf[c][k]
  /\ \A k \in contested \ changed :
       \E d \in invoiced : k \in Granted(d) /\ enrolled[k] = ModeOf[d][k]
  /\ HeldAtWork
  /\ \A c \in Carts : trail[c].held \subseteq Granted(c)
  /\ \A c \in Carts : \A k \in trail[c].held \ Unsure : enrolled[k] = ModeOf[c][k]
  /\ \A a \in Attempts : attempt[a].at # "idle" => Raises(attempt[a])

LEMMA InitSold == Init => SoldInv
  <1>1. Init => \A a \in Attempts : attempt[a].at = "idle"
    BY IdleType DEF Init
  <1> QED
    BY InitProgress, <1>1 DEF Init, SoldInv, HeldAtWork

\* The enrolments that are in the mode a cart bought stay so.
EnrolmentsKept ==
  /\ changed \subseteq changed' /\ contested \subseteq contested'
  /\ \A c \in Carts : \A k \in Granted(c) \ Unsure' :
       enrolled[k] = ModeOf[c][k] => enrolled'[k] = ModeOf[c][k]

\* An attempt that does not move is still right about its courses: whatever was
\* committed meanwhile put them in the mode it buys, or was its rival.
LEMMA RaisesStays ==
  ASSUME SoldInv, NEW b \in Attempts, attempt[b].at # "idle", attempt'[b] = attempt[b],
         Unsure \subseteq Unsure',
         \A k \in Granted(Cart(b)) \ Unsure' :
           enrolled'[k] = enrolled[k] \/ enrolled'[k] = ModeOf[Cart(b)][k]
  PROVE  Raises(attempt[b])'
  <1>1. /\ Raises(attempt[b]) /\ attempt[b].cart = Cart(b)
        /\ attempt[b].wrote \subseteq Granted(Cart(b))
        /\ CoursesOf[attempt[b].cart][attempt[b].next] \in Granted(Cart(b))
    BY AtMember DEF SoldInv, AtWork, Member
  <1> QED
    BY <1>1 DEF Raises, Below

\* Steps that end no attempt.
LEMMA SoldKept ==
  ASSUME SoldInv, ProgressInv', EnrolmentsKept, UNCHANGED <<invoiced, trail, contested>>,
         \A k \in Courses \ changed' : enrolled'[k] = enrolled[k],
         \A a \in Attempts : \/ attempt'[a] = attempt[a]
                             \/ attempt'[a].held = {}
                             \/ /\ attempt[a].at # "idle" /\ attempt'[a].cart = attempt[a].cart
                                /\ \A k \in attempt'[a].held :
                                     k \in attempt[a].held \/ enrolled[k] = ModeOf[attempt[a].cart][k],
         \A a \in Attempts : attempt'[a].at # "idle" => Raises(attempt[a])'
  PROVE  SoldInv'
  <1>0. TypeOK /\ invoiced \subseteq Carts /\ contested \subseteq Courses
    BY DEF SoldInv, ProgressInv, TypeOK
  <1>1. \A c \in invoiced : \A k \in Granted(c) \ Unsure' : enrolled'[k] = ModeOf[c][k]
    BY <1>0 DEF SoldInv, EnrolmentsKept, Unsure
  <1>2. \A k \in contested \ changed' :
          \E d \in invoiced : k \in Granted(d) /\ enrolled'[k] = ModeOf[d][k]
    BY <1>0 DEF SoldInv, EnrolmentsKept
  <1>3. HeldAtWork'
    <2> SUFFICES ASSUME NEW a \in Attempts, attempt'[a].at # "idle", NEW k \in attempt'[a].held \ Unsure'
        PROVE  enrolled'[k] = ModeOf[attempt'[a].cart][k]
      BY DEF HeldAtWork, Mode, Cart
    <2>1. attempt'[a].cart \in Carts /\ k \in Granted(attempt'[a].cart)
      BY DEF ProgressInv, TypeOK, AtWork, Cart
    <2>2. enrolled[k] = ModeOf[attempt'[a].cart][k]
      BY DEF SoldInv, HeldAtWork, Mode, Cart, EnrolmentsKept, Unsure
    <2> QED
      BY <2>1, <2>2 DEF EnrolmentsKept
  <1>4. \A c \in Carts : \A k \in trail[c].held \ Unsure' : enrolled'[k] = ModeOf[c][k]
    BY DEF SoldInv, EnrolmentsKept, Unsure
  <1> QED
    BY <1>1, <1>2, <1>3, <1>4 DEF SoldInv

\* Before it ends, an attempt changes no enrolment, and writes one only where it
\* found none or read a mode it may upgrade.
LEMMA AttemptRaises ==
  ASSUME SoldInv, NEW a \in Attempts,
         \/ CheckMember(a) \/ ReadEnrolment(a) \/ Enrol(a) \/ RefuseEnrolment(a)
         \/ \E c \in Carts : Begin(a, c)
  PROVE  /\ UNCHANGED <<enrolled, invoiced, changed, contested>>
         /\ \A b \in Attempts : attempt'[b].at # "idle" => Raises(attempt[b])'
  <1>0. ProgressInv
    BY DEF SoldInv
  <1>1. /\ UNCHANGED <<enrolled, invoiced, changed, contested>>
        /\ \A b \in Attempts \ {a} : attempt'[b] = attempt[b]
    BY <1>0, CheckStep, ReadStep, EnrolStep, RefuseStep, BeginStep
  <1>2. \A b \in Attempts \ {a} : attempt'[b].at # "idle" => Raises(attempt[b])'
    BY <1>1, RaisesStays DEF Unsure
  <1>3. attempt'[a].at # "idle" => Raises(attempt[a])'
    <2>1. CASE CheckMember(a) \/ RefuseEnrolment(a) \/ \E c \in Carts : Begin(a, c)
      <3>1. attempt'[a].wrote = {} /\ attempt'[a].at # "writing"
        BY <1>0, <2>1, CheckStep, RefuseStep, BeginStep
      <3> QED
        BY <3>1 DEF Raises
    <2>2. CASE ReadEnrolment(a)
      <3>1. /\ attempt[a].at # "idle" /\ attempt'[a].cart = attempt[a].cart
            /\ attempt'[a].wrote = attempt[a].wrote
            /\ attempt'[a].at = "writing" =>
                 attempt'[a].next = attempt[a].next /\ attempt'[a].seen = enrolled[Member(a)]
        BY <1>0, <2>2, ReadStep
      <3>2. Raises(attempt[a]) /\ Member(a) = CoursesOf[attempt[a].cart][attempt[a].next]
        BY <1>0, <3>1, AtMember DEF SoldInv
      <3> QED
        BY <1>1, <3>1, <3>2 DEF Raises, Below, Unsure
    <2>3. CASE Enrol(a)
      <3>1. /\ attempt[a].at = "writing" /\ attempt'[a].at # "writing"
            /\ attempt'[a].cart = attempt[a].cart
            /\ attempt'[a].wrote = attempt[a].wrote \cup {Member(a)}
            /\ attempt[a].seen \in Free \/ enrolled[Member(a)] = NoMode
        BY <1>0, <2>3, EnrolStep
      <3>2. Raises(attempt[a]) /\ Member(a) = CoursesOf[attempt[a].cart][attempt[a].next]
        BY <1>0, <3>1, AtMember DEF SoldInv
      <3> QED
        BY <1>1, <3>1, <3>2 DEF Raises, Below, Unsure
    <2> QED
      BY <2>1, <2>2, <2>3
  <1> QED
    BY <1>1, <1>2, <1>3

\* A commit raises what it wrote, is seen by its rivals, and leaves no one else
\* with an enrolment in another mode than before.
LEMMA CommitEnrols ==
  ASSUME SoldInv, NEW a \in Attempts, Commit(a)
  PROVE  /\ EnrolmentsKept /\ UNCHANGED <<changed, trail>>
         /\ Cart(a) \in Carts /\ invoiced' = invoiced \cup {Cart(a)}
         /\ \A k \in Courses :
              enrolled'[k] = IF k \in attempt[a].wrote THEN ModeOf[Cart(a)][k] ELSE enrolled[k]
         /\ \A k \in Granted(Cart(a)) \ Unsure' : enrolled'[k] = ModeOf[Cart(a)][k]
         /\ \A k \in contested' \ changed :
              \E d \in invoiced' : k \in Granted(d) /\ enrolled'[k] = ModeOf[d][k]
         /\ \A b \in Attempts \ {a} : attempt[b].at # "idle" =>
              \A k \in Granted(Cart(b)) \ Unsure' :
                enrolled'[k] = enrolled[k] \/ enrolled'[k] = ModeOf[Cart(b)][k]
  <1>0. /\ ProgressInv /\ TypeOK /\ attempt[a].at = "closing"
        /\ invoiced' = invoiced \cup {Cart(a)} /\ UNCHANGED <<changed, trail>>
        /\ contested' = contested \cup Rivalled(a)
        /\ enrolled' = [k \in Courses |-> Holding(a, k)]
    BY DEF SoldInv, ProgressInv, Commit
  <1>1. /\ Cart(a) \in Carts /\ attempt[a].cart = Cart(a) /\ AtWork(attempt[a], missing[a])
        /\ attempt[a].wrote \subseteq Granted(Cart(a)) /\ Granted(Cart(a)) \subseteq Courses
        /\ Raises(attempt[a])
    BY <1>0, AtMember, CoursesType DEF SoldInv, AtWork
  <1>2. \A k \in Courses :
          enrolled'[k] = IF k \in attempt[a].wrote THEN ModeOf[Cart(a)][k] ELSE enrolled[k]
    BY <1>0 DEF Holding, Mode
  <1>3. Unsure \subseteq Unsure' /\ contested \subseteq contested'
    BY <1>0 DEF Unsure
  <1>4. EnrolmentsKept
    <2> SUFFICES ASSUME NEW c \in Carts, NEW k \in Granted(c) \ Unsure', enrolled[k] = ModeOf[c][k]
        PROVE  enrolled'[k] = ModeOf[c][k]
      BY <1>0, <1>3 DEF EnrolmentsKept
    <2>1. k \in Courses /\ ModeOf[c][k] \notin Free /\ ModeOf[c][k] # NoMode /\ k \notin Unsure
      BY <1>3, CoursesType
    <2>2. k \in attempt[a].wrote => enrolled[k] = ModeOf[Cart(a)][k]
      BY <1>1, <2>1 DEF Raises, Below
    <2> QED
      BY <1>2, <2>1, <2>2
  <1>5. \A k \in Granted(Cart(a)) \ Unsure' : enrolled'[k] = ModeOf[Cart(a)][k]
    <2> SUFFICES ASSUME NEW k \in Granted(Cart(a)) \ Unsure'
        PROVE  enrolled'[k] = ModeOf[Cart(a)][k]
      OBVIOUS
    <2>1. k \in Courses /\ k \notin Unsure /\ k \in attempt[a].wrote \cup attempt[a].held
      BY <1>0, <1>1, <1>3 DEF AtWork
    <2>2. CASE k \in attempt[a].wrote
      BY <1>2, <2>1, <2>2
    <2>3. CASE k \in attempt[a].held
      <3>1. enrolled[k] = ModeOf[Cart(a)][k]
        BY <1>0, <2>1, <2>3 DEF SoldInv, HeldAtWork, Mode
      <3> QED
        BY <1>1, <1>4, <3>1 DEF EnrolmentsKept
    <2> QED
      BY <2>1, <2>2, <2>3
  <1>6. \A k \in contested' \ changed :
          \E d \in invoiced' : k \in Granted(d) /\ enrolled'[k] = ModeOf[d][k]
    <2> SUFFICES ASSUME NEW k \in contested' \ changed
        PROVE  \E d \in invoiced' : k \in Granted(d) /\ enrolled'[k] = ModeOf[d][k]
      OBVIOUS
    <2>1. CASE k \in attempt[a].wrote
      BY <1>0, <1>1, <1>2, <2>1
    <2>2. CASE k \notin attempt[a].wrote
      <3>1. k \in contested \ changed /\ k \in Courses
        BY <1>0, <2>2 DEF Rivalled, TypeOK
      <3> QED
        BY <1>0, <1>2, <2>2, <3>1 DEF SoldInv
    <2> QED
      BY <2>1, <2>2
  <1>7. ASSUME NEW b \in Attempts \ {a}, attempt[b].at # "idle", NEW k \in Granted(Cart(b)) \ Unsure'
        PROVE  enrolled'[k] = enrolled[k] \/ enrolled'[k] = ModeOf[Cart(b)][k]
    <2>1. k \in Courses
      BY <1>0, <1>7, AtMember, CoursesType
    <2>2. k \in attempt[a].wrote => ModeOf[Cart(b)][k] = ModeOf[Cart(a)][k]
      BY <1>0, <1>7 DEF Rivalled, Mode, Unsure
    <2> QED
      BY <1>2, <2>1, <2>2
  <1> QED
    BY <1>0, <1>1, <1>2, <1>4, <1>5, <1>6, <1>7

\* The end of an attempt, which may be a commit.
LEMMA SoldEnds ==
  ASSUME SoldInv, NEW a \in Attempts,
         Commit(a) \/ FailCommit(a) \/ RecordFailure(a) \/ Crash(a)
  PROVE  SoldInv'
  <1>0. /\ ProgressInv /\ ProgressInv' /\ UNCHANGED changed /\ contested \subseteq contested'
        /\ attempt'[a].at = "idle" /\ attempt[a].at # "idle"
        /\ \A b \in Attempts \ {a} : attempt'[b] = attempt[b]
        /\ Unsure \subseteq Unsure'
    BY EndStep DEF SoldInv, Unsure
  <1>1. /\ Cart(a) \in Carts /\ TypeOK /\ attempt[a].cart = Cart(a)
        /\ attempt[a].held \subseteq Granted(Cart(a))
    BY <1>0, AtMember DEF ProgressInv, AtWork
  <1>2. /\ EnrolmentsKept
        /\ \A c \in invoiced' : \A k \in Granted(c) \ Unsure' : enrolled'[k] = ModeOf[c][k]
        /\ \A k \in contested' \ changed :
             \E d \in invoiced' : k \in Granted(d) /\ enrolled'[k] = ModeOf[d][k]
        /\ \A b \in Attempts \ {a} : attempt[b].at # "idle" =>
             \A k \in Granted(Cart(b)) \ Unsure' :
               enrolled'[k] = enrolled[k] \/ enrolled'[k] = ModeOf[Cart(b)][k]
        /\ Commit(a) => UNCHANGED trail
    <2>1. CASE Commit(a)
      <3>1. \A c \in invoiced : \A k \in Granted(c) \ Unsure' : enrolled'[k] = ModeOf[c][k]
        BY <1>0, <1>1, <2>1, CommitEnrols DEF SoldInv, EnrolmentsKept, TypeOK
      <3> QED
        BY <2>1, <3>1, CommitEnrols
    <2>2. CASE ~Commit(a)
      <3>1. UNCHANGED <<enrolled, invoiced, contested>>
        BY <2>2 DEF FailCommit, RecordFailure, Crash
      <3> QED
        BY <1>0, <2>2, <3>1 DEF SoldInv, EnrolmentsKept, Unsure
    <2> QED
      BY <2>1, <2>2
  <1>3. \A b \in Attempts : attempt'[b].at # "idle" => Raises(attempt[b])'
    BY <1>0, <1>2, RaisesStays
  <1>4. HeldAtWork'
    <2> SUFFICES ASSUME NEW b \in Attempts, attempt'[b].at # "idle", NEW k \in attempt'[b].held \ Unsure'
        PROVE  enrolled'[k] = ModeOf[attempt'[b].cart][k]
      BY DEF HeldAtWork, Mode, Cart
    <2>1. b # a /\ attempt'[b] = attempt[b]
      BY <1>0
    <2>2. attempt[b].cart \in Carts /\ k \in Granted(attempt[b].cart)
      BY <1>0, <2>1 DEF ProgressInv, TypeOK, AtWork, Cart
    <2>3. enrolled[k] = ModeOf[attempt[b].cart][k]
      BY <1>0, <2>1 DEF SoldInv, HeldAtWork, Mode, Cart
    <2> QED
      BY <1>2, <2>1, <2>2, <2>3 DEF EnrolmentsKept
  <1>5. \A c \in Carts : \A k \in trail'[c].held :
          \/ k \in trail[c].held
          \/ c = Cart(a) /\ k \in attempt[a].held
    <2>1. CASE RecordFailure(a) /\ Cart(a) \in Bundles
      <3>1. trail' = [trail EXCEPT ![Cart(a)] = [landed |-> trail[Cart(a)].landed \cup attempt[a].landed,
                                                 held |-> trail[Cart(a)].held \cup attempt[a].held]]
        BY <2>1 DEF RecordFailure
      <3> QED
        BY <1>1, <3>1 DEF TypeOK
    <2>2. CASE ~(RecordFailure(a) /\ Cart(a) \in Bundles)
      BY <1>2, <2>2 DEF FailCommit, RecordFailure, Crash
    <2> QED
      BY <2>1, <2>2
  <1>6. \A c \in Carts : trail'[c].held \subseteq Granted(c)
    BY <1>1, <1>5 DEF SoldInv
  <1>7. \A c \in Carts : \A k \in trail'[c].held \ Unsure' : enrolled'[k] = ModeOf[c][k]
    <2> SUFFICES ASSUME NEW c \in Carts, NEW k \in trail'[c].held \ Unsure'
        PROVE  enrolled'[k] = ModeOf[c][k]
      OBVIOUS
    <2>1. enrolled[k] = ModeOf[c][k]
      BY <1>0, <1>5 DEF SoldInv, HeldAtWork, Mode
    <2> QED
      BY <1>2, <1>6, <2>1 DEF EnrolmentsKept
  <1> QED
    BY <1>0, <1>2, <1>3, <1>4, <1>6, <1>7 DEF SoldInv

LEMMA SoldNext ==
  ASSUME SoldInv, [Next]_vars
  PROVE  SoldInv'
  <1>1. ASSUME UNCHANGED vars
        PROVE  SoldInv'
    BY <1>1
    DEF vars, SoldInv, ProgressInv, TypeOK, ToldIsKept, Cart, HeldAtWork, Mode, Unsure, Raises, Below
  <1>2. ASSUME NEW a \in Attempts, CheckMember(a) \/ \E c \in Carts : Begin(a, c)
        PROVE  SoldInv'
    <2>1. /\ ProgressInv' /\ UNCHANGED <<enrolled, invoiced, trail, changed, contested>>
          /\ \A b \in Attempts \ {a} : attempt'[b] = attempt[b]
          /\ attempt'[a].held = {}
      BY <1>2, CheckStep, BeginStep DEF SoldInv
    <2> QED
      BY <1>2, <2>1, AttemptRaises, SoldKept DEF EnrolmentsKept
  <1>3. ASSUME NEW a \in Attempts, ReadEnrolment(a) \/ Enrol(a) \/ RefuseEnrolment(a)
        PROVE  SoldInv'
    <2>1. /\ ProgressInv' /\ UNCHANGED <<enrolled, invoiced, trail, changed, contested>>
          /\ \A b \in Attempts \ {a} : attempt'[b] = attempt[b]
          /\ attempt'[a].cart = attempt[a].cart /\ attempt[a].at # "idle"
          /\ \A k \in attempt'[a].held : k \in attempt[a].held \/ enrolled[k] = ModeOf[attempt[a].cart][k]
      BY <1>3, ReadStep, EnrolStep, RefuseStep DEF SoldInv, Mode, Cart
    <2> QED
      BY <1>3, <2>1, AttemptRaises, SoldKept DEF EnrolmentsKept
  <1>4. ASSUME OpenEdxStep
        PROVE  SoldInv'
    <2>1. /\ ProgressInv /\ ProgressInv' /\ UNCHANGED <<invoiced, trail, attempt, contested>>
          /\ changed \subseteq changed' /\ Unsure \subseteq Unsure'
          /\ \A k \in Courses \ changed' : enrolled'[k] = enrolled[k]
      BY <1>4, OutsideStep DEF SoldInv, Unsure
    <2>2. EnrolmentsKept
      BY <2>1, CoursesType DEF EnrolmentsKept, Unsure
    <2>3. \A b \in Attempts : attempt[b].at # "idle" => Granted(Cart(b)) \subseteq Courses
      BY <2>1, AtMember, CoursesType
    <2>4. \A b \in Attempts : attempt'[b].at # "idle" => Raises(attempt[b])'
      BY <2>1, <2>3, RaisesStays DEF Unsure
    <2> QED
      BY <2>1, <2>2, <2>4, SoldKept
  <1> QED
    BY <1>1, <1>2, <1>3, <1>4, SoldEnds DEF Next, AttemptStep

LEMMA SoldAlways == Spec => []SoldInv
  <1>1. SoldInv /\ [Next]_vars => SoldInv'
    BY SoldNext
  <1> QED
    BY InitSold, <1>1, PTL DEF Spec

-----------------------------------------------------------------------------
\* Attempts, enrolments and entries keep their types, and an attempt at work is
\* at a course of its cart.
THEOREM FulfilmentTypeCorrect == Spec => []TypeOK
  <1>1. ProgressInv => TypeOK
    BY DEF ProgressInv
  <1> QED
    BY ProgressAlways, <1>1, PTL

\* issue_invoice_and_fulfill is one transaction: a learner with an invoice holds
\* every course it is for, in the mode bought, however many attempts run beside
\* each other, until the enrolment is changed outside; only a cart sold in a
\* race with it may put its own mode in the place.
THEOREM SoldHeld == Spec => []SoldIsEnrolled
  <1>1. SoldInv => SoldIsEnrolled
    BY DEF SoldInv, SoldIsEnrolled, Has, Unsure
  <1> QED
    BY SoldAlways, <1>1, PTL

\* The already_held of a bundle_fulfillment_failed entry: what staff are told
\* to leave alone, the learner holds, or had replaced in a race of two sales.
THEOREM HeldLeftAlone == Spec => []HeldNeedsNoAction
  <1>1. SoldInv => HeldNeedsNoAction
    BY DEF SoldInv, HeldNeedsNoAction, Has, Unsure
  <1> QED
    BY SoldAlways, <1>1, PTL

\* _record_bundle_failure: what Open edX announced of a bundle that was not
\* invoiced is in its entries, unless a process died or a commit failed.
THEOREM AnnouncedIsRecorded == Spec => []ToldIsOnRecord
  <1>1. ProgressInv => ToldIsOnRecord
    BY DEF ProgressInv, ToldIsKept, ToldIsOnRecord
  <1> QED
    BY ProgressAlways, <1>1, PTL

\* The first pass of ProgramBundleCartHandler.fulfill: no one is enrolled in any
\* course of a bundle one of whose courses has been off sale since before.
THEOREM BrokenBundlesUntouched == Spec => BrokenBundleUntouched
  <1>1. ProgressInv /\ [Next]_vars =>
          [\A a \in Attempts : Enrol(a) => Granted(Cart(a)) \cap missing[a] = {}]_vars
    BY EnrolStep
  <1> QED
    BY ProgressAlways, <1>1, PTL DEF Spec, BrokenBundleUntouched
=============================================================================
