---------------------------- MODULE EventBusProofs ----------------------------
(***************************************************************************)
(* Proofs about EventBus, for any number of events, subscriptions,         *)
(* concurrent consumers, failures and crashes; and about the paged reads   *)
(* of EventFeed, for pages of any size.                                    *)
(***************************************************************************)
EXTENDS MCEventBus, FiniteSetTheorems, FunctionTheorems, WellFoundedInduction, TLAPS

\* No cursor and no call is ahead of the log.
InLog ==
  /\ \A s \in Subs : cursors[s] <= Len(log) /\ cursorFile[s] <= Len(log)
  /\ \A c \in Calls : call[c].todo \subseteq DOMAIN log /\ call[c].at <= Len(log)

\* Behind the events a call still has to do, and up to the position it
\* commits, everything its subscription wants has been handled.
CallsInv ==
  \A c \in Calls : \A p \in Matching(SubOf[c]) :
    \/ p \notin call[c].todo /\ \E q \in call[c].todo : p <= q
    \/ call[c].phase \in {"committing", "written"} /\ p <= call[c].at
    => p \in handled[SubOf[c]]

\* The inductive invariant.
IInv == TypeOK /\ InLog /\ CallsInv /\ NothingSkipped

LEMMA InitType == Init => TypeOK
  <1> SUFFICES ASSUME Init PROVE TypeOK
    OBVIOUS
  <1>1. cursors \in [Subs -> Nat] /\ cursorFile \in [Subs -> Nat]
    BY DEF Init, NoCursors
  <1>2. call \in [Calls -> [phase : Phases, todo : SUBSET Nat, at : Nat]]
    BY DEF Init, Idle, Phases
  <1>3. handled \in [Subs -> SUBSET Nat] /\ log \in Seq(Topics) /\ queue \in Seq(Calls)
    BY DEF Init
  <1>4. failures \in 0..MaxFailures
    BY BoundsAssumption DEF Init
  <1> QED
    BY <1>1, <1>2, <1>3, <1>4 DEF Init, TypeOK

\* Every step keeps the declared types.
LEMMA StepType == TypeOK /\ InLog /\ [Next]_vars => TypeOK'
  <1> SUFFICES ASSUME TypeOK, InLog, [Next]_vars PROVE TypeOK'
    OBVIOUS
  <1> USE SubOfAssumption, BoundsAssumption DEF TypeOK, Phases
  <1>0. /\ Idle \in [phase : Phases, todo : SUBSET Nat, at : Nat]
        /\ NoCursors \in [Subs -> Nat]
    BY DEF Idle, NoCursors
  <1>1. DOMAIN log \subseteq Nat
    OBVIOUS
  <1>2. CASE UNCHANGED vars
    BY <1>2 DEF vars
  <1>3. ASSUME NEW t \in Topics, Publish(t) PROVE TypeOK'
    BY <1>3 DEF Publish
  <1>4. ASSUME NEW c \in Calls, Consume(c) PROVE TypeOK'
    <2>1. Pending(SubOf[c]) \in SUBSET Nat
      BY <1>1 DEF Pending, Matching
    <2>2. call' \in [Calls -> [phase : Phases, todo : SUBSET Nat, at : Nat]]
      BY <1>4, <2>1 DEF Consume
    <2> QED
      BY <1>4, <2>2 DEF Consume
  <1>5. ASSUME NEW c \in Calls, Handle(c) PROVE TypeOK'
    <2>1. PICK p \in call[c].todo :
            /\ handled' = [handled EXCEPT ![SubOf[c]] = @ \union {p}]
            /\ call' = [call EXCEPT ![c] = [phase |-> "committing", todo |-> @.todo \ {p}, at |-> p]]
      BY <1>5 DEF Handle
    <2>2. p \in Nat /\ call[c].todo \in SUBSET Nat
      OBVIOUS
    <2>3. call' \in [Calls -> [phase : Phases, todo : SUBSET Nat, at : Nat]]
      BY <2>1, <2>2
    <2>4. handled' \in [Subs -> SUBSET Nat]
      BY <2>1, <2>2
    <2> QED
      BY <1>5, <2>3, <2>4 DEF Handle
  <1>6. ASSUME NEW c \in Calls, HandlerFails(c) PROVE TypeOK'
    BY <1>0, <1>6 DEF HandlerFails
  <1>7. ASSUME NEW c \in Calls, Committing(c) PROVE Tail(queue) \in Seq(Calls)
    BY <1>7 DEF Committing
  <1>8. ASSUME NEW c \in Calls, CommitWrite(c) PROVE TypeOK'
    BY <1>8 DEF CommitWrite
  <1>9. ASSUME NEW c \in Calls, CommitFails(c) PROVE TypeOK'
    BY <1>0, <1>7, <1>9 DEF CommitFails
  <1>10. ASSUME NEW c \in Calls, CommitSettles(c) PROVE TypeOK'
    BY <1>0, <1>7, <1>10 DEF CommitSettles
  <1>11. CASE Crash
    <2>1. cursors' \in [Subs -> Nat] /\ queue' \in Seq(Calls)
      BY <1>0, <1>11 DEF Crash
    <2>2. call' \in [Calls -> [phase : Phases, todo : SUBSET Nat, at : Nat]]
      BY <1>0, <1>11 DEF Crash
    <2>3. failures' \in 0..MaxFailures
      BY <1>11 DEF Crash
    <2> QED
      BY <1>11, <2>1, <2>2, <2>3 DEF Crash
  <1>12. CASE Open
    BY <1>12 DEF Open
  <1> QED
    BY <1>2, <1>3, <1>4, <1>5, <1>6, <1>8, <1>9, <1>10, <1>11, <1>12 DEF Next

LEMMA InitInv == Init => IInv
  <1> SUFFICES ASSUME Init PROVE IInv
    OBVIOUS
  <1>1. Len(log) = 0 /\ DOMAIN log = {}
    BY DEF Init
  <1> QED
    BY <1>1, InitType DEF Init, IInv, InLog, CallsInv, NothingSkipped, Matching, NoCursors, Idle

\* A step that leaves the log alone leaves what subscriptions match alone.
LEMMA SameLog == ASSUME log' = log PROVE \A s \in Subs : Matching(s)' = Matching(s)
  BY DEF Matching

\* Every step keeps the invariant.
LEMMA StepInv == IInv /\ [Next]_vars => IInv'
  <1> SUFFICES ASSUME IInv, [Next]_vars PROVE IInv'
    OBVIOUS
  <1> USE SubOfAssumption
  <1>0. TypeOK /\ TypeOK' /\ Len(log) \in Nat /\ DOMAIN log = 1..Len(log)
    <2>1. TypeOK /\ TypeOK'
      BY StepType DEF IInv
    <2> QED
      BY <2>1 DEF TypeOK
  <1>1. CASE UNCHANGED vars
    BY <1>0, <1>1, SameLog DEF vars, IInv, InLog, CallsInv, NothingSkipped
  <1>2. ASSUME NEW t \in Topics, Publish(t) PROVE IInv'
    <2>1. /\ log' = Append(log, t)
          /\ UNCHANGED <<up, cursors, cursorFile, call, queue, handled, failures>>
      BY <1>2 DEF Publish
    <2>2. /\ Len(log') = Len(log) + 1 /\ DOMAIN log' = 1..(Len(log) + 1)
          /\ \A p \in DOMAIN log : log'[p] = log[p]
      BY <1>0, <2>1 DEF TypeOK
    <2>3. InLog'
      <3>1. \A s \in Subs : cursors[s] \in Nat /\ cursorFile[s] \in Nat
        BY <1>0 DEF TypeOK
      <3>2. \A c \in Calls : call[c].at \in Nat
        BY <1>0 DEF TypeOK
      <3> QED
        BY <1>0, <2>1, <2>2, <3>1, <3>2 DEF IInv, InLog
    <2>4. \A s \in Subs, p \in DOMAIN log : p \in Matching(s)' => p \in Matching(s)
      BY <2>2 DEF Matching
    <2>5. \A s \in Subs : \A p \in Matching(s)' : p \in DOMAIN log \/ p = Len(log) + 1
      BY <1>0, <2>2 DEF Matching
    <2>6. CallsInv'
      <3> SUFFICES ASSUME NEW c \in Calls, NEW p \in Matching(SubOf[c])',
                          \/ p \notin call[c].todo /\ \E q \in call[c].todo : p <= q
                          \/ call[c].phase \in {"committing", "written"} /\ p <= call[c].at
                   PROVE  p \in handled[SubOf[c]]
        BY <2>1 DEF CallsInv
      <3>1. call[c].todo \subseteq 1..Len(log) /\ call[c].at <= Len(log) /\ call[c].at \in Nat
        BY <1>0 DEF IInv, InLog, TypeOK
      <3>2. p # Len(log) + 1
        BY <1>0, <3>1
      <3> QED
        BY <2>4, <2>5, <3>2 DEF IInv, CallsInv
    <2>7. NothingSkipped'
      <3> SUFFICES ASSUME NEW s \in Subs, NEW p \in Matching(s)',
                          p <= cursors[s] \/ p <= cursorFile[s]
                   PROVE  p \in handled[s]
        BY <2>1 DEF NothingSkipped, Matching
      <3>1. cursors[s] <= Len(log) /\ cursorFile[s] <= Len(log)
            /\ cursors[s] \in Nat /\ cursorFile[s] \in Nat
        BY <1>0 DEF IInv, InLog, TypeOK
      <3>2. p # Len(log) + 1
        BY <1>0, <3>1
      <3> QED
        BY <2>4, <2>5, <3>2 DEF IInv, NothingSkipped
    <2> QED
      BY <1>0, <2>3, <2>6, <2>7 DEF IInv
  <1>3. ASSUME NEW c \in Calls, Consume(c) PROVE IInv'
    <2>1. /\ call'[c].todo = Pending(SubOf[c]) /\ call'[c].at = 0 /\ call'[c].phase = "handling"
          /\ \A d \in Calls : d # c => call'[d] = call[d]
          /\ UNCHANGED <<log, up, cursors, cursorFile, queue, handled, failures>>
      BY <1>0, <1>3 DEF Consume, TypeOK
    <2>2. \A p \in Matching(SubOf[c]) : p \notin Pending(SubOf[c]) => p <= cursors[SubOf[c]]
      BY <1>0 DEF Pending, Matching, TypeOK
    <2>3. InLog'
      BY <1>0, <2>1 DEF IInv, InLog, Pending, Matching
    <2>4. CallsInv'
      <3>1. \A p \in Matching(SubOf[c]) : p \notin Pending(SubOf[c]) => p \in handled[SubOf[c]]
        BY <2>2 DEF IInv, NothingSkipped, Matching
      <3> QED
        BY <2>1, <3>1, SameLog DEF IInv, CallsInv
    <2>5. NothingSkipped'
      BY <2>1, SameLog DEF IInv, NothingSkipped
    <2> QED
      BY <1>0, <2>3, <2>4, <2>5 DEF IInv
  <1>4. ASSUME NEW c \in Calls, Handle(c) PROVE IInv'
    <2>1. PICK p \in call[c].todo :
            /\ call[c].phase = "handling"
            /\ \A q \in call[c].todo : p <= q
            /\ handled' = [handled EXCEPT ![SubOf[c]] = @ \union {p}]
            /\ call' = [call EXCEPT ![c] = [phase |-> "committing", todo |-> @.todo \ {p}, at |-> p]]
            /\ UNCHANGED <<log, up, cursors, cursorFile, failures>>
      BY <1>4 DEF Handle
    <2>2. /\ call'[c].todo = call[c].todo \ {p} /\ call'[c].at = p /\ call'[c].phase = "committing"
          /\ \A d \in Calls : d # c => call'[d] = call[d]
          /\ \A s \in Subs : handled[s] \subseteq handled'[s]
          /\ p \in handled'[SubOf[c]]
      BY <1>0, <2>1 DEF TypeOK
    <2>3. /\ call[c].todo \subseteq DOMAIN log /\ call[c].todo \subseteq Nat
          /\ p <= Len(log)
      BY <1>0, <2>1 DEF IInv, InLog, TypeOK
    <2>4. InLog'
      BY <1>0, <2>1, <2>2, <2>3 DEF IInv, InLog
    <2>5. ASSUME NEW x \in Matching(SubOf[c]), x <= p PROVE x \in handled'[SubOf[c]]
      <3>1. x \in Nat /\ p \in Nat
        BY <1>0, <2>3 DEF Matching
      <3>2. CASE x = p
        BY <2>2, <3>2
      <3>3. CASE x # p
        <4>1. x \notin call[c].todo
          BY <2>1, <2>5, <3>1, <3>3, <2>3
        <4>2. x \in handled[SubOf[c]]
          BY <2>5, <4>1 DEF IInv, CallsInv
        <4> QED
          BY <2>2, <4>2
      <3> QED
        BY <3>2, <3>3
    <2>6. CallsInv'
      <3> SUFFICES ASSUME NEW d \in Calls, NEW x \in Matching(SubOf[d]),
                          \/ x \notin call'[d].todo /\ \E q \in call'[d].todo : x <= q
                          \/ call'[d].phase \in {"committing", "written"} /\ x <= call'[d].at
                   PROVE  x \in handled'[SubOf[d]]
        BY <2>1, SameLog DEF CallsInv
      <3>1. CASE d # c
        BY <2>2, <3>1 DEF IInv, CallsInv
      <3>2. CASE d = c
        <4>1. CASE x <= p
          BY <2>5, <3>2, <4>1
        <4>2. CASE ~(x <= p)
          <5>1. x \notin call[c].todo /\ \E q \in call[c].todo : x <= q
            <6>1. x # p
              BY <2>3, <4>2, <1>0 DEF Matching
            <6> QED
              BY <2>2, <3>2, <4>2, <6>1
          <5>2. x \in handled[SubOf[c]]
            BY <3>2, <5>1 DEF IInv, CallsInv
          <5> QED
            BY <2>2, <3>2, <5>2
        <4> QED
          BY <4>1, <4>2
      <3> QED
        BY <3>1, <3>2
    <2>7. NothingSkipped'
      BY <2>1, <2>2, SameLog DEF IInv, NothingSkipped
    <2> QED
      BY <1>0, <2>4, <2>6, <2>7 DEF IInv
  <1>5. ASSUME NEW c \in Calls, HandlerFails(c) \/ CommitFails(c) PROVE IInv'
    <2>1. /\ call'[c] = Idle /\ \A d \in Calls : d # c => call'[d] = call[d]
          /\ UNCHANGED <<log, up, cursors, cursorFile, handled>>
      BY <1>0, <1>5 DEF HandlerFails, CommitFails, TypeOK
    <2>2. InLog' /\ CallsInv' /\ NothingSkipped'
      BY <1>0, <2>1, SameLog DEF IInv, InLog, CallsInv, NothingSkipped, Idle
    <2> QED
      BY <1>0, <2>2 DEF IInv
  <1>6. ASSUME NEW c \in Calls, CommitWrite(c) PROVE IInv'
    <2>1. /\ call[c].phase = "committing"
          /\ cursorFile' = [cursors EXCEPT ![SubOf[c]] = call[c].at]
          /\ \A d \in Calls : call'[d].todo = call[d].todo /\ call'[d].at = call[d].at
          /\ \A d \in Calls : d # c => call'[d].phase = call[d].phase
          /\ UNCHANGED <<log, up, cursors, queue, handled, failures>>
      BY <1>0, <1>6 DEF CommitWrite, TypeOK
    <2>2. /\ cursorFile'[SubOf[c]] = call[c].at
          /\ \A s \in Subs : s # SubOf[c] => cursorFile'[s] = cursors[s]
      BY <1>0, <2>1 DEF TypeOK
    <2>3. InLog'
      BY <2>1, <2>2 DEF IInv, InLog
    <2>4. CallsInv'
      BY <2>1, SameLog DEF IInv, CallsInv
    <2>5. NothingSkipped'
      BY <2>1, <2>2, SameLog DEF IInv, NothingSkipped, CallsInv
    <2> QED
      BY <1>0, <2>3, <2>4, <2>5 DEF IInv
  <1>7. ASSUME NEW c \in Calls, CommitSettles(c) PROVE IInv'
    <2>1. /\ call[c].phase = "written"
          /\ cursors' = [cursors EXCEPT ![SubOf[c]] = call[c].at]
          /\ call'[c].todo \subseteq call[c].todo /\ call'[c].phase \in {"idle", "handling"}
          /\ call'[c].todo = call[c].todo \/ call'[c].todo = {}
          /\ call'[c].at = call[c].at \/ call'[c].at = 0
          /\ \A d \in Calls : d # c => call'[d] = call[d]
          /\ UNCHANGED <<log, up, cursorFile, handled, failures>>
      BY <1>0, <1>7 DEF CommitSettles, TypeOK, Idle
    <2>2. /\ cursors'[SubOf[c]] = call[c].at
          /\ \A s \in Subs : s # SubOf[c] => cursors'[s] = cursors[s]
      BY <1>0, <2>1 DEF TypeOK
    <2>3. InLog'
      BY <1>0, <2>1, <2>2 DEF IInv, InLog
    <2>4. CallsInv'
      BY <2>1, SameLog DEF IInv, CallsInv
    <2>5. NothingSkipped'
      BY <2>1, <2>2, SameLog DEF IInv, NothingSkipped, CallsInv
    <2> QED
      BY <1>0, <2>3, <2>4, <2>5 DEF IInv
  <1>8. CASE Crash
    <2>1. /\ \A c \in Calls : call'[c] = Idle
          /\ \A s \in Subs : cursors'[s] = 0
          /\ UNCHANGED <<log, cursorFile, handled>>
      BY <1>8 DEF Crash, NoCursors
    <2>2. InLog' /\ CallsInv'
      BY <1>0, <2>1 DEF IInv, InLog, CallsInv, Idle
    <2>3. NothingSkipped'
      BY <1>0, <2>1, SameLog DEF IInv, NothingSkipped, Matching
    <2> QED
      BY <1>0, <2>2, <2>3 DEF IInv
  <1>9. CASE Open
    <2>1. cursors' = cursorFile /\ UNCHANGED <<log, cursorFile, call, queue, handled, failures>>
      BY <1>9 DEF Open
    <2>2. InLog' /\ CallsInv' /\ NothingSkipped'
      BY <2>1, SameLog DEF IInv, InLog, CallsInv, NothingSkipped
    <2> QED
      BY <1>0, <2>2 DEF IInv
  <1> QED
    BY <1>1, <1>2, <1>3, <1>4, <1>5, <1>6, <1>7, <1>8, <1>9 DEF Next

\* Every reachable state has the declared types.
THEOREM TypeCorrect == Spec => []TypeOK
  <1>1. IInv => TypeOK
    BY DEF IInv
  <1> QED
    BY <1>1, InitInv, StepInv, PTL DEF Spec

\* At-least-once delivery (event-bus/src/index.ts 95-118): no cursor, in
\* memory or in the file, ever passes an event its handler has not finished.
THEOREM AtLeastOnce == Spec => []NothingSkipped
  <1>1. IInv => NothingSkipped
    BY DEF IInv
  <1> QED
    BY <1>1, InitInv, StepInv, PTL DEF Spec

-----------------------------------------------------------------------------
(* The Map and the file.                                                   *)

\* A call whose commit the file has is at the head of the chain, and the file
\* is the Map with its position; otherwise the two agree.
WrittenIsHead ==
  \A c \in Calls : call[c].phase = "written" =>
    /\ up /\ queue # <<>> /\ c = Head(queue)
    /\ cursorFile = [cursors EXCEPT ![SubOf[c]] = call[c].at]

DurableInv == WrittenIsHead /\ CursorsDurable

\* A step that leaves both cursors and the head of the chain alone, and takes
\* no call to or from its written commit, keeps them related.
LEMMA DurableFrame ==
  ASSUME TypeOK, DurableInv, UNCHANGED <<up, cursors, cursorFile>>,
         queue # <<>> => queue' # <<>> /\ Head(queue') = Head(queue),
         \A c \in Calls : \/ call'[c] = call[c]
                          \/ call[c].phase # "written" /\ call'[c].phase # "written"
  PROVE  DurableInv'
<1>1. \A c \in Calls : call'[c].phase = "written" => call'[c] = call[c]
  OBVIOUS
<1>2. \A c \in Calls : call[c].phase = "written" => call'[c].phase = "written"
  OBVIOUS
<1> QED
  BY <1>1, <1>2 DEF DurableInv, WrittenIsHead, CursorsDurable

\* Every step keeps the Map and the file related.
LEMMA StepDurable == TypeOK /\ DurableInv /\ [Next]_vars => DurableInv'
<1> SUFFICES ASSUME TypeOK, DurableInv, [Next]_vars PROVE DurableInv'
  OBVIOUS
<1> USE SubOfAssumption DEF Idle
<1>0. /\ call \in [Calls -> [phase : Phases, todo : SUBSET Nat, at : Nat]]
      /\ queue \in Seq(Calls)
  BY DEF TypeOK
<1>1. CASE UNCHANGED vars
  BY <1>1, DurableFrame DEF vars
<1>2. ASSUME NEW t \in Topics, Publish(t) PROVE DurableInv'
  BY <1>2, DurableFrame DEF Publish
<1>3. ASSUME NEW c \in Calls, Consume(c) PROVE DurableInv'
  BY <1>0, <1>3, DurableFrame DEF Consume
<1>4. ASSUME NEW c \in Calls, Handle(c) PROVE DurableInv'
  <2>1. PICK p \in call[c].todo :
          call' = [call EXCEPT ![c] = [phase |-> "committing", todo |-> @.todo \ {p}, at |-> p]]
    BY <1>4 DEF Handle
  <2>2. /\ call[c].phase = "handling" /\ queue' = Append(queue, c)
        /\ UNCHANGED <<up, cursors, cursorFile>>
    BY <1>4 DEF Handle
  <2>3. queue # <<>> => queue' # <<>> /\ Head(queue') = Head(queue)
    BY <1>0, <2>2
  <2> QED
    BY <1>0, <2>1, <2>2, <2>3, DurableFrame
<1>5. ASSUME NEW c \in Calls, HandlerFails(c) PROVE DurableInv'
  BY <1>0, <1>5, DurableFrame DEF HandlerFails
\* While the call at the head has not written, nobody has.
<1>6. ASSUME NEW c \in Calls, Committing(c), call[c].phase = "committing"
      PROVE  cursors = cursorFile /\ \A d \in Calls : call[d].phase # "written"
  BY <1>6 DEF Committing, DurableInv, WrittenIsHead, CursorsDurable
<1>7. ASSUME NEW c \in Calls, CommitWrite(c) PROVE DurableInv'
  <2>1. cursors = cursorFile /\ \A d \in Calls : call[d].phase # "written"
    BY <1>6, <1>7 DEF CommitWrite
  <2>2. /\ \A d \in Calls : d # c => call'[d] = call[d]
        /\ call'[c].phase = "written" /\ call'[c].at = call[c].at
    BY <1>0, <1>7 DEF CommitWrite
  <2> QED
    BY <1>7, <2>1, <2>2
    DEF CommitWrite, Committing, DurableInv, WrittenIsHead, CursorsDurable
<1>8. ASSUME NEW c \in Calls, CommitFails(c) PROVE DurableInv'
  <2>1. cursors = cursorFile /\ \A d \in Calls : call[d].phase # "written"
    BY <1>6, <1>8 DEF CommitFails
  <2>2. \A d \in Calls : call'[d].phase # "written"
    BY <1>0, <1>8, <2>1 DEF CommitFails
  <2> QED
    BY <1>8, <2>1, <2>2 DEF CommitFails, DurableInv, WrittenIsHead, CursorsDurable
<1>9. ASSUME NEW c \in Calls, CommitSettles(c) PROVE DurableInv'
  <2>1. /\ cursorFile = [cursors EXCEPT ![SubOf[c]] = call[c].at]
        /\ \A d \in Calls : d # c => call[d].phase # "written"
    BY <1>9 DEF CommitSettles, Committing, DurableInv, WrittenIsHead
  <2>2. \A d \in Calls : call'[d].phase # "written"
    BY <1>0, <1>9, <2>1 DEF CommitSettles
  <2> QED
    BY <1>9, <2>1, <2>2 DEF CommitSettles, DurableInv, WrittenIsHead, CursorsDurable
<1>10. CASE Crash
  BY <1>10 DEF Crash, DurableInv, WrittenIsHead, CursorsDurable
<1>11. CASE Open
  BY <1>11 DEF Open, DurableInv, WrittenIsHead, CursorsDurable
<1> QED
  BY <1>1, <1>2, <1>3, <1>4, <1>5, <1>7, <1>8, <1>9, <1>10, <1>11 DEF Next

\* Whatever fails and whoever consumes at the same time, the Map never holds a
\* position that a restart would take back, but between the two steps of a
\* commit.
THEOREM CursorsAreDurable == Spec => []CursorsDurable
<1>1. Init => DurableInv
  BY DEF Init, Idle, DurableInv, WrittenIsHead, CursorsDurable
<1>2. DurableInv => CursorsDurable
  BY DEF DurableInv
<1> QED
  BY <1>1, <1>2, StepDurable, TypeCorrect, PTL DEF Spec

-----------------------------------------------------------------------------
(* Paged reads (EventFeed) of a ledger with one workspace, as MCEventBus    *)
(* composes them with the bus: pages of any size, ledgers of any length.    *)

Places == Feed!Places

\* A nonempty set of places has a first and a last.
LEMMA FirstPlace ==
  ASSUME NEW S \in SUBSET Places, S # {}
  PROVE  \E p \in S : \A q \in S : p[2] <= q[2]
<1> DEFINE R == OpToRel(<, Nat)
           numbers == {p[2] : p \in S}
<1>1. \A x, y \in Nat : x < y => <<x, y>> \in R
  BY DEF OpToRel
<1>2. IsWellFoundedOn(R, Nat)
  BY NatLessThanWellFounded, Zenon
<1> HIDE DEF R
<1>3. numbers \subseteq Nat /\ numbers # {}
  BY DEF Places, Feed!Places
<1>4. PICK x \in numbers : \A y \in numbers : <<y, x>> \notin R
  BY <1>2, <1>3, WFMin
<1>5. PICK p \in S : x = p[2]
  BY <1>4
<1>6. ASSUME NEW q \in S PROVE p[2] <= q[2]
  <2>1. q[2] \in numbers /\ q[2] \in Nat /\ x \in Nat
    BY <1>3
  <2>2. ~(q[2] < x)
    BY <1>1, <1>4, <2>1
  <2> QED
    BY <1>5, <2>1, <2>2
<1> QED
  BY <1>6

LEMMA LastPlace ==
  ASSUME NEW S \in SUBSET Places, S # {}
  PROVE  \E p \in S : \A q \in S : q[2] <= p[2]
<1> DEFINE R == OpToRel(<, Nat)
           room == {MaxEntries - p[2] : p \in S}
<1>1. \A x, y \in Nat : x < y => <<x, y>> \in R
  BY DEF OpToRel
<1>2. IsWellFoundedOn(R, Nat)
  BY NatLessThanWellFounded, Zenon
<1> HIDE DEF R
<1>3. MaxEntries \in Nat
  BY PageAssumption DEF Feed!LimitAssumption
<1>4. \A p \in S : p[2] \in 1..MaxEntries
  BY DEF Places, Feed!Places
<1>5. room \subseteq Nat /\ room # {}
  BY <1>3, <1>4
<1>6. PICK x \in room : \A y \in room : <<y, x>> \notin R
  BY <1>2, <1>5, WFMin
<1>7. PICK p \in S : x = MaxEntries - p[2]
  BY <1>6
<1>8. ASSUME NEW q \in S PROVE q[2] <= p[2]
  <2>1. MaxEntries - q[2] \in room /\ MaxEntries - q[2] \in Nat /\ x \in Nat
    BY <1>5
  <2>2. ~(MaxEntries - q[2] < x)
    BY <1>1, <1>6, <2>1
  <2>3. p[2] \in 1..MaxEntries /\ q[2] \in 1..MaxEntries
    BY <1>4
  <2> HIDE DEF room
  <2> QED
    BY <1>3, <1>7, <2>2, <2>3
<1> QED
  BY <1>8

\* With one workspace a response is in the order of the ledger.
LEMMA BeforeIs ==
  ASSUME NEW p \in Places, NEW q \in Places
  PROVE  /\ Feed!Before(p, q) <=> p[2] < q[2]
         /\ p[2] = q[2] => p = q
<1>1. p[1] = 1 /\ q[1] = 1 /\ p = <<p[1], p[2]>> /\ q = <<q[1], q[2]>>
  BY DEF Places, Feed!Places
<1>2. p[2] \in Nat /\ q[2] \in Nat
  BY DEF Places, Feed!Places
<1> QED
  BY <1>1, <1>2 DEF Feed!Before

\* A page is a beginning of what is left: with an entry it has all before it.
LEMMA PageIs ==
  /\ Feed!Page \subseteq Feed!Candidates /\ Feed!Candidates \subseteq Places
  /\ \A p \in Feed!Page, q \in Feed!Candidates : q[2] <= p[2] => q \in Feed!Page
  /\ Feed!Candidates # {} => Feed!Page # {}
<1> DEFINE C == Feed!Candidates
           earlier(p) == {q \in C : Feed!Before(q, p)}
<1>1. Limit \in Nat \ {0} /\ MaxEntries \in Nat
  BY PageAssumption DEF Feed!LimitAssumption
<1>2. C \subseteq Places
  BY DEF Feed!Candidates, Feed!Wanted, Places
<1>3. Feed!Page = {p \in C : Cardinality(earlier(p)) < Limit}
  <2>1. \A S : Feed!Cardinality(S) = Cardinality(S)
    BY Zenon DEF Feed!Cardinality, Cardinality
  <2> QED
    BY <2>1 DEF Feed!Page
<1>4. IsFiniteSet(C)
  <2> DEFINE f == [n \in 1..MaxEntries |-> <<1, n>>]
  <2>1. IsFiniteSet(1..MaxEntries)
    BY <1>1, FS_Interval
  <2>2. f \in [1..MaxEntries -> Places] /\ \A p \in Places : \E n \in 1..MaxEntries : f[n] = p
    BY DEF Places, Feed!Places
  <2> HIDE DEF f
  <2>3. IsFiniteSet(Places)
    BY <2>1, <2>2, Fun_IsSurj, FS_Surjection
  <2> QED
    BY <1>2, <2>3, FS_Subset
<1>5. \A p \in C : IsFiniteSet(earlier(p)) /\ Cardinality(earlier(p)) \in Nat
  <2> SUFFICES ASSUME NEW p \in C
               PROVE  IsFiniteSet(earlier(p)) /\ Cardinality(earlier(p)) \in Nat
    OBVIOUS
  <2>1. earlier(p) \subseteq C
    OBVIOUS
  <2> HIDE DEF earlier, C
  <2> QED
    BY <1>4, <2>1, FS_Subset, FS_CardinalityType
<1>6. ASSUME NEW p \in Feed!Page, NEW q \in C, q[2] <= p[2] PROVE q \in Feed!Page
  <2>1. p \in C /\ Cardinality(earlier(p)) < Limit
    BY <1>3
  <2>2. \A x \in C : Feed!Before(x, q) => Feed!Before(x, p)
    <3>1. \A x \in C : x \in Places /\ x[2] \in Nat
      BY <1>2 DEF Places, Feed!Places
    <3> QED
      BY <1>6, <2>1, <3>1, BeforeIs
  <2>3. earlier(q) \subseteq earlier(p)
    BY <2>2
  <2>4. Cardinality(earlier(q)) <= Cardinality(earlier(p))
    <3> HIDE DEF earlier
    <3> QED
      BY <1>5, <2>1, <2>3, FS_Subset
  <2>5. Cardinality(earlier(q)) \in Nat /\ Cardinality(earlier(p)) \in Nat
    BY <1>5, <2>1
  <2>6. Cardinality(earlier(q)) < Limit
    <3> HIDE DEF earlier
    <3> QED
      BY <1>1, <2>1, <2>4, <2>5
  <2> QED
    BY <1>3, <2>6
<1>7. ASSUME C # {} PROVE Feed!Page # {}
  <2>1. PICK p \in C : \A q \in C : p[2] <= q[2]
    BY <1>2, <1>7, FirstPlace
  <2>2. \A q \in C : ~Feed!Before(q, p)
    <3>1. \A x \in C : x \in Places /\ x[2] \in Nat
      BY <1>2 DEF Places, Feed!Places
    <3> QED
      BY <2>1, <3>1, BeforeIs
  <2>3. earlier(p) = {}
    BY <2>2
  <2>4. Cardinality(earlier(p)) = 0
    BY <2>3, FS_EmptySet
  <2>5. Cardinality(earlier(p)) < Limit
    BY <1>1, <2>4
  <2> QED
    BY <1>3, <2>5
<1> QED
  BY <1>2, <1>3, <1>6, <1>7

\* The cursor after a page that leaves something: its last entry.
LEMMA NextCursorIs ==
  /\ Feed!NextCursor = {} <=> Feed!Candidates = Feed!Page
  /\ Feed!NextCursor # {} =>
       \E p \in Feed!Page : Feed!NextCursor = {p[2]} /\ \A q \in Feed!Page : q[2] <= p[2]
<1>1. CASE Feed!Candidates = Feed!Page
  BY <1>1 DEF Feed!NextCursor
<1>2. CASE Feed!Candidates # Feed!Page
  <2>1. Feed!Page \subseteq Places /\ Feed!Page # {}
    BY <1>2, PageIs
  <2>2. PICK last \in Feed!Page : \A q \in Feed!Page : q[2] <= last[2]
    BY <2>1, LastPlace
  <2>3. \A q \in Feed!Page : q[2] \in Nat
    BY <2>1 DEF Places, Feed!Places
  <2>4. \A q \in Feed!Page : last = q \/ Feed!Before(q, last)
    BY <2>1, <2>2, <2>3, BeforeIs
  <2>5. PICK p : p = CHOOSE x \in Feed!Page : \A q \in Feed!Page : x = q \/ Feed!Before(q, x)
    OBVIOUS
  <2>6. p \in Feed!Page /\ \A q \in Feed!Page : p = q \/ Feed!Before(q, p)
    BY <2>4, <2>5
  <2>7. \A q \in Feed!Page : q[2] <= p[2]
    BY <2>1, <2>3, <2>6, BeforeIs
  <2>8. Feed!NextCursor = {p[2]}
    BY <1>2, <2>5, Zenon DEF Feed!NextCursor
  <2> QED
    BY <1>2, <2>6, <2>7, <2>8
<1> QED
  BY <1>1, <1>2

\* What the reader is owed is in the ledger, and up to its cursor it has it.
FeedInv ==
  /\ entries \in [{1} -> Seq(Feed!Kinds)]
  /\ cursor \in Nat
  /\ phase = "idle" => cursor = 0
  /\ phase # "done" => \A p \in owed : p[2] <= cursor => p \in got
  /\ owed \subseteq Feed!Wanted
  /\ SweepComplete

LEMMA FeedStep ==
  ASSUME FeedInv, Feed!Next
  PROVE  FeedInv'
<1>1. ASSUME NEW w \in {1}, NEW kind \in Feed!Kinds, Feed!Append1(w, kind)
      PROVE  FeedInv'
  <2>1. /\ entries[1] \in Seq(Feed!Kinds) /\ entries'[1] = Append(entries[1], kind)
        /\ entries' \in [{1} -> Seq(Feed!Kinds)]
        /\ UNCHANGED <<feed, cursor, got, owed, phase>>
    BY <1>1 DEF Feed!Append1, FeedInv
  <2>2. \A n \in DOMAIN entries[1] :
          n \in DOMAIN entries'[1] /\ entries'[1][n] = entries[1][n]
    BY <2>1
  <2>3. \A p \in Places : p[1] = 1
    BY DEF Places, Feed!Places
  <2>4. Feed!Wanted \subseteq Feed!Wanted'
    BY <2>1, <2>2, <2>3 DEF Feed!Wanted, Feed!KindAt, Places, Feed!Places
  <2> QED
    BY <2>1, <2>4 DEF FeedInv, SweepComplete, Feed!SweepComplete
<1>2. CASE Feed!Begin
  <2>1. /\ phase = "idle" /\ phase' = "reading" /\ owed' = Feed!Wanted
        /\ UNCHANGED <<entries, feed, cursor, got>> /\ cursor = 0
    BY <1>2 DEF Feed!Begin, FeedInv
  <2>2. \A p \in Feed!Wanted : ~(p[2] <= 0)
    BY DEF Feed!Wanted, Feed!Places
  <2>3. Feed!Wanted' = Feed!Wanted
    BY <2>1 DEF Feed!Wanted, Feed!KindAt
  <2> QED
    BY <2>1, <2>2, <2>3 DEF FeedInv, SweepComplete, Feed!SweepComplete
<1>3. CASE Feed!ReadPage
  <2>1. /\ phase = "reading" /\ got' = got \union Feed!Page
        /\ phase' = IF Feed!NextCursor = {} THEN "done" ELSE "reading"
        /\ cursor' \in IF Feed!NextCursor = {} THEN {cursor} ELSE Feed!NextCursor
        /\ UNCHANGED <<entries, feed, owed>>
    BY <1>3 DEF Feed!ReadPage
  <2>2. Feed!Wanted' = Feed!Wanted
    BY <2>1 DEF Feed!Wanted, Feed!KindAt
  <2>3. \A p \in owed : p[2] \in Nat /\ (p \in got \/ p \in Feed!Candidates)
    <3>1. cursor \in Nat /\ owed \subseteq Feed!Wanted
      BY DEF FeedInv
    <3>2. \A p \in owed : p[2] \in Nat
      BY <3>1 DEF Feed!Wanted, Feed!Places
    <3>3. \A p \in owed : p[2] <= cursor => p \in got
      BY <2>1 DEF FeedInv
    <3> QED
      BY <3>1, <3>2, <3>3 DEF Feed!Candidates
  <2>4. CASE Feed!NextCursor = {}
    <3>1. Feed!Candidates = Feed!Page
      BY <2>4, NextCursorIs
    <3>2. owed \subseteq got'
      BY <2>1, <2>3, <3>1
    <3> QED
      BY <2>1, <2>2, <2>4, <3>2 DEF FeedInv, SweepComplete, Feed!SweepComplete
  <2>5. CASE Feed!NextCursor # {}
    <3>1. PICK p \in Feed!Page : Feed!NextCursor = {p[2]}
      BY <2>5, NextCursorIs
    <3>2. cursor' = p[2] /\ phase' = "reading"
      BY <2>1, <2>5, <3>1
    <3>3. p[2] \in Nat
      BY <3>1, PageIs DEF Places, Feed!Places
    <3>4. \A q \in owed : q[2] <= p[2] => q \in got'
      BY <2>1, <2>3, <3>1, PageIs
    <3> QED
      BY <2>1, <2>2, <3>2, <3>3, <3>4 DEF FeedInv, SweepComplete, Feed!SweepComplete
  <2> QED
    BY <2>4, <2>5
<1> QED
  BY <1>1, <1>2, <1>3 DEF Feed!Next

\* A reader of handleSubscribe or entityState that follows nextCursor to its
\* end has been given everything the ledger held when it began, although
\* records are appended between its requests, when the ledger has one
\* workspace (with two it may miss some: EventFeed).
THEOREM PagesMissNothing == MCSpec => []SweepComplete
<1>1. MCInit => FeedInv
  <2> SUFFICES ASSUME MCInit PROVE FeedInv
    OBVIOUS
  <2>1. /\ entries = <<<<>>>> \/ entries = [w \in {1} |-> <<>>]
        /\ cursor = 0 /\ got = {} /\ owed = {} /\ phase = "idle"
    BY DEF MCInit, FeedAtRest, Feed!Init
  <2>2. entries \in [{1} -> Seq(Feed!Kinds)]
    <3>1. <<<<>>>> \in [{1} -> Seq(Feed!Kinds)]
      <4>1. 1..1 = {1} /\ <<>> \in Seq(Feed!Kinds)
        OBVIOUS
      <4>2. <<<<>>>> = [w \in 1..1 |-> <<>>]
        OBVIOUS
      <4> QED
        BY <4>1, <4>2
    <3> QED
      BY <2>1, <3>1
  <2> QED
    BY <2>1, <2>2 DEF FeedInv, SweepComplete, Feed!SweepComplete
<1>2. FeedInv /\ [MCNext]_<<reader, vars, pages>> => FeedInv'
  <2> SUFFICES ASSUME FeedInv, [MCNext]_<<reader, vars, pages>> PROVE FeedInv'
    OBVIOUS
  <2>1. CASE Feed!Next
    BY <2>1, FeedStep
  <2>2. CASE UNCHANGED pages
    <3>1. UNCHANGED <<entries, feed, cursor, got, owed, phase>>
      BY <2>2 DEF pages
    <3>2. Feed!Wanted' = Feed!Wanted
      BY <3>1 DEF Feed!Wanted, Feed!KindAt
    <3> QED
      BY <3>1, <3>2 DEF FeedInv, SweepComplete, Feed!SweepComplete
  <2> QED
    BY <2>1, <2>2 DEF MCNext
<1>3. FeedInv => SweepComplete
  BY DEF FeedInv
<1> QED
  BY <1>1, <1>2, <1>3, PTL DEF MCSpec
=============================================================================
