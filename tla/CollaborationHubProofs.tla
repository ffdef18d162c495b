----------------------- MODULE CollaborationHubProofs -----------------------
(***************************************************************************)
(* Safety of CollaborationHub for any number of sessions, works and calls. *)
(* Versions stay consecutive because the version a publication has read is *)
(* still the highest when it appends (ReadCurrent), which holds because    *)
(* only the publication at the head of the queue is between its reading    *)
(* and its settlement (HeadOnly).  CommitHead is what types the cursor.    *)
(***************************************************************************)
EXTENDS CollaborationHub, TLAPS

HeadOnly ==
  \A k \in Publishers :
    pub[k].phase \in {"read", "appended"} => queue # <<>> /\ Head(queue) = k

ReadCurrent ==
  \A k \in Publishers : pub[k].phase = "read" => IsVersion(WorkOf[pub[k].s], pub[k].actual)

CommitHead == \A r \in Receivers : recv[r].phase = "committing" => recv[r].todo # <<>>

Envelope == [work : Works, version : Nat \ {0}, public : BOOLEAN]
Publication == [phase : {"idle", "queued", "read", "appended"}, s : Sessions,
                n : 0..MaxConnections, expected : Nat, public : BOOLEAN, actual : Nat]
Reception == [phase : {"idle", "consuming", "committing"}, s : Sessions,
              todo : Seq(DOMAIN log), got : SUBSET DOMAIN log]

\* The types of the three groups of variables.
SessionTypes ==
  /\ faults \in FaultSets
  /\ session \in [Sessions -> 0..MaxConnections]
  /\ connections \in 0..MaxConnections
  /\ authorized \subseteq Sessions
  /\ presence \subseteq {s \in Sessions : session[s] # 0}

PublishTypes ==
  /\ log \in Seq(Envelope)
  /\ queue \in Seq(Publishers)
  /\ pub \in [Publishers -> Publication]
  /\ published \in 0..MaxPublications

ReceiveTypes ==
  /\ cursor \in [Sessions -> 0..Len(log)]
  /\ recv \in [Receivers -> Reception]
  /\ returned \in [Sessions -> SUBSET DOMAIN log]

PublishInv == PublishTypes /\ HeadOnly /\ ReadCurrent /\ VersionsConsecutive
ReceiveInv == ReceiveTypes /\ CommitHead
IInv == SessionTypes /\ PublishInv /\ ReceiveInv

\* The parts are the whole.
LEMMA TypeParts == TypeOK <=> SessionTypes /\ PublishTypes /\ ReceiveTypes
BY DEF TypeOK, SessionTypes, PublishTypes, ReceiveTypes, Envelope, Publication, Reception

\* Every session is about a work.
LEMMA WorkOfIs == WorkOf \in [Sessions -> Works]
BY SessionsAssumption DEF WorkOf

\* The idle calls are typed.
LEMMA IdleTyped == NoPub \in Publication /\ NoRecv \in Reception
<1>1. (CHOOSE s \in Sessions : TRUE) \in Sessions
  BY SessionsAssumption
<1>2. <<>> \in Seq(DOMAIN log) /\ {} \in SUBSET DOMAIN log
  OBVIOUS
<1> QED
  BY <1>1, <1>2, BoundsAssumption DEF NoPub, NoRecv, Publication, Reception

\* The initial states satisfy the invariant.
LEMMA InitIInv == Init => IInv
<1> SUFFICES ASSUME Init PROVE IInv
  OBVIOUS
<1> USE SessionsAssumption, BoundsAssumption
<1>1. SessionTypes
  BY DEF Init, SessionTypes
<1>2. log = <<>> /\ queue = <<>> /\ pub = [k \in Publishers |-> NoPub] /\ published = 0
  BY DEF Init
<1>3. PublishTypes
  BY <1>2, IdleTyped DEF PublishTypes
<1>4. HeadOnly /\ ReadCurrent
  BY <1>2 DEF HeadOnly, ReadCurrent, NoPub
<1>5. VersionsConsecutive
  BY <1>2 DEF VersionsConsecutive
<1>6. ReceiveTypes
  BY IdleTyped DEF Init, ReceiveTypes
<1>7. CommitHead
  BY DEF Init, CommitHead, NoRecv
<1> QED
  BY <1>1, <1>3, <1>4, <1>5, <1>6, <1>7 DEF IInv, PublishInv, ReceiveInv

\* What depends on the port and on publish calls does not change without them.
LEMMA PublishFrame ==
  ASSUME PublishInv, UNCHANGED <<log, queue, pub, published>>
  PROVE  PublishInv'
BY DEF PublishInv, PublishTypes, HeadOnly, ReadCurrent, VersionsConsecutive, IsVersion, Of

\* What receive keeps is untouched by a port that does not shrink.
LEMMA ReceiveFrame ==
  ASSUME PublishInv, ReceiveInv, UNCHANGED <<cursor, recv, returned>>,
         log' = log \/ \E e \in Envelope : log' = Append(log, e)
  PROVE  ReceiveInv'
<1>1. Len(log) \in Nat /\ Len(log') \in Nat /\ Len(log) <= Len(log')
      /\ DOMAIN log = 1..Len(log) /\ DOMAIN log' = 1..Len(log')
  <2>1. log \in Seq(Envelope)
    BY DEF PublishInv, PublishTypes
  <2>2. CASE log' = log
    BY <2>1, <2>2
  <2>3. ASSUME NEW e \in Envelope, log' = Append(log, e)
        PROVE  log' \in Seq(Envelope) /\ Len(log') = Len(log) + 1
    BY <2>1, <2>3
  <2>4. Len(log) \in Nat /\ log' \in Seq(Envelope)
        /\ (Len(log') = Len(log) \/ Len(log') = Len(log) + 1)
    BY <2>1, <2>2, <2>3
  <2> QED
    BY <2>1, <2>4
<1>2. DOMAIN log \subseteq DOMAIN log' /\ 0..Len(log) \subseteq 0..Len(log')
  <2>1. \A m, n \in Nat : m <= n => 1..m \subseteq 1..n /\ 0..m \subseteq 0..n
    OBVIOUS
  <2>2. 1..Len(log) \subseteq 1..Len(log') /\ 0..Len(log) \subseteq 0..Len(log')
    BY <1>1, <2>1
  <2> QED
    BY <1>1, <2>2
<1>3. Seq(DOMAIN log) \subseteq Seq(DOMAIN log')
  BY <1>2
<1>4. Reception \subseteq Reception'
  BY <1>2, <1>3 DEF Reception
<1>5. ReceiveTypes'
  <2>1. cursor' \in [Sessions -> 0..Len(log')]
    BY <1>2 DEF ReceiveInv, ReceiveTypes
  <2>2. recv' \in [Receivers -> Reception']
    BY <1>4 DEF ReceiveInv, ReceiveTypes
  <2>3. returned' \in [Sessions -> SUBSET DOMAIN log']
    BY <1>2 DEF ReceiveInv, ReceiveTypes
  <2> QED
    BY <2>1, <2>2, <2>3 DEF ReceiveTypes
<1>6. CommitHead'
  BY DEF ReceiveInv, CommitHead
<1> QED
  BY <1>5, <1>6 DEF ReceiveInv

\* A new envelope above the highest of its work keeps the versions consecutive.
LEMMA AppendConsecutive ==
  ASSUME log \in Seq(Envelope), VersionsConsecutive, NEW w \in Works, NEW v \in Nat,
         IsVersion(w, v), NEW b \in BOOLEAN,
         log' = Append(log, [work |-> w, version |-> v + 1, public |-> b])
  PROVE  log' \in Seq(Envelope) /\ VersionsConsecutive'
<1> DEFINE e == [work |-> w, version |-> v + 1, public |-> b]
           n == Len(log) + 1
<1>1. e \in Envelope
  BY DEF Envelope
<1>2. log' \in Seq(Envelope)
  BY <1>1
<1>3. \A q \in DOMAIN log : log[q] \in Envelope
  OBVIOUS
<1>4. \A q \in DOMAIN log : log[q].version \in Nat \ {0} /\ log[q].work \in Works
  BY <1>3 DEF Envelope
<1>5. /\ \A q \in DOMAIN log : log[q].work = w => log[q].version <= v
      /\ v = 0 \/ \E q \in DOMAIN log : log[q].work = w /\ log[q].version = v
  BY DEF IsVersion, Of
<1>6. /\ n \in Nat /\ DOMAIN log = 1..Len(log) /\ DOMAIN log' = 1..n
      /\ \A p \in DOMAIN log : p \in DOMAIN log' /\ log'[p] = log[p] /\ p < n
      /\ log'[n] = e
      /\ \A p \in DOMAIN log' : p = n \/ p \in DOMAIN log
  BY <1>1
<1>7. ASSUME NEW p \in DOMAIN log'
      PROVE  /\ \A q \in 1..(p - 1) :
                  log'[q].work = log'[p].work => log'[q].version < log'[p].version
             /\ \/ log'[p].version = 1
                \/ \E q \in 1..(p - 1) :
                     log'[q].work = log'[p].work /\ log'[q].version + 1 = log'[p].version
  <2>1. \A q \in 1..(p - 1) : q \in DOMAIN log /\ log'[q] = log[q]
    BY <1>6
  <2>2. CASE p \in DOMAIN log
    BY <2>1, <2>2, <1>6 DEF VersionsConsecutive
  <2>3. CASE p = n
    <3>1. log'[p].work = w /\ log'[p].version = v + 1 /\ 1..(p - 1) = DOMAIN log
      BY <2>3, <1>6
    <3>2. \A q \in 1..(p - 1) :
            log'[q].work = log'[p].work => log'[q].version < log'[p].version
      BY <2>1, <3>1, <1>4, <1>5
    <3>3. v = 0 \/ \E q \in 1..(p - 1) : log'[q].work = w /\ log'[q].version = v
      BY <2>1, <3>1, <1>5
    <3>4. v = 0 => log'[p].version = 1
      BY <3>1
    <3>5. ASSUME NEW q \in 1..(p - 1), log'[q].work = w, log'[q].version = v
          PROVE  log'[q].work = log'[p].work /\ log'[q].version + 1 = log'[p].version
      BY <3>1, <3>5
    <3>6. v = 0 \/ \E q \in 1..(p - 1) :
            log'[q].work = log'[p].work /\ log'[q].version + 1 = log'[p].version
      BY <3>3, <3>5
    <3> QED
      BY <3>2, <3>4, <3>6
  <2> QED
    BY <2>2, <2>3, <1>6
<1> QED
  BY <1>2, <1>7 DEF VersionsConsecutive

-----------------------------------------------------------------------------
(* The steps of publish                                                    *)

\* A publication that settles leaves the queue to the next.
LEMMA SettlesKeeps ==
  ASSUME PublishInv, NEW k \in Publishers, queue # <<>>, Head(queue) = k, Settles(k),
         UNCHANGED <<log, published>>
  PROVE  PublishInv'
<1>1. /\ log \in Seq(Envelope) /\ queue \in Seq(Publishers)
      /\ pub \in [Publishers -> Publication] /\ published \in 0..MaxPublications
  BY DEF PublishInv, PublishTypes
<1>2. pub' = [pub EXCEPT ![k] = NoPub] /\ queue' = Tail(queue)
  BY DEF Settles
<1>3. pub'[k] = NoPub /\ \A j \in Publishers : j # k => pub'[j] = pub[j]
  BY <1>1, <1>2
<1>4. \A j \in Publishers : pub'[j].phase \notin {"read", "appended"}
  BY <1>3 DEF NoPub, PublishInv, HeadOnly
<1>5. PublishTypes'
  BY <1>1, <1>2, IdleTyped DEF PublishTypes
<1>6. HeadOnly' /\ ReadCurrent'
  BY <1>4 DEF HeadOnly, ReadCurrent
<1>7. VersionsConsecutive'
  BY DEF PublishInv, VersionsConsecutive
<1> QED
  BY <1>5, <1>6, <1>7 DEF PublishInv

\* A publication that joins the queue.
LEMMA PublishKeeps ==
  ASSUME PublishInv, SessionTypes, NEW k \in Publishers, NEW s \in Sessions,
         NEW e \in 0..Len(log), NEW b \in BOOLEAN, Publish(k, s, e, b)
  PROVE  PublishInv'
<1> DEFINE waiting == [phase |-> "queued", s |-> s, n |-> session[s], expected |-> e,
                       public |-> b, actual |-> 0]
<1>1. /\ log \in Seq(Envelope) /\ queue \in Seq(Publishers)
      /\ pub \in [Publishers -> Publication] /\ published \in 0..MaxPublications
  BY DEF PublishInv, PublishTypes
<1>2. /\ published < MaxPublications /\ published' = published + 1 /\ log' = log
      /\ queue' = Append(queue, k) /\ pub' = [pub EXCEPT ![k] = waiting]
  BY DEF Publish
<1>3. waiting \in Publication
  <2>1. Len(log) \in Nat /\ session[s] \in 0..MaxConnections
    BY <1>1 DEF SessionTypes
  <2> QED
    BY <2>1 DEF Publication
<1>4. pub'[k] = waiting /\ \A j \in Publishers : j # k => pub'[j] = pub[j]
  BY <1>1, <1>2
<1>5. PublishTypes'
  <2>1. published' \in 0..MaxPublications
    BY <1>1, <1>2, BoundsAssumption
  <2>2. queue' \in Seq(Publishers) /\ pub' \in [Publishers -> Publication]
    BY <1>1, <1>2, <1>3
  <2> QED
    BY <1>1, <1>2, <2>1, <2>2 DEF PublishTypes
<1>6. queue # <<>> => queue' # <<>> /\ Head(queue') = Head(queue)
  BY <1>1, <1>2
<1>7. \A j \in Publishers : pub'[j].phase \in {"read", "appended"} =>
         j # k /\ pub[j] = pub'[j] /\ queue # <<>> /\ Head(queue) = j
  BY <1>4 DEF PublishInv, HeadOnly
<1>8. HeadOnly'
  BY <1>6, <1>7 DEF HeadOnly
<1>9. ReadCurrent'
  BY <1>2, <1>7 DEF PublishInv, ReadCurrent, IsVersion, Of
<1>10. VersionsConsecutive'
  BY <1>2 DEF PublishInv, VersionsConsecutive
<1> QED
  BY <1>5, <1>8, <1>9, <1>10 DEF PublishInv

\* The publication whose turn has come is refused, or reads the version.
LEMMA StartKeeps ==
  ASSUME PublishInv, NEW k \in Publishers, Start(k)
  PROVE  PublishInv'
<1>1. /\ log \in Seq(Envelope) /\ queue \in Seq(Publishers)
      /\ pub \in [Publishers -> Publication] /\ published \in 0..MaxPublications
  BY DEF PublishInv, PublishTypes
<1>2. queue # <<>> /\ Head(queue) = k /\ UNCHANGED <<log, published>>
  BY DEF Start, Turn
<1>3. CASE Settles(k)
  BY <1>2, <1>3, SettlesKeeps
<1>4. CASE Admitted(k)
  <2>1. PICK v \in 0..Len(log) :
          /\ IsVersion(WorkOf[pub[k].s], v)
          /\ pub' = [pub EXCEPT ![k].phase = "read", ![k].actual = v]
          /\ queue' = queue
    BY <1>4 DEF Start
  <2>2. v \in Nat
    BY <1>1, <2>1
  <2>3. /\ pub'[k].phase = "read" /\ pub'[k].actual = v /\ pub'[k].s = pub[k].s
        /\ \A j \in Publishers : j # k => pub'[j] = pub[j]
    BY <1>1, <2>1 DEF Publication
  <2>4. pub' \in [Publishers -> Publication]
    BY <1>1, <2>1, <2>2 DEF Publication
  <2>5. \A j \in Publishers : j # k => pub'[j].phase \notin {"read", "appended"}
    BY <1>2, <2>3 DEF PublishInv, HeadOnly
  <2>6. PublishTypes'
    BY <1>1, <1>2, <2>1, <2>4 DEF PublishTypes
  <2>7. HeadOnly'
    BY <1>2, <2>1, <2>5 DEF HeadOnly
  <2>8. \A w \in Works : IsVersion(w, v) => IsVersion(w, v)'
    BY <1>2 DEF IsVersion, Of
  <2>9. ReadCurrent'
    <3>1. WorkOf[pub[k].s] \in Works
      BY <1>1, WorkOfIs DEF Publication
    <3>2. ASSUME NEW w \in Works, w = WorkOf[pub[k].s] PROVE IsVersion(w, v)'
      BY <2>1, <2>8, <3>2
    <3>3. \A p \in DOMAIN log' : log'[p].work = WorkOf[pub[k].s] => log'[p].version <= v
      BY <3>1, <3>2 DEF IsVersion, Of
    <3>4. v = 0 \/ \E p \in DOMAIN log' : log'[p].work = WorkOf[pub[k].s] /\ log'[p].version = v
      BY <3>1, <3>2 DEF IsVersion, Of
    <3> QED
      BY <2>3, <2>5, <3>3, <3>4 DEF ReadCurrent, IsVersion, Of
  <2>10. VersionsConsecutive'
    BY <1>2 DEF PublishInv, VersionsConsecutive
  <2> QED
    BY <2>6, <2>7, <2>9, <2>10 DEF PublishInv
<1> QED
  BY <1>3, <1>4 DEF Start

\* The envelope it appends is the next of its work.
LEMMA AppendKeeps ==
  ASSUME PublishInv, NEW k \in Publishers, AppendEnvelope(k)
  PROVE  PublishInv' /\ \E e \in Envelope : log' = Append(log, e)
<1>1. /\ log \in Seq(Envelope) /\ queue \in Seq(Publishers)
      /\ pub \in [Publishers -> Publication] /\ published \in 0..MaxPublications
  BY DEF PublishInv, PublishTypes
<1> DEFINE w == WorkOf[pub[k].s]
           v == pub[k].actual
           e == [work |-> w, version |-> v + 1, public |-> pub[k].public]
<1>2. /\ pub[k].phase = "read" /\ log' = Append(log, e)
      /\ pub' = [pub EXCEPT ![k].phase = "appended"]
      /\ queue' = queue /\ published' = published
  BY DEF AppendEnvelope
<1>3. w \in Works /\ v \in Nat /\ pub[k].public \in BOOLEAN
  BY <1>1, WorkOfIs DEF Publication
<1>4. IsVersion(w, v) /\ queue # <<>> /\ Head(queue) = k
  BY <1>2 DEF PublishInv, ReadCurrent, HeadOnly
<1>5. log' \in Seq(Envelope) /\ VersionsConsecutive'
  <2> HIDE DEF w, v
  <2> QED
    BY <1>1, <1>2, <1>3, <1>4, AppendConsecutive DEF PublishInv
<1>6. /\ pub'[k].phase = "appended" /\ pub' \in [Publishers -> Publication]
      /\ \A j \in Publishers : j # k => pub'[j] = pub[j]
  BY <1>1, <1>2 DEF Publication
<1>7. \A j \in Publishers : j # k => pub'[j].phase \notin {"read", "appended"}
  BY <1>4, <1>6 DEF PublishInv, HeadOnly
<1>8. HeadOnly' /\ ReadCurrent'
  BY <1>2, <1>4, <1>6, <1>7 DEF HeadOnly, ReadCurrent
<1>9. PublishTypes'
  BY <1>1, <1>2, <1>5, <1>6 DEF PublishTypes
<1>10. e \in Envelope
  BY <1>3 DEF Envelope
<1> QED
  BY <1>2, <1>5, <1>8, <1>9, <1>10 DEF PublishInv

-----------------------------------------------------------------------------
(* The steps of receive                                                    *)

\* A receive call that takes another typed state, where the port stays.
LEMMA ReceptionChanges ==
  ASSUME ReceiveInv, NEW r \in Receivers, NEW x \in Reception,
         x.phase = "committing" => x.todo # <<>>,
         recv' = [recv EXCEPT ![r] = x], log' = log
  PROVE  recv' \in [Receivers -> Reception'] /\ CommitHead'
<1>1. recv \in [Receivers -> Reception] /\ Reception' = Reception
  BY DEF ReceiveInv, ReceiveTypes, Reception
<1>2. recv'[r] = x /\ \A q \in Receivers : q # r => recv'[q] = recv[q]
  BY <1>1
<1> QED
  BY <1>1, <1>2 DEF ReceiveInv, CommitHead

\* A snapshot is of positions of the port.
LEMMA ReceiveKeeps ==
  ASSUME PublishInv, ReceiveInv, NEW r \in Receivers, NEW s \in Sessions, Receive(r, s)
  PROVE  ReceiveInv'
<1> DEFINE n == Len(log) - cursor[s]
           todo == [i \in 1..n |-> cursor[s] + i]
           x == [phase |-> "consuming", s |-> s, got |-> {}, todo |-> todo]
<1>1. /\ recv' = [recv EXCEPT ![r] = x]
      /\ log' = log /\ cursor' = cursor /\ returned' = returned
  BY DEF Receive
<1>2. /\ Len(log) \in Nat /\ DOMAIN log = 1..Len(log)
      /\ cursor[s] \in 0..Len(log)
  BY DEF PublishInv, PublishTypes, ReceiveInv, ReceiveTypes
<1>3. n \in Nat /\ \A i \in 1..n : cursor[s] + i \in DOMAIN log
  BY <1>2
<1>4. todo \in Seq(DOMAIN log)
  <2>1. todo \in [1..n -> DOMAIN log]
    BY <1>3
  <2> HIDE DEF todo, n
  <2> QED
    BY <1>3, <2>1
<1>5. x \in Reception /\ x.phase = "consuming"
  <2> HIDE DEF todo
  <2> QED
    BY <1>4 DEF Reception
<1>6. recv' \in [Receivers -> Reception'] /\ CommitHead'
  <2> HIDE DEF x
  <2> QED
    BY <1>1, <1>5, ReceptionChanges
<1> QED
  BY <1>1, <1>6 DEF ReceiveInv, ReceiveTypes

\* The handler takes an envelope of the snapshot.
LEMMA DeliverKeeps ==
  ASSUME ReceiveInv, NEW r \in Receivers, Deliver(r)
  PROVE  ReceiveInv'
<1>1. recv[r] \in Reception
  BY DEF ReceiveInv, ReceiveTypes
<1>2. /\ recv[r].todo \in Seq(DOMAIN log) /\ recv[r].todo # <<>>
      /\ log' = log /\ cursor' = cursor /\ returned' = returned
  BY <1>1 DEF Deliver, Reception
<1>3. Head(recv[r].todo) \in DOMAIN log
  BY <1>2
<1> DEFINE got == IF Wanted(recv[r].s, Head(recv[r].todo))
                    THEN recv[r].got \union {Head(recv[r].todo)} ELSE recv[r].got
           x == [recv[r] EXCEPT !.phase = "committing", !.got = got]
<1>4. recv' = [recv EXCEPT ![r] = x]
  BY <1>1 DEF Deliver, ReceiveInv, ReceiveTypes
<1>5. x \in Reception /\ x.todo # <<>>
  BY <1>1, <1>2, <1>3 DEF Reception
<1>6. recv' \in [Receivers -> Reception'] /\ CommitHead'
  <2> HIDE DEF x
  <2> QED
    BY <1>2, <1>4, <1>5, ReceptionChanges
<1> QED
  BY <1>2, <1>6 DEF ReceiveInv, ReceiveTypes

\* The cursor moves to an envelope of the port.
LEMMA CommitKeeps ==
  ASSUME PublishInv, ReceiveInv, NEW r \in Receivers, Commit(r)
  PROVE  ReceiveInv'
<1>1. recv[r] \in Reception
  BY DEF ReceiveInv, ReceiveTypes
<1>2. /\ recv[r].phase = "committing" /\ log' = log /\ returned' = returned
      /\ cursor' = [cursor EXCEPT ![recv[r].s] = Head(recv[r].todo)]
  BY DEF Commit
<1>3. recv[r].todo \in Seq(DOMAIN log) /\ recv[r].todo # <<>>
  BY <1>1, <1>2 DEF ReceiveInv, CommitHead, Reception
<1>4. Head(recv[r].todo) \in 0..Len(log) /\ Tail(recv[r].todo) \in Seq(DOMAIN log)
  <2>1. log \in Seq(Envelope)
    BY DEF PublishInv, PublishTypes
  <2>2. Head(recv[r].todo) \in DOMAIN log
    BY <1>3
  <2>3. DOMAIN log \subseteq 0..Len(log)
    BY <2>1
  <2>4. \A S : \A q \in Seq(S) : q # <<>> => Tail(q) \in Seq(S)
    OBVIOUS
  <2> QED
    BY <1>3, <2>2, <2>3, <2>4
<1> DEFINE x == [recv[r] EXCEPT !.phase = "consuming", !.todo = Tail(@)]
<1>5. recv' = [recv EXCEPT ![r] = x]
  BY <1>1 DEF Commit, ReceiveInv, ReceiveTypes
<1>6. x \in Reception /\ x.phase = "consuming"
  BY <1>1, <1>4 DEF Reception
<1>7. recv' \in [Receivers -> Reception'] /\ CommitHead'
  <2> HIDE DEF x
  <2> QED
    BY <1>2, <1>5, <1>6, ReceptionChanges
<1>8. cursor' \in [Sessions -> 0..Len(log')]
  BY <1>1, <1>2, <1>4 DEF ReceiveInv, ReceiveTypes, Reception
<1> QED
  BY <1>2, <1>7, <1>8 DEF ReceiveInv, ReceiveTypes

\* receive returns what it has got, or rejects.
LEMMA ReturnKeeps ==
  ASSUME ReceiveInv, NEW r \in Receivers, Return(r) \/ CommitFails(r)
  PROVE  ReceiveInv'
<1>1. recv[r] \in Reception
  BY DEF ReceiveInv, ReceiveTypes
<1>2. recv' = [recv EXCEPT ![r] = NoRecv] /\ log' = log /\ cursor' = cursor
  BY DEF Return, CommitFails
<1>3. recv' \in [Receivers -> Reception'] /\ CommitHead'
  BY <1>2, IdleTyped, ReceptionChanges DEF NoRecv
<1>4. returned' \in [Sessions -> SUBSET DOMAIN log']
  <2>1. returned \in [Sessions -> SUBSET DOMAIN log]
    BY DEF ReceiveInv, ReceiveTypes
  <2>2. recv[r].got \in SUBSET DOMAIN log
    BY <1>1 DEF Reception
  <2> QED
    BY <1>2, <2>1, <2>2 DEF Return, CommitFails
<1> QED
  BY <1>2, <1>3, <1>4 DEF ReceiveInv, ReceiveTypes

-----------------------------------------------------------------------------
(* Every step                                                              *)

\* Sessions are typed after every step.
LEMMA SessionsKept == SessionTypes /\ [Next]_vars => SessionTypes'
<1> SUFFICES ASSUME SessionTypes, [Next]_vars PROVE SessionTypes'
  OBVIOUS
<1>1. CASE UNCHANGED <<faults, inSessions, authorized>>
  BY <1>1 DEF SessionTypes, inSessions
<1>2. ASSUME NEW s \in Sessions, Connect(s) PROVE SessionTypes'
  BY <1>2, BoundsAssumption DEF Connect, SessionTypes
<1>3. ASSUME NEW s \in Sessions, Disconnect(s) PROVE SessionTypes'
  BY <1>3, BoundsAssumption DEF Disconnect, SessionTypes
<1>4. ASSUME NEW s \in Sessions, UpdatePresence(s) PROVE SessionTypes'
  BY <1>4 DEF UpdatePresence, SessionTypes
<1>5. ASSUME NEW s \in Sessions, Authorize(s) PROVE SessionTypes'
  BY <1>5 DEF Authorize, SessionTypes, inSessions
<1>6. CASE Crash
  BY <1>6, BoundsAssumption DEF Crash, SessionTypes
<1>7. ASSUME NEW s \in Sessions, NEW k \in Publishers, NEW e \in 0..Len(log), NEW b \in BOOLEAN,
             Publish(k, s, e, b)
      PROVE  UNCHANGED <<faults, inSessions, authorized>>
  BY <1>7 DEF Publish
<1>8. ASSUME NEW s \in Sessions, NEW r \in Receivers, Receive(r, s)
      PROVE  UNCHANGED <<faults, inSessions, authorized>>
  BY <1>8 DEF Receive
<1>9. ASSUME NEW k \in Publishers, ContinuePublish(k)
      PROVE  UNCHANGED <<faults, inSessions, authorized>>
  BY <1>9 DEF ContinuePublish, Start, AppendEnvelope, EndPublish
<1>10. ASSUME NEW r \in Receivers, ContinueReceive(r)
       PROVE  UNCHANGED <<faults, inSessions, authorized>>
  BY <1>10 DEF ContinueReceive, Deliver, Commit, CommitFails, Return
<1>11. CASE UNCHANGED vars
  BY <1>11, <1>1 DEF vars, inSessions
<1> QED
  BY <1>1, <1>2, <1>3, <1>4, <1>5, <1>6, <1>7, <1>8, <1>9, <1>10, <1>11 DEF Next

\* Every step keeps the invariant.
LEMMA NextIInv == IInv /\ [Next]_vars => IInv'
<1> SUFFICES ASSUME IInv, [Next]_vars PROVE IInv'
  OBVIOUS
<1>0. SessionTypes /\ PublishInv /\ ReceiveInv
  BY DEF IInv
<1>1. SessionTypes'
  BY <1>0, SessionsKept
<1>2. ASSUME UNCHANGED <<log, inPublish, inReceive>>
      PROVE  PublishInv' /\ ReceiveInv'
  BY <1>0, <1>2, PublishFrame, ReceiveFrame DEF inPublish, inReceive
<1>3. ASSUME NEW s \in Sessions, Connect(s) \/ Disconnect(s) \/ UpdatePresence(s) \/ Authorize(s)
      PROVE  PublishInv' /\ ReceiveInv'
  BY <1>2, <1>3 DEF Connect, Disconnect, UpdatePresence, Authorize
<1>4. ASSUME NEW s \in Sessions, NEW k \in Publishers, NEW e \in 0..Len(log), NEW b \in BOOLEAN,
             Publish(k, s, e, b)
      PROVE  PublishInv' /\ ReceiveInv'
  <2>1. PublishInv'
    BY <1>0, <1>4, PublishKeeps
  <2>2. ReceiveInv'
    BY <1>0, <1>4, ReceiveFrame DEF Publish, inReceive
  <2> QED
    BY <2>1, <2>2
<1>5. ASSUME NEW s \in Sessions, NEW r \in Receivers, Receive(r, s)
      PROVE  PublishInv' /\ ReceiveInv'
  BY <1>0, <1>5, PublishFrame, ReceiveKeeps DEF Receive, inPublish
<1>6. ASSUME NEW k \in Publishers, Start(k)
      PROVE  PublishInv' /\ ReceiveInv'
  BY <1>0, <1>6, StartKeeps, ReceiveFrame DEF Start, inReceive
<1>7. ASSUME NEW k \in Publishers, AppendEnvelope(k)
      PROVE  PublishInv' /\ ReceiveInv'
  <2>1. PublishInv' /\ \E e \in Envelope : log' = Append(log, e)
    BY <1>0, <1>7, AppendKeeps
  <2> QED
    BY <1>0, <1>7, <2>1, ReceiveFrame DEF AppendEnvelope, inReceive
<1>8. ASSUME NEW k \in Publishers, EndPublish(k)
      PROVE  PublishInv' /\ ReceiveInv'
  <2>1. queue # <<>> /\ Head(queue) = k
    BY <1>0, <1>8 DEF EndPublish, PublishInv, HeadOnly
  <2>2. Settles(k) /\ UNCHANGED <<log, published, inReceive>>
    BY <1>8 DEF EndPublish
  <2> QED
    BY <1>0, <2>1, <2>2, SettlesKeeps, ReceiveFrame DEF inReceive
<1>9. ASSUME NEW r \in Receivers, ContinueReceive(r)
      PROVE  PublishInv' /\ ReceiveInv'
  <2>1. PublishInv'
    BY <1>0, <1>9, PublishFrame DEF ContinueReceive, Deliver, Commit, CommitFails, Return, inPublish
  <2> QED
    BY <1>0, <1>9, <2>1, DeliverKeeps, CommitKeeps, ReturnKeeps DEF ContinueReceive
<1>10. ASSUME Crash PROVE PublishInv' /\ ReceiveInv'
  <2>1. /\ log' = log /\ published' = published /\ cursor' = cursor /\ returned' = returned
        /\ queue' = <<>> /\ pub' = [k \in Publishers |-> NoPub]
        /\ recv' = [r \in Receivers |-> NoRecv]
    BY <1>10 DEF Crash
  <2>2. PublishTypes'
    BY <1>0, <2>1, IdleTyped DEF PublishInv, PublishTypes
  <2>3. HeadOnly' /\ ReadCurrent'
    BY <2>1 DEF HeadOnly, ReadCurrent, NoPub
  <2>4. VersionsConsecutive'
    BY <1>0, <2>1 DEF PublishInv, VersionsConsecutive
  <2>5. Reception' = Reception
    BY <2>1 DEF Reception
  <2>6. ReceiveTypes' /\ CommitHead'
    BY <1>0, <2>1, <2>5, IdleTyped DEF ReceiveInv, ReceiveTypes, CommitHead, NoRecv
  <2> QED
    BY <2>2, <2>3, <2>4, <2>6 DEF PublishInv, ReceiveInv
<1>11. ASSUME UNCHANGED vars PROVE PublishInv' /\ ReceiveInv'
  BY <1>2, <1>11 DEF vars, inPublish, inReceive
<1>12. PublishInv' /\ ReceiveInv'
  BY <1>3, <1>4, <1>5, <1>6, <1>7, <1>8, <1>9, <1>10, <1>11 DEF Next, ContinuePublish
<1> QED
  BY <1>1, <1>12 DEF IInv

\* The invariant holds in every reachable state.
THEOREM Invariant == Spec => []IInv
<1>1. Init => IInv
  BY InitIInv
<1>2. IInv /\ [Next]_vars => IInv'
  BY NextIInv
<1> QED
  BY <1>1, <1>2, PTL DEF Spec

\* Every variable of the hub, its publications and its receive calls keeps its
\* type; a cursor never points beyond the port.
THEOREM TypeCorrect == Spec => []TypeOK
<1>1. IInv => TypeOK
  BY TypeParts DEF IInv, PublishInv, ReceiveInv
<1> QED
  BY <1>1, Invariant, PTL

\* The version a publication read in its turn is still the highest when it
\* appends: the check of publish is never stale, whatever else runs meanwhile.
THEOREM CheckNeverStale == Spec => []ReadCurrent
<1>1. IInv => ReadCurrent
  BY DEF IInv, PublishInv
<1> QED
  BY <1>1, Invariant, PTL

\* The envelopes of each work are numbered 1, 2, 3, ... in the order of the
\* port, through failed appends, withdrawn authority and crashes.
THEOREM VersionsInOrder == Spec => []VersionsConsecutive
<1>1. IInv => VersionsConsecutive
  BY DEF IInv, PublishInv
<1> QED
  BY <1>1, Invariant, PTL

-----------------------------------------------------------------------------
(* No envelope is lost between receive calls.                              *)

Kept(s, p) == p \in returned[s] \/ \E r \in Receivers : recv[r].s = s /\ p \in recv[r].got

UpTo(s, n) == \A p \in 1..n : Wanted(s, p) => Kept(s, p)

\* What is before the next envelope of a call is kept, and so is the next one
\* while its cursor is committed; the call goes through its snapshot in order.
CallKept(r) ==
  /\ recv[r].phase = "idle" => recv[r].got = {}
  /\ recv[r].todo # <<>> => UpTo(recv[r].s, Head(recv[r].todo) - 1)
  /\ \A i \in 1..(Len(recv[r].todo) - 1) : recv[r].todo[i + 1] = recv[r].todo[i] + 1
  /\ recv[r].phase = "committing" =>
       (Wanted(recv[r].s, Head(recv[r].todo)) => Head(recv[r].todo) \in recv[r].got)

AllKept ==
  /\ \A s \in Sessions : UpTo(s, cursor[s])
  /\ \A r \in Receivers : CallKept(r)

KeptInv == faults \subseteq {"append", "authority"} => AllKept

\* What is kept up to a position of the port stays so while no call lets go of
\* what it has got.
LEMMA UpToStays ==
  ASSUME IInv, NEW s \in Sessions, NEW n \in 0..Len(log), UpTo(s, n),
         log' = log \/ (\E e \in Envelope : log' = Append(log, e)),
         \A p \in Nat : Kept(s, p) => Kept(s, p)'
  PROVE  UpTo(s, n)'
<1>1. log \in Seq(Envelope)
  BY DEF IInv, PublishInv, PublishTypes
<1>2. \A p \in 1..n : log'[p] = log[p]
  BY <1>1
<1>3. \A p \in 1..n : Wanted(s, p)' = Wanted(s, p)
  BY <1>2 DEF Wanted
<1> QED
  BY <1>3 DEF UpTo

\* A step of the hub outside receive keeps everything kept.
LEMMA KeptFrame ==
  ASSUME IInv, AllKept, UNCHANGED <<cursor, recv, returned>>,
         log' = log \/ (\E e \in Envelope : log' = Append(log, e))
  PROVE  AllKept'
<1>1. ASSUME NEW s \in Sessions, NEW n \in 0..Len(log), UpTo(s, n) PROVE UpTo(s, n)'
  BY <1>1, UpToStays DEF Kept
<1>2. \A s \in Sessions : UpTo(s, cursor[s])'
  <2>1. \A s \in Sessions : cursor[s] \in 0..Len(log)
    BY DEF IInv, ReceiveInv, ReceiveTypes
  <2> QED
    BY <1>1, <2>1 DEF AllKept
<1>3. ASSUME NEW r \in Receivers PROVE CallKept(r)'
  <2>1. /\ recv[r].s \in Sessions /\ recv[r].todo \in Seq(DOMAIN log)
        /\ recv[r].phase = "committing" => recv[r].todo # <<>>
    BY DEF IInv, ReceiveInv, ReceiveTypes, Reception, CommitHead
  <2>2. log \in Seq(Envelope) /\ Len(log) \in Nat /\ DOMAIN log = 1..Len(log)
    BY DEF IInv, PublishInv, PublishTypes
  <2>3. recv[r].todo # <<>> =>
          Head(recv[r].todo) \in 1..Len(log) /\ Head(recv[r].todo) - 1 \in 0..Len(log)
    BY <2>1, <2>2
  <2>4. CallKept(r)
    BY DEF AllKept
  <2>5. recv[r].todo # <<>> => UpTo(recv[r].s, Head(recv[r].todo) - 1)'
    BY <1>1, <2>1, <2>3, <2>4 DEF CallKept
  <2>6. recv[r].todo # <<>> =>
          Wanted(recv[r].s, Head(recv[r].todo))' = Wanted(recv[r].s, Head(recv[r].todo))
    BY <2>2, <2>3 DEF Wanted
  <2> QED
    BY <2>1, <2>4, <2>5, <2>6 DEF CallKept
<1> QED
  BY <1>2, <1>3 DEF AllKept

\* A receive call r that goes from one state to the next keeps what all others
\* have kept, when everything it had got is still got or has been returned.
LEMMA CallMoves ==
  ASSUME IInv, AllKept, NEW r \in Receivers, NEW x,
         recv' = [recv EXCEPT ![r] = x], log' = log,
         \A p \in recv[r].got :
           (x.s = recv[r].s /\ p \in x.got) \/ p \in returned'[recv[r].s],
         returned' \in [Sessions -> SUBSET DOMAIN log],
         \A s \in Sessions : returned[s] \subseteq returned'[s]
  PROVE  /\ recv'[r] = x
         /\ \A s \in Sessions : \A n \in 0..Len(log) : UpTo(s, n) => UpTo(s, n)'
         /\ \A q \in Receivers : q # r => CallKept(q)'
<1>1. /\ recv \in [Receivers -> Reception]
      /\ Len(log) \in Nat /\ DOMAIN log = 1..Len(log)
  BY DEF IInv, ReceiveInv, ReceiveTypes, PublishInv, PublishTypes
<1>2. recv'[r] = x /\ \A q \in Receivers : q # r => recv'[q] = recv[q]
  BY <1>1
<1>3. ASSUME NEW s \in Sessions, NEW p, Kept(s, p) PROVE Kept(s, p)'
  <2>1. CASE p \in returned[s]
    BY <2>1 DEF Kept
  <2>2. ASSUME NEW q \in Receivers, recv[q].s = s, p \in recv[q].got PROVE Kept(s, p)'
    <3>1. CASE q = r
      BY <1>2, <2>2, <3>1 DEF Kept
    <3>2. CASE q # r
      BY <1>2, <2>2, <3>2 DEF Kept
    <3> QED
      BY <3>1, <3>2
  <2> QED
    BY <1>3, <2>1, <2>2 DEF Kept
<1>4. ASSUME NEW s \in Sessions, NEW n \in 0..Len(log), UpTo(s, n) PROVE UpTo(s, n)'
  BY <1>3, <1>4, UpToStays
<1>5. ASSUME NEW q \in Receivers, q # r PROVE CallKept(q)'
  <2>1. /\ recv[q].s \in Sessions /\ recv[q].todo \in Seq(DOMAIN log)
        /\ recv[q].phase = "committing" => recv[q].todo # <<>>
    BY <1>1 DEF IInv, ReceiveInv, Reception, CommitHead
  <2>2. recv[q].todo # <<>> =>
          Head(recv[q].todo) \in 1..Len(log) /\ Head(recv[q].todo) - 1 \in 0..Len(log)
    BY <1>1, <2>1
  <2>3. CallKept(q) /\ recv'[q] = recv[q]
    BY <1>2, <1>5 DEF AllKept
  <2>4. recv[q].todo # <<>> => UpTo(recv[q].s, Head(recv[q].todo) - 1)'
    BY <1>4, <2>1, <2>2, <2>3 DEF CallKept
  <2> QED
    BY <2>1, <2>3, <2>4 DEF CallKept, Wanted
<1> QED
  BY <1>2, <1>4, <1>5

\* A snapshot begins after the cursor, up to which everything is kept.
LEMMA ReceiveKept ==
  ASSUME IInv, AllKept, NEW r \in Receivers, NEW s \in Sessions, Receive(r, s)
  PROVE  AllKept'
<1> DEFINE n == Len(log) - cursor[s]
           todo == [i \in 1..n |-> cursor[s] + i]
           x == [phase |-> "consuming", s |-> s, got |-> {}, todo |-> todo]
<1>1. /\ recv' = [recv EXCEPT ![r] = x] /\ recv[r].phase = "idle"
      /\ log' = log /\ cursor' = cursor /\ returned' = returned
  BY DEF Receive
<1>2. /\ Len(log) \in Nat /\ cursor \in [Sessions -> 0..Len(log)]
      /\ returned \in [Sessions -> SUBSET DOMAIN log]
  BY DEF IInv, PublishInv, PublishTypes, ReceiveInv, ReceiveTypes
<1>3. recv[r].got = {}
  BY <1>1 DEF AllKept, CallKept
<1>4. n \in Nat /\ todo \in Seq(Nat) /\ Len(todo) = n /\ \A i \in 1..n : todo[i] = cursor[s] + i
  <2>1. n \in Nat
    BY <1>2
  <2>2. todo \in [1..n -> Nat] /\ \A i \in 1..n : todo[i] = cursor[s] + i
    BY <1>2, <2>1
  <2> HIDE DEF n, todo
  <2> QED
    BY <2>1, <2>2
<1>5. todo # <<>> => Head(todo) = cursor[s] + 1
  <2> HIDE DEF todo, n
  <2> QED
    BY <1>4
<1>6. /\ recv'[r] = x
      /\ \A t \in Sessions : \A m \in 0..Len(log) : UpTo(t, m) => UpTo(t, m)'
      /\ \A q \in Receivers : q # r => CallKept(q)'
  <2> HIDE DEF x
  <2> QED
    BY <1>1, <1>2, <1>3, CallMoves
<1>7. \A t \in Sessions : UpTo(t, cursor[t])'
  BY <1>1, <1>2, <1>6 DEF AllKept
<1>8. CallKept(r)'
  <2>1. recv'[r].todo = todo /\ recv'[r].phase = "consuming" /\ recv'[r].s = s
    BY <1>6
  <2>2. Head(todo) - 1 = cursor[s] \/ todo = <<>>
    <3> HIDE DEF todo
    <3> QED
      BY <1>2, <1>5
  <2>3. \A i \in 1..(Len(todo) - 1) : todo[i + 1] = todo[i] + 1
    <3> HIDE DEF todo, n
    <3> QED
      BY <1>2, <1>4
  <2>4. UpTo(s, cursor[s])'
    BY <1>7
  <2> HIDE DEF todo, x
  <2> QED
    BY <1>1, <2>1, <2>2, <2>3, <2>4 DEF CallKept
<1> QED
  BY <1>6, <1>7, <1>8 DEF AllKept

\* The handler keeps the envelope before its cursor is committed.
LEMMA DeliverKept ==
  ASSUME IInv, AllKept, NEW r \in Receivers, Deliver(r)
  PROVE  AllKept'
<1> DEFINE p == Head(recv[r].todo)
           got == IF Wanted(recv[r].s, p) THEN recv[r].got \union {p} ELSE recv[r].got
           x == [recv[r] EXCEPT !.phase = "committing", !.got = got]
<1>1. /\ recv[r] \in Reception /\ cursor \in [Sessions -> 0..Len(log)]
      /\ returned \in [Sessions -> SUBSET DOMAIN log] /\ Len(log) \in Nat
      /\ DOMAIN log = 1..Len(log)
  BY DEF IInv, ReceiveInv, ReceiveTypes, PublishInv, PublishTypes
<1>2. /\ recv' = [recv EXCEPT ![r] = x]
      /\ log' = log /\ cursor' = cursor /\ returned' = returned
      /\ recv[r].todo # <<>>
  BY <1>1 DEF Deliver, IInv, ReceiveInv, ReceiveTypes
<1>3. /\ x.s = recv[r].s /\ x.todo = recv[r].todo /\ x.phase = "committing"
      /\ recv[r].got \subseteq x.got /\ (Wanted(recv[r].s, p) => p \in x.got)
  BY <1>1 DEF Reception
<1>4. /\ recv'[r] = x
      /\ \A s \in Sessions : \A m \in 0..Len(log) : UpTo(s, m) => UpTo(s, m)'
      /\ \A q \in Receivers : q # r => CallKept(q)'
  <2> HIDE DEF x
  <2> QED
    BY <1>1, <1>2, <1>3, CallMoves
<1>5. \A s \in Sessions : UpTo(s, cursor[s])'
  BY <1>1, <1>2, <1>4 DEF AllKept
<1>6. CallKept(r)'
  <2>1. recv[r].s \in Sessions /\ recv[r].todo \in Seq(DOMAIN log)
    BY <1>1 DEF Reception
  <2>2. p - 1 \in 0..Len(log)
    BY <1>1, <1>2, <2>1
  <2>3. CallKept(r)
    BY DEF AllKept
  <2>4. UpTo(recv[r].s, p - 1)'
    BY <1>2, <1>4, <2>1, <2>2, <2>3 DEF CallKept
  <2> HIDE DEF x
  <2> QED
    BY <1>2, <1>3, <1>4, <2>3, <2>4 DEF CallKept, Wanted
<1> QED
  BY <1>4, <1>5, <1>6 DEF AllKept

\* The cursor moves over the envelope that was just kept.
LEMMA CommitKept ==
  ASSUME IInv, AllKept, NEW r \in Receivers, Commit(r)
  PROVE  AllKept'
<1> DEFINE p == Head(recv[r].todo)
           x == [recv[r] EXCEPT !.phase = "consuming", !.todo = Tail(@)]
<1>1. /\ recv[r] \in Reception /\ cursor \in [Sessions -> 0..Len(log)]
      /\ returned \in [Sessions -> SUBSET DOMAIN log] /\ Len(log) \in Nat
      /\ DOMAIN log = 1..Len(log)
  BY DEF IInv, ReceiveInv, ReceiveTypes, PublishInv, PublishTypes
<1>2. /\ recv' = [recv EXCEPT ![r] = x]
      /\ log' = log /\ cursor' = [cursor EXCEPT ![recv[r].s] = p] /\ returned' = returned
      /\ recv[r].phase = "committing" /\ recv[r].todo # <<>>
  BY <1>1 DEF Commit, IInv, ReceiveInv, ReceiveTypes, CommitHead
<1>3. /\ x.s = recv[r].s /\ x.todo = Tail(recv[r].todo) /\ x.phase = "consuming"
      /\ x.got = recv[r].got
  BY <1>1 DEF Reception
<1>4. /\ recv'[r] = x
      /\ \A s \in Sessions : \A m \in 0..Len(log) : UpTo(s, m) => UpTo(s, m)'
      /\ \A q \in Receivers : q # r => CallKept(q)'
  <2> HIDE DEF x
  <2> QED
    BY <1>1, <1>2, <1>3, CallMoves
<1>5. /\ recv[r].s \in Sessions /\ recv[r].todo \in Seq(DOMAIN log)
      /\ p \in 1..Len(log)
  BY <1>1, <1>2 DEF Reception
<1>6. UpTo(recv[r].s, p)
  <2>1. /\ UpTo(recv[r].s, p - 1)
        /\ Wanted(recv[r].s, p) => p \in recv[r].got
    BY <1>2 DEF AllKept, CallKept
  <2>2. \A m \in 1..p : m = p \/ m \in 1..(p - 1)
    BY <1>5
  <2> QED
    BY <2>1, <2>2 DEF UpTo, Kept
<1>7. ASSUME NEW s \in Sessions, NEW n \in 0..Len(log), s = recv[r].s, n = p
      PROVE  UpTo(s, n)'
  BY <1>4, <1>6, <1>7
<1>8. ASSUME NEW s \in Sessions PROVE UpTo(s, cursor[s])'
  <2>1. CASE s = recv[r].s
    <3>1. cursor'[s] = p /\ p \in 0..Len(log)
      BY <1>1, <1>2, <1>5, <2>1
    <3> QED
      BY <1>7, <2>1, <3>1
  <2>2. CASE s # recv[r].s
    <3>1. cursor'[s] = cursor[s] /\ cursor[s] \in 0..Len(log) /\ UpTo(s, cursor[s])
      BY <1>1, <1>2, <2>2 DEF AllKept
    <3> QED
      BY <1>4, <3>1
  <2> QED
    BY <2>1, <2>2
<1>9. CallKept(r)'
  <2> DEFINE todo == recv[r].todo
  <2>1. \A i \in 1..(Len(todo) - 1) : todo[i + 1] = todo[i] + 1
    BY DEF AllKept, CallKept
  <2>2. /\ Tail(todo) \in Seq(DOMAIN log) /\ Len(Tail(todo)) = Len(todo) - 1
        /\ \A i \in 1..(Len(todo) - 1) : Tail(todo)[i] = todo[i + 1]
        /\ Len(todo) \in Nat
    <3>1. \A S : \A q \in Seq(S) : q # <<>> =>
            /\ Tail(q) \in Seq(S) /\ Len(Tail(q)) = Len(q) - 1
            /\ \A i \in 1..(Len(q) - 1) : Tail(q)[i] = q[i + 1]
            /\ Len(q) \in Nat
      OBVIOUS
    <3> QED
      BY <1>2, <1>5, <3>1
  <2>3. \A i \in 1..(Len(Tail(todo)) - 1) : Tail(todo)[i + 1] = Tail(todo)[i] + 1
    BY <2>1, <2>2
  <2>4. Tail(todo) # <<>> => Head(Tail(todo)) = p + 1
    <3>1. Tail(todo) # <<>> => Len(todo) - 1 >= 1
      BY <2>2
    <3>2. Tail(todo) # <<>> => Head(Tail(todo)) = todo[2] /\ todo[2] = todo[1] + 1
      BY <2>1, <2>2, <3>1
    <3> QED
      BY <3>2
  <2>5. Tail(todo) # <<>> => Head(Tail(todo)) - 1 = p
    <3>1. p \in Nat
      BY <1>5, <1>1
    <3> HIDE DEF p, todo
    <3> QED
      BY <2>4, <3>1
  <2>6. recv'[r].s = recv[r].s /\ recv'[r].todo = Tail(todo) /\ recv'[r].phase = "consuming"
    BY <1>3, <1>4
  <2>7. PICK s \in Sessions, n \in 0..Len(log) : s = recv[r].s /\ n = p
    BY <1>1, <1>5
  <2>8. UpTo(s, n)'
    BY <1>7, <2>7
  <2>9. recv'[r].todo # <<>> => UpTo(recv[r].s, Head(recv[r].todo) - 1)'
    <3>1. recv'[r].todo # <<>> => recv'[r].s = s /\ Head(recv'[r].todo) - 1 = n
      BY <2>5, <2>6, <2>7
    <3> HIDE DEF p, x, todo
    <3> QED
      BY <2>8, <3>1 DEF UpTo, Kept
  <2>10. \A i \in 1..(Len(recv'[r].todo) - 1) : recv'[r].todo[i + 1] = recv'[r].todo[i] + 1
    BY <2>3, <2>6
  <2> HIDE DEF x, todo, p
  <2> QED
    BY <2>6, <2>9, <2>10 DEF CallKept
<1> QED
  BY <1>4, <1>8, <1>9 DEF AllKept

\* What a call has got is returned.
LEMMA ReturnKept ==
  ASSUME IInv, AllKept, NEW r \in Receivers, Return(r)
  PROVE  AllKept'
<1>1. /\ recv[r] \in Reception /\ cursor \in [Sessions -> 0..Len(log)]
      /\ returned \in [Sessions -> SUBSET DOMAIN log]
  BY DEF IInv, ReceiveInv, ReceiveTypes
<1>2. /\ recv' = [recv EXCEPT ![r] = NoRecv]
      /\ log' = log /\ cursor' = cursor
      /\ returned' = [returned EXCEPT ![recv[r].s] = @ \union recv[r].got]
  BY DEF Return
<1>3. recv[r].s \in Sessions /\ recv[r].got \in SUBSET DOMAIN log
  BY <1>1 DEF Reception
<1>4. /\ returned' \in [Sessions -> SUBSET DOMAIN log]
      /\ \A s \in Sessions : returned[s] \subseteq returned'[s]
      /\ \A p \in recv[r].got : p \in returned'[recv[r].s]
  BY <1>1, <1>2, <1>3
<1>5. /\ recv'[r] = NoRecv
      /\ \A s \in Sessions : \A m \in 0..Len(log) : UpTo(s, m) => UpTo(s, m)'
      /\ \A q \in Receivers : q # r => CallKept(q)'
  BY <1>2, <1>3, <1>4, CallMoves
<1>6. \A s \in Sessions : UpTo(s, cursor[s])'
  BY <1>1, <1>2, <1>5 DEF AllKept
<1>7. CallKept(r)'
  BY <1>5 DEF CallKept, NoRecv
<1> QED
  BY <1>5, <1>6, <1>7 DEF AllKept

\* Every step keeps what has been kept.
LEMMA NextKept == IInv /\ KeptInv /\ [Next]_vars => KeptInv'
<1> SUFFICES ASSUME IInv, [Next]_vars, faults \subseteq {"append", "authority"}, AllKept
             PROVE  AllKept'
  <2>1. [Next]_vars => faults' = faults
    BY DEF Next, vars, Connect, Disconnect, UpdatePresence, Authorize, Publish, Receive,
           ContinuePublish, Start, AppendEnvelope, EndPublish,
           ContinueReceive, Deliver, Commit, CommitFails, Return, Crash
  <2> QED
    BY <2>1 DEF KeptInv
<1>1. ASSUME UNCHANGED <<log, inReceive>> PROVE AllKept'
  BY <1>1, KeptFrame DEF inReceive
<1>2. ASSUME NEW s \in Sessions, Connect(s) \/ Disconnect(s) \/ UpdatePresence(s) \/ Authorize(s)
      PROVE  AllKept'
  BY <1>1, <1>2 DEF Connect, Disconnect, UpdatePresence, Authorize
<1>3. ASSUME NEW s \in Sessions, NEW k \in Publishers, NEW e \in 0..Len(log), NEW b \in BOOLEAN,
             Publish(k, s, e, b)
      PROVE  AllKept'
  BY <1>1, <1>3 DEF Publish
<1>4. ASSUME NEW k \in Publishers, Start(k) \/ EndPublish(k) PROVE AllKept'
  BY <1>1, <1>4 DEF Start, EndPublish
<1>5. ASSUME NEW k \in Publishers, AppendEnvelope(k) PROVE AllKept'
  <2>1. \E e \in Envelope : log' = Append(log, e)
    BY <1>5, AppendKeeps DEF IInv
  <2> QED
    BY <1>5, <2>1, KeptFrame DEF AppendEnvelope, inReceive
<1>6. ASSUME NEW s \in Sessions, NEW r \in Receivers, Receive(r, s) PROVE AllKept'
  BY <1>6, ReceiveKept
<1>7. ASSUME NEW r \in Receivers, ContinueReceive(r) PROVE AllKept'
  BY <1>7, DeliverKept, CommitKept, ReturnKept DEF ContinueReceive, CommitFails
<1>8. ~Crash
  BY DEF Crash
<1>9. CASE UNCHANGED vars
  BY <1>1, <1>9 DEF vars, inReceive
<1> QED
  BY <1>2, <1>3, <1>4, <1>5, <1>6, <1>7, <1>8, <1>9 DEF Next, ContinuePublish

\* When commits do not fail and the process does not die, whatever the cursor
\* of a subscription has passed was returned or is about to be, whoever
\* receives at the same time, disconnects or is taken over.
THEOREM NoEnvelopeLost == Spec => []EnvelopesReturned
<1>1. Init => KeptInv
  <2> SUFFICES ASSUME Init PROVE AllKept
    BY DEF KeptInv
  <2>1. \A s \in Sessions : UpTo(s, cursor[s])
    BY DEF Init, UpTo
  <2>2. \A r \in Receivers : recv[r] = NoRecv
    BY DEF Init
  <2>3. NoRecv.got = {} /\ NoRecv.todo = <<>> /\ NoRecv.phase = "idle" /\ 1..(Len(<<>>) - 1) = {}
    BY DEF NoRecv
  <2> QED
    BY <2>1, <2>2, <2>3 DEF AllKept, CallKept
<1>2. KeptInv => EnvelopesReturned
  BY DEF KeptInv, AllKept, UpTo, Kept, EnvelopesReturned
<1> QED
  BY <1>1, <1>2, NextKept, Invariant, PTL DEF Spec
=============================================================================
