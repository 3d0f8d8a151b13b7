--------------------------- MODULE EventBusProofs ---------------------------
(***************************************************************************)
(* What the bus guarantees for any number of publishers and subscribers and *)
(* any ring sizes: every cursor read is exact, and no callback hears of a   *)
(* publication twice, however subscriptions and deliveries interleave.      *)
(***************************************************************************)
EXTENDS EventBus, EventRingsProofs, SequenceTheorems

Events == [severity : Severities, publisher : Publishers]

Distinct(s) == \A i, j \in 1 .. Len(s) : s[i] = s[j] => i = j

(* The list of callbacks and the copies of it have no callback twice. *)
ListsInv ==
    /\ subs \in Seq(Subscribers) /\ Distinct(subs)
    /\ todo \in [Publishers -> Seq(Subscribers)]
    /\ \A p \in Publishers : Distinct(todo[p])

(* No two publishers deliver the same revision. *)
CurrentInv ==
    /\ current \in [Publishers -> Nat]
    /\ \A p \in Publishers : current[p] <= revision
    /\ \A p, q \in Publishers : p # q /\ current[p] = current[q] => current[p] = 0

(* What is still to be called is owed, and was not called yet. *)
CallsInv ==
    /\ owed \subseteq Subscribers \X (1 .. revision)
    /\ \A p \in Publishers : \A i \in 1 .. Len(todo[p]) :
          /\ <<todo[p][i], current[p]>> \in owed
          /\ \A j \in 1 .. Len(heard[todo[p][i]]) : heard[todo[p][i]][j] # current[p]

HeardInv ==
    /\ heard \in [Subscribers -> Seq(Nat)]
    /\ \A s \in Subscribers : /\ Distinct(heard[s])
                              /\ \A i \in 1 .. Len(heard[s]) : <<s, heard[s][i]>> \in owed

DeliveryInv == ListsInv /\ CurrentInv /\ CallsInv /\ HeardInv

IInv == RingsInv(Events) /\ DeliveryInv

----------------------------------------------------------------------------
(* list.pop of one element. *)
LEMMA PopDistinct ==
  ASSUME NEW X, NEW s \in Seq(X), Distinct(s), NEW index \in 1 .. Len(s)
  PROVE  LET t == SubSeq(s, 1, index - 1) \o SubSeq(s, index + 1, Len(s))
         IN  t \in Seq(X) /\ Distinct(t)
<1> DEFINE a == SubSeq(s, 1, index - 1)
           b == SubSeq(s, index + 1, Len(s))
           t == a \o b
<1>1. /\ a \in Seq(X) /\ Len(a) = index - 1
      /\ \A i \in 1 .. index - 1 : a[i] = s[i]
  OBVIOUS
<1>2. /\ b \in Seq(X) /\ Len(b) = Len(s) - index
      /\ \A i \in 1 .. Len(s) - index : b[i] = s[index + i]
  OBVIOUS
<1> HIDE DEF a, b
<1>3. /\ t \in Seq(X) /\ Len(t) = Len(s) - 1
      /\ \A i \in 1 .. Len(s) - 1 : t[i] = IF i < index THEN s[i] ELSE s[i + 1]
  <2>1. /\ t \in Seq(X) /\ Len(t) = Len(a) + Len(b)
        /\ \A i \in 1 .. Len(a) + Len(b) :
              t[i] = IF i <= Len(a) THEN a[i] ELSE b[i - Len(a)]
    BY <1>1, <1>2, ConcatProperties
  <2> HIDE DEF t
  <2>2. Len(a) + Len(b) = Len(s) - 1
    BY <1>1, <1>2
  <2>3. ASSUME NEW i \in 1 .. Len(s) - 1
        PROVE  t[i] = IF i < index THEN s[i] ELSE s[i + 1]
    <3>1. CASE i < index
      BY <1>1, <2>1, <2>2, <3>1
    <3>2. CASE ~(i < index)
      <4>1. t[i] = b[i - Len(a)] /\ i - Len(a) = i + 1 - index
        BY <1>1, <2>1, <2>2, <3>2
      <4>2. i + 1 - index \in 1 .. Len(s) - index
        BY <3>2
      <4>3. index + (i + 1 - index) = i + 1
        OBVIOUS
      <4>4. b[i + 1 - index] = s[index + (i + 1 - index)]
        BY ONLY <1>2, <4>2
      <4> QED
        BY <3>2, <4>1, <4>3, <4>4
    <3> QED
      BY <3>1, <3>2
  <2> QED
    BY <2>1, <2>2, <2>3
<1> HIDE DEF t
<1>4. Distinct(t)
  <2> SUFFICES ASSUME NEW i \in 1 .. Len(s) - 1, NEW j \in 1 .. Len(s) - 1, t[i] = t[j]
               PROVE  i = j
    BY <1>3 DEF Distinct
  <2> DEFINE at(k) == IF k < index THEN k ELSE k + 1
  <2>1. t[i] = s[at(i)] /\ t[j] = s[at(j)]
    BY <1>3
  <2>2. at(i) \in 1 .. Len(s) /\ at(j) \in 1 .. Len(s)
    OBVIOUS
  <2>3. at(i) = at(j)
    <3> HIDE DEF at
    <3> QED
      BY <2>1, <2>2 DEF Distinct
  <2> QED
    BY <2>3
<1> QED
  BY <1>3, <1>4 DEF t, a, b

LEMMA AppendDistinct ==
  ASSUME NEW X, NEW s \in Seq(X), Distinct(s), NEW x \in X,
         \A i \in 1 .. Len(s) : s[i] # x
  PROVE  Append(s, x) \in Seq(X) /\ Distinct(Append(s, x))
BY DEF Distinct

LEMMA TailDistinct ==
  ASSUME NEW X, NEW s \in Seq(X), Distinct(s), s # <<>>
  PROVE  /\ Head(s) \in X /\ Head(s) = s[1] /\ 1 \in 1 .. Len(s)
         /\ Tail(s) \in Seq(X) /\ Distinct(Tail(s))
         /\ \A i \in 1 .. Len(Tail(s)) : /\ i + 1 \in 1 .. Len(s)
                                         /\ Tail(s)[i] = s[i + 1]
                                         /\ Tail(s)[i] # Head(s)
BY DEF Distinct

----------------------------------------------------------------------------
(* A publication owes its event to a copy of the list, under a revision     *)
(* nobody has delivered yet.                                                *)
LEMMA PublishDelivery ==
  ASSUME IInv, NEW p \in Publishers, NEW severity \in Severities, Publish(p, severity)
  PROVE  DeliveryInv'
<1>t. /\ subs \in Seq(Subscribers) /\ Distinct(subs) /\ revision \in Nat
      /\ todo \in [Publishers -> Seq(Subscribers)] /\ current \in [Publishers -> Nat]
      /\ heard \in [Subscribers -> Seq(Nat)]
      /\ \A q \in Publishers : current[q] <= revision
  BY DEF IInv, DeliveryInv, ListsInv, CurrentInv, HeardInv, RingsInv, RingIsSuffix
<1>1. /\ revision' = revision + 1 /\ UNCHANGED <<subs, heard>>
      /\ todo' = [todo EXCEPT ![p] = subs]
      /\ current' = [current EXCEPT ![p] = revision + 1]
      /\ owed' = owed \cup {<<s, revision + 1>> : s \in Registered}
  BY DEF Publish, AppendEvent
<1>2. Registered = {subs[i] : i \in 1 .. Len(subs)} /\ Registered \subseteq Subscribers
  <2>1. Registered = {subs[i] : i \in 1 .. Len(subs)}
    BY <1>t, EntriesOfSeq DEF Registered
  <2>2. \A i \in 1 .. Len(subs) : subs[i] \in Subscribers
    BY <1>t
  <2> QED
    BY <2>1, <2>2
<1>3. ListsInv'
  BY <1>t, <1>1 DEF IInv, DeliveryInv, ListsInv
<1>4. CurrentInv'
  <2>1. \A q \in Publishers : current'[q] = IF q = p THEN revision + 1 ELSE current[q]
    BY <1>t, <1>1
  <2>2. current' \in [Publishers -> Nat]
    BY <1>t, <1>1
  <2> QED
    BY <1>t, <1>1, <2>1, <2>2 DEF IInv, DeliveryInv, CurrentInv
<1>5. owed' \subseteq Subscribers \X (1 .. revision') /\ owed \subseteq owed'
  <2>1. owed \subseteq Subscribers \X (1 .. revision)
    BY DEF IInv, DeliveryInv, CallsInv
  <2>2. 1 .. revision \subseteq 1 .. revision' /\ revision + 1 \in 1 .. revision'
    BY <1>t, <1>1
  <2> QED
    BY <1>1, <1>2, <2>1, <2>2
<1>6. HeardInv'
  BY <1>1, <1>5 DEF IInv, DeliveryInv, HeardInv
<1>7. ASSUME NEW q \in Publishers, NEW i \in 1 .. Len(todo'[q])
      PROVE  /\ <<todo'[q][i], current'[q]>> \in owed'
             /\ \A j \in 1 .. Len(heard[todo'[q][i]]) :
                   heard[todo'[q][i]][j] # current'[q]
  <2>1. CASE q = p
    <3>1. todo'[q] = subs /\ current'[q] = revision + 1
      BY <1>t, <1>1, <2>1
    <3>2. subs[i] \in Registered /\ subs[i] \in Subscribers
      BY <1>2, <1>7, <3>1
    <3>3. ASSUME NEW j \in 1 .. Len(heard[subs[i]]) PROVE heard[subs[i]][j] # revision + 1
      <4>1. <<subs[i], heard[subs[i]][j]>> \in Subscribers \X (1 .. revision)
        BY <3>2 DEF IInv, DeliveryInv, HeardInv, CallsInv
      <4>2. heard[subs[i]][j] \in 1 .. revision /\ revision \in Nat
        BY <1>t, <4>1
      <4> QED
        BY <4>2
    <3> QED
      BY <1>1, <3>1, <3>2, <3>3
  <2>2. CASE q # p
    <3>1. todo'[q] = todo[q] /\ current'[q] = current[q]
      BY <1>t, <1>1, <2>2
    <3> QED
      BY <1>5, <1>7, <3>1 DEF IInv, DeliveryInv, CallsInv
  <2> QED
    BY <2>1, <2>2
<1>8. CallsInv'
  <2>1. heard' = heard
    BY <1>1
  <2> QED
    BY <1>5, <1>7, <2>1 DEF CallsInv
<1> QED
  BY <1>3, <1>4, <1>6, <1>8 DEF DeliveryInv

(* One call: the callback at the head of the copy hears of the revision,    *)
(* and is on no other list with the same revision.                          *)
LEMMA CallbackDelivery ==
  ASSUME IInv, NEW p \in Publishers, Callback(p)
  PROVE  DeliveryInv'
<1> DEFINE s == Head(todo[p])
           r == current[p]
<1>t. /\ todo \in [Publishers -> Seq(Subscribers)] /\ current \in [Publishers -> Nat]
      /\ heard \in [Subscribers -> Seq(Nat)] /\ Distinct(todo[p])
      /\ \A q \in Publishers : Distinct(todo[q])
      /\ revision \in Nat
      /\ \A q \in Publishers : q # p /\ current[q] = current[p] => current[q] = 0
  BY DEF IInv, DeliveryInv, ListsInv, CurrentInv, HeardInv, RingsInv, RingIsSuffix
<1>1. /\ todo[p] # <<>>
      /\ heard' = [heard EXCEPT ![s] = Append(@, r)]
      /\ todo' = [todo EXCEPT ![p] = Tail(@)]
      /\ UNCHANGED <<revision, subs, current, owed>>
  BY DEF Callback, ringVars
<1>2. /\ s \in Subscribers /\ s = todo[p][1] /\ 1 \in 1 .. Len(todo[p])
      /\ Tail(todo[p]) \in Seq(Subscribers) /\ Distinct(Tail(todo[p]))
      /\ \A i \in 1 .. Len(Tail(todo[p])) : /\ i + 1 \in 1 .. Len(todo[p])
                                            /\ Tail(todo[p])[i] = todo[p][i + 1]
                                            /\ Tail(todo[p])[i] # s
  BY <1>t, <1>1, TailDistinct
<1>3. /\ <<s, r>> \in owed /\ r \in Nat
      /\ \A j \in 1 .. Len(heard[s]) : heard[s][j] # r
  BY <1>t, <1>2 DEF IInv, DeliveryInv, CallsInv
<1> HIDE DEF s, r
<1>4. ListsInv' /\ CurrentInv'
  BY <1>t, <1>1, <1>2 DEF IInv, DeliveryInv, ListsInv, CurrentInv
<1>5. /\ heard'[s] = Append(heard[s], r) /\ heard[s] \in Seq(Nat)
      /\ \A u \in Subscribers \ {s} : heard'[u] = heard[u]
  BY <1>t, <1>1, <1>2
<1>6. HeardInv'
  <2>1. Distinct(heard[s]) /\ Distinct(Append(heard[s], r))
    BY <1>3, <1>2, <1>5, AppendDistinct DEF IInv, DeliveryInv, HeardInv
  <2>2. ASSUME NEW i \in 1 .. Len(heard'[s]) PROVE <<s, heard'[s][i]>> \in owed
    <3>1. CASE i \in 1 .. Len(heard[s])
      <4>1. heard'[s][i] = heard[s][i]
        BY <1>5, <3>1
      <4> QED
        BY <1>2, <3>1, <4>1 DEF IInv, DeliveryInv, HeardInv
    <3>2. CASE i = Len(heard[s]) + 1
      <4>1. heard'[s][i] = r
        BY <1>5, <3>2
      <4> QED
        BY <1>3, <4>1
    <3> QED
      <4>1. /\ Len(heard'[s]) = Len(heard[s]) + 1 /\ Len(heard[s]) \in Nat
        BY <1>3, <1>5
      <4> QED
        BY <2>2, <3>1, <3>2, <4>1
  <2>3. heard' \in [Subscribers -> Seq(Nat)]
    <3>1. Append(heard[s], r) \in Seq(Nat)
      BY <1>3, <1>5
    <3> QED
      BY <1>t, <1>1, <3>1, <1>5
  <2>4. ASSUME NEW u \in Subscribers
        PROVE  Distinct(heard'[u]) /\ \A i \in 1 .. Len(heard'[u]) : <<u, heard'[u][i]>> \in owed'
    <3>1. CASE u = s
      BY <1>1, <1>5, <2>1, <2>2, <3>1
    <3>2. CASE u # s
      BY <1>1, <1>5, <3>2 DEF IInv, DeliveryInv, HeardInv
    <3> QED
      BY <3>1, <3>2
  <2> QED
    BY <2>3, <2>4 DEF HeardInv, Distinct
<1>7. ASSUME NEW q \in Publishers, NEW i \in 1 .. Len(todo'[q])
      PROVE  /\ <<todo'[q][i], current[q]>> \in owed
             /\ \A j \in 1 .. Len(heard'[todo'[q][i]]) :
                   heard'[todo'[q][i]][j] # current[q]
  <2> DEFINE u == todo'[q][i]
  <2>1. \E k \in 1 .. Len(todo[q]) : u = todo[q][k] /\ (q = p => u # s)
    <3>1. CASE q = p
      <4>1. todo'[q] = Tail(todo[p])
        BY <1>t, <1>1, <3>1
      <4> QED
        BY <1>2, <1>7, <3>1, <4>1
    <3>2. CASE q # p
      BY <1>t, <1>1, <3>2
    <3> QED
      BY <3>1, <3>2
  <2> HIDE DEF u
  <2>2. /\ <<u, current[q]>> \in owed
        /\ \A j \in 1 .. Len(heard[u]) : heard[u][j] # current[q]
        /\ u \in Subscribers /\ current[q] # 0
    <3>1. PICK k \in 1 .. Len(todo[q]) : u = todo[q][k]
      BY <2>1
    <3>2. /\ <<u, current[q]>> \in owed
          /\ \A j \in 1 .. Len(heard[u]) : heard[u][j] # current[q]
      BY <3>1 DEF IInv, DeliveryInv, CallsInv
    <3>3. <<u, current[q]>> \in Subscribers \X (1 .. revision)
      BY <3>2 DEF IInv, DeliveryInv, CallsInv
    <3> QED
      BY <1>t, <3>2, <3>3
  <2>3. \A j \in 1 .. Len(heard'[u]) : heard'[u][j] # current[q]
    <3>1. CASE u # s
      BY <1>5, <2>2, <3>1
    <3>2. CASE u = s
      <4>1. q # p /\ current[q] # r
        BY <1>t, <2>1, <2>2, <3>2 DEF r
      <4>2. /\ Len(heard'[s]) = Len(heard[s]) + 1 /\ Len(heard[s]) \in Nat
            /\ heard'[s][Len(heard[s]) + 1] = r
            /\ \A j \in 1 .. Len(heard[s]) : heard'[s][j] = heard[s][j]
        BY <1>3, <1>5
      <4>3. ASSUME NEW j \in 1 .. Len(heard'[s]) PROVE heard'[s][j] # current[q]
        <5>1. CASE j \in 1 .. Len(heard[s])
          <6>1. heard[s][j] # current[q]
            BY <2>2, <3>2, <5>1
          <6> QED
            BY <4>2, <5>1, <6>1
        <5>2. CASE j = Len(heard[s]) + 1
          BY <4>1, <4>2, <5>2
        <5>3. j \in 1 .. Len(heard[s]) \/ j = Len(heard[s]) + 1
          BY <4>2
        <5> QED
          BY <5>1, <5>2, <5>3
      <4> QED
        BY <3>2, <4>3
    <3> QED
      BY <3>1, <3>2
  <2> QED
    BY <2>2, <2>3 DEF u
<1>8. CallsInv'
  <2>1. current' = current /\ owed' = owed /\ revision' = revision
    BY <1>1
  <2>2. owed \subseteq Subscribers \X (1 .. revision)
    BY DEF IInv, DeliveryInv, CallsInv
  <2> QED
    BY <1>7, <2>1, <2>2 DEF CallsInv
<1> QED
  BY <1>4, <1>6, <1>8 DEF DeliveryInv

LEMMA ReturnDelivery ==
  ASSUME IInv, NEW p \in Publishers, Return(p)
  PROVE  DeliveryInv'
<1>1. /\ UNCHANGED <<revision, subs, todo, heard, owed>> /\ todo[p] = <<>>
      /\ current' = [current EXCEPT ![p] = 0]
  BY DEF Return, ringVars
<1>t. current \in [Publishers -> Nat] /\ revision \in Nat
  BY DEF IInv, DeliveryInv, CurrentInv, RingsInv, RingIsSuffix
<1>2. \A q \in Publishers : current'[q] = IF q = p THEN 0 ELSE current[q]
  BY <1>1, <1>t
<1>3. CurrentInv'
  BY <1>1, <1>t, <1>2 DEF IInv, DeliveryInv, CurrentInv
<1>4. CallsInv'
  <2>1. ASSUME NEW q \in Publishers, NEW i \in 1 .. Len(todo[q]) PROVE q # p
    BY <1>1, <2>1
  <2> QED
    <3>1. \A q \in Publishers : \A i \in 1 .. Len(todo[q]) : current'[q] = current[q]
      BY <1>2, <2>1
    <3>2. UNCHANGED <<revision, todo, heard, owed>>
      BY <1>1
    <3> QED
      BY <3>1, <3>2 DEF IInv, DeliveryInv, CallsInv
<1> QED
  BY <1>1, <1>3, <1>4 DEF IInv, DeliveryInv, ListsInv, HeardInv

LEMMA ListDelivery ==
  ASSUME IInv, NEW s \in Subscribers, Subscribe(s) \/ Unsubscribe(s)
  PROVE  DeliveryInv'
<1>1. UNCHANGED <<revision, todo, current, heard, owed>>
  BY DEF Subscribe, Unsubscribe, ringVars
<1>t. subs \in Seq(Subscribers) /\ Distinct(subs)
  BY DEF IInv, DeliveryInv, ListsInv
<1>2. CASE Subscribe(s)
  <2>1. subs' = Append(subs, s) /\ \A i \in 1 .. Len(subs) : subs[i] # s
    BY <1>2, <1>t, EntriesOfSeq DEF Subscribe, Registered
  <2>2. subs' \in Seq(Subscribers) /\ Distinct(subs')
    BY <1>t, <2>1, AppendDistinct
  <2> QED
    BY <1>1, <2>2 DEF IInv, DeliveryInv, ListsInv, CurrentInv, CallsInv, HeardInv, Distinct
<1>3. CASE Unsubscribe(s)
  <2>1. PICK index \in 1 .. Len(subs) :
          subs' = SubSeq(subs, 1, index - 1) \o SubSeq(subs, index + 1, Len(subs))
    <3>1. DOMAIN subs = 1 .. Len(subs)
      BY <1>t
    <3> QED
      BY <1>3, <3>1 DEF Unsubscribe
  <2>2. subs' \in Seq(Subscribers) /\ Distinct(subs')
    BY <1>t, <2>1, PopDistinct
  <2> QED
    BY <1>1, <2>2 DEF IInv, DeliveryInv, ListsInv, CurrentInv, CallsInv, HeardInv, Distinct
<1> QED
  BY <1>2, <1>3

----------------------------------------------------------------------------
LEMMA NextRings ==
  ASSUME RingsInv(Events), [Next]_vars
  PROVE  RingsInv(Events)'
<1>1. ASSUME NEW p \in Publishers, NEW severity \in Severities, Publish(p, severity)
      PROVE  RingsInv(Events)'
  <2> DEFINE e == [severity |-> severity, publisher |-> p]
  <2>1. e \in Events /\ AppendEvent(e)
    BY <1>1 DEF Publish, Events
  <2> HIDE DEF e
  <2> QED
    BY <2>1, AppendKeepsRings DEF Events
<1>2. CASE UNCHANGED ringVars
  BY <1>2, RingsUnchanged DEF Events
<1> QED
  BY <1>1, <1>2 DEF Next, vars, Callback, Return, Subscribe, Unsubscribe

LEMMA NextIInv == IInv /\ [Next]_vars => IInv'
<1> SUFFICES ASSUME IInv, [Next]_vars PROVE IInv'
  OBVIOUS
<1>1. RingsInv(Events)'
  BY NextRings DEF IInv
<1>2. CASE UNCHANGED vars
  BY <1>1, <1>2 DEF vars, ringVars, busVars, IInv, DeliveryInv, ListsInv, CurrentInv,
                    CallsInv, HeardInv
<1> QED
  BY <1>1, <1>2, PublishDelivery, CallbackDelivery, ReturnDelivery, ListDelivery
     DEF Next, IInv

LEMMA InitIInv == Init => IInv
<1> SUFFICES ASSUME Init PROVE IInv
  OBVIOUS
<1>1. RingsInv(Events) /\ revision = 0
  BY RingsInitially DEF Init, RingsInit
<1>2. ListsInv /\ CurrentInv /\ HeardInv /\ CallsInv
  BY <1>1 DEF Init, ListsInv, CurrentInv, HeardInv, CallsInv, Distinct
<1> QED
  BY <1>1, <1>2 DEF IInv, DeliveryInv

LEMMA Invariance == Spec => []IInv
BY InitIInv, NextIInv, PTL DEF Spec

(* The variables keep their types; only appended revisions are delivered    *)
(* (_deliver).                                                              *)
THEOREM TypeCorrect == Spec => []TypeOK
<1>1. IInv => TypeOK
  <2> SUFFICES ASSUME IInv PROVE TypeOK
    OBVIOUS
  <2>1. RingsTypeOK
    BY RingsAreTyped DEF IInv
  <2>2. Registered \subseteq Subscribers
    BY EntriesOfSeq DEF IInv, DeliveryInv, ListsInv, Registered
  <2>3. \A p \in Publishers : EntriesOf(todo[p]) \subseteq Subscribers
    BY EntriesOfSeq DEF IInv, DeliveryInv, ListsInv
  <2>4. \A p \in Publishers : current[p] \in 0 .. revision
    BY DEF IInv, DeliveryInv, CurrentInv, RingsInv, RingIsSuffix
  <2> QED
    BY <2>1, <2>2, <2>3, <2>4 DEF IInv, DeliveryInv, CallsInv, TypeOK
<1> QED
  BY <1>1, Invariance, PTL

(* records_since is exact for every cursor, ring size and overflow.         *)
THEOREM DeltaHolds == Spec => []DeltaIsExact
<1>1. IInv => DeltaIsExact
  BY RingsAnswerExactly DEF IInv
<1> QED
  BY <1>1, Invariance, PTL

(* Noise never pushes a retained HIGH event out of an overflowed read.      *)
THEOREM SeriousHolds == Spec => []SeriousOutlivesNoise
<1>1. IInv => SeriousOutlivesNoise
  BY RingsKeepSerious DEF IInv
<1> QED
  BY <1>1, Invariance, PTL

(* priority_records_since is exact or says that it is not.                  *)
THEOREM LaneHolds == Spec => []PriorityLaneIsExact
<1>1. IInv => PriorityLaneIsExact
  BY LaneAnswersExactly DEF IInv
<1> QED
  BY <1>1, Invariance, PTL

(* _deliver calls a callback at most once per publication, and only one     *)
(* that was registered when it was appended.                                *)
THEOREM HeardHolds == Spec => []HeardAtMostOnce
<1>1. IInv => HeardAtMostOnce
  <2> SUFFICES ASSUME IInv, NEW s \in Subscribers
               PROVE  /\ \A i, j \in DOMAIN heard[s] : heard[s][i] = heard[s][j] => i = j
                      /\ \A i \in DOMAIN heard[s] : <<s, heard[s][i]>> \in owed
    BY DEF HeardAtMostOnce
  <2>1. heard[s] \in Seq(Nat) /\ DOMAIN heard[s] = 1 .. Len(heard[s])
    BY DEF IInv, DeliveryInv, HeardInv
  <2> QED
    BY <2>1 DEF IInv, DeliveryInv, HeardInv, Distinct
<1> QED
  BY <1>1, Invariance, PTL
=============================================================================
