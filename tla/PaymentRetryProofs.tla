--------------------------- MODULE PaymentRetryProofs ---------------------------
(***************************************************************************)
(* What retries, success events and sweeps keep for any number of them and *)
(* any number of retries: the sweep asks about every intent the order      *)
(* records, an order paid before the sweep is not cancelled by it, and a   *)
(* payment is listed as extra only beside another one.                     *)
(***************************************************************************)
EXTENDS PaymentRetry, SequenceTheorems, FiniteSetTheorems, TLAPS

USE RetryBounds DEF RetryBounds

\* The attempts claimed so far, the first one included.
Claimed(o) == 1..(o.retries + 1)

\* The list has no intent twice, and every recorded intent belongs to an attempt that
\* was claimed: this is what keeps the list within the poller's cap.
ListedOnce(o) ==
  /\ \A a, b \in 1..Len(o.ids) : o.ids[a] = o.ids[b] => a = b
  /\ \A a \in 1..Len(o.ids) : o.ids[a] \in Claimed(o)
  /\ o.current \in {0} \cup Claimed(o)

OrderInv == order \in OrderType /\ ListedOnce(order)

\* What a call at phase ph holds.  While a sweep that began on a paid order goes on
\* without a failed check, a paid intent is still ahead of it.
Holding(ph, l, o, states) ==
  /\ ph \in Phases /\ l \in LocType
  /\ ph \in {"asking", "recording"} => l.intent # 0
  /\ ph \in {"creating", "linking", "listing"} => l.intent \in Claimed(o)
  /\ ph = "checking" /\ l.paid /\ ~l.failed =>
       \E j \in 1..Len(l.left) : states[l.left[j]] = "succeeded"
  /\ ph \in {"expiring", "cancelling"} => ~l.paid

CallsInv ==
  /\ phase \in [Procs -> Phases] /\ loc \in [Procs -> LocType]
  /\ \A p \in Procs : Holding(phase[p], loc[p], order, intent)

RestInv ==
  /\ intent \in [Intents -> IntentStates] /\ window \in Windows
  /\ refunds \subseteq Intents /\ faults \in 0..MaxFaults

RetryInv == OrderInv /\ CallsInv /\ RestInv

-----------------------------------------------------------------------------
(* The list a sweep checks *)

Distinct(s) == \A a, b \in 1..Len(s) : s[a] = s[b] => a = b

\* Reading a list backwards keeps its members.
LEMMA Backwards ==
  ASSUME NEW S, NEW s \in Seq(S), Distinct(s)
  PROVE  /\ Reverse(s) \in Seq(S) /\ Distinct(Reverse(s)) /\ Len(Reverse(s)) = Len(s)
         /\ ToSet(Reverse(s)) = ToSet(s)
<1> DEFINE n == Len(s)
           r == Reverse(s)
<1>1. /\ r \in Seq(S) /\ Len(r) = n /\ n \in Nat
      /\ \A i \in 1..n : r[i] = s[n - i + 1]
  BY DEF Reverse
<1> HIDE DEF n, r
<1>2. \A i \in 1..n : (n - i + 1) \in 1..n /\ n - (n - i + 1) + 1 = i
  BY <1>1
<1>3. ASSUME NEW i \in 1..n PROVE s[i] = r[n - i + 1]
  BY <1>1, <1>2
<1>4. Distinct(r)
  <2> SUFFICES ASSUME NEW i \in 1..n, NEW j \in 1..n, r[i] = r[j] PROVE i = j
    BY <1>1 DEF Distinct
  <2>1. s[n - i + 1] = s[n - j + 1]
    BY <1>1
  <2>2. n - i + 1 = n - j + 1
    BY <1>2, <2>1 DEF Distinct, n
  <2> QED
    BY <1>1, <2>2
<1>5. ASSUME NEW x PROVE x \in ToSet(r) <=> x \in ToSet(s)
  <2>1. DOMAIN r = 1..n
    BY <1>1
  <2>2. DOMAIN s = 1..n
    BY DEF n
  <2>3. ToSet(r) = {r[i] : i \in 1..n} /\ ToSet(s) = {s[i] : i \in 1..n}
    BY <2>1, <2>2, Zenon DEF ToSet
  <2> QED
    BY <1>1, <1>2, <1>3, <2>3
<1> QED
  BY <1>1, <1>4, <1>5 DEF n, r

\* Of a list without duplicates, RemoveFirst takes the one place that holds the member.
LEMMA RemovedAt ==
  ASSUME NEW S, NEW s \in Seq(S), NEW e, NEW k \in 1..Len(s),
         \A i \in 1..Len(s) : s[i] = e <=> i = k
  PROVE  RemoveFirst(s, e) = SubSeq(s, 1, k - 1) \o SubSeq(s, k + 1, Len(s))
<1>1. {i \in 1..Len(s) : s[i] = e} = {k}
  OBVIOUS
<1>2. Min({k}) = k
  BY DEF Min
<1>3. SelectInSeq(s, LAMBDA v : v = e) =
        IF {i \in 1..Len(s) : s[i] = e} # {} THEN Min({i \in 1..Len(s) : s[i] = e}) ELSE 0
  BY Zenon DEF SelectInSeq
<1>4. SelectInSeq(s, LAMBDA v : v = e) = k
  BY <1>1, <1>2, <1>3, Zenon
<1>5. RemoveFirst(s, e) = RemoveAt(s, SelectInSeq(s, LAMBDA v : v = e))
  BY DEF RemoveFirst
<1> QED
  BY <1>4, <1>5 DEF RemoveAt

\* Without one member the list keeps the others.
LEMMA WithoutOne ==
  ASSUME NEW S, NEW s \in Seq(S), Distinct(s), NEW e
  PROVE  /\ RemoveFirst(s, e) \in Seq(S) /\ Distinct(RemoveFirst(s, e))
         /\ ToSet(RemoveFirst(s, e)) = ToSet(s) \ {e}
<1>1. CASE ~\E i \in 1..Len(s) : s[i] = e
  BY <1>1 DEF RemoveFirst, ToSet
<1>2. CASE \E i \in 1..Len(s) : s[i] = e
  <2>1. PICK k \in 1..Len(s) : s[k] = e
    BY <1>2
  <2> DEFINE a == SubSeq(s, 1, k - 1)
             b == SubSeq(s, k + 1, Len(s))
             t == RemoveFirst(s, e)
  <2>2. t = a \o b
    BY <2>1, RemovedAt DEF Distinct
  <2>3. a \in Seq(S) /\ Len(a) = k - 1 /\ \A i \in 1..(k - 1) : a[i] = s[i]
    OBVIOUS
  <2>4. b \in Seq(S) /\ Len(b) = Len(s) - k /\ \A i \in 1..(Len(s) - k) : b[i] = s[k + i]
    OBVIOUS
  <2> HIDE DEF a, b, t
  <2>5. /\ t \in Seq(S) /\ Len(t) = Len(s) - 1
        /\ \A i \in 1..Len(t) : t[i] = IF i < k THEN s[i] ELSE s[i + 1]
    <3>1. t \in Seq(S) /\ Len(t) = Len(s) - 1
      BY <2>2, <2>3, <2>4
    <3>2. \A i \in 1..Len(t) : t[i] = IF i < k THEN a[i] ELSE b[i - (k - 1)]
      BY <2>2, <2>3, <2>4, <3>1
    <3>3. \A i \in 1..Len(t) : i >= k => (i - (k - 1)) \in 1..(Len(s) - k) /\ k + (i - (k - 1)) = i + 1
      BY <3>1
    <3> QED
      BY <2>3, <2>4, <3>1, <3>2, <3>3
  <2>6. Distinct(t)
    BY <2>5 DEF Distinct
  <2>7. ASSUME NEW x \in ToSet(t) PROVE x \in ToSet(s) \ {e}
    BY <2>1, <2>5, <2>7 DEF ToSet, Distinct
  <2>8. ASSUME NEW x \in ToSet(s), x # e PROVE x \in ToSet(t)
    <3>1. PICK i \in 1..Len(s) : s[i] = x
      BY DEF ToSet
    <3>2. CASE i < k
      BY <2>5, <3>1, <3>2 DEF ToSet
    <3>3. CASE i > k
      <4>1. (i - 1) \in 1..Len(t) /\ t[i - 1] = x
        BY <2>5, <3>1, <3>3
      <4> QED
        BY <2>5, <4>1 DEF ToSet
    <3> QED
      BY <2>1, <2>8, <3>1, <3>2, <3>3
  <2>9. ToSet(t) = ToSet(s) \ {e}
    BY <2>7, <2>8
  <2> QED
    BY <2>5, <2>6, <2>9 DEF t
<1> QED
  BY <1>1, <1>2

\* A list without duplicates is no longer than the attempts it is drawn from.
LEMMA NoLonger ==
  ASSUME NEW n \in Nat, NEW s \in Seq(1..n), Distinct(s)
  PROVE  Len(s) <= n
<1>1. s \in Injection(1..Len(s), 1..n)
  BY DEF Injection, IsInjective, Distinct
<1>2. IsFiniteSet(1..n) /\ Cardinality(1..n) = n
  BY FS_Interval
<1>3. Cardinality(1..Len(s)) = Len(s)
  <2> DEFINE m == Len(s)
  <2>1. m \in Nat
    OBVIOUS
  <2> HIDE DEF m
  <2>2. Cardinality(1..m) = m
    BY <2>1, FS_Interval
  <2> QED
    BY <2>2 DEF m
<1> QED
  BY <1>1, <1>2, <1>3, FS_Injection

\* The members of a list with one more in front.
LEMMA InFront ==
  ASSUME NEW S, NEW c \in S, NEW s \in Seq(S), Distinct(s), c \notin ToSet(s)
  PROVE  /\ <<c>> \o s \in Seq(S) /\ Distinct(<<c>> \o s)
         /\ ToSet(<<c>> \o s) = {c} \cup ToSet(s)
<1> DEFINE t == <<c>> \o s
<1>1. /\ t \in Seq(S) /\ Len(t) = Len(s) + 1 /\ t[1] = c
      /\ \A i \in 1..Len(s) : t[i + 1] = s[i]
  OBVIOUS
<1> HIDE DEF t
<1>2. \A i \in 1..Len(s) : s[i] # c
  BY DEF ToSet
<1>3. \A i \in 2..Len(t) : (i - 1) \in 1..Len(s) /\ t[i] = s[i - 1]
  BY <1>1
<1>4. Distinct(t)
  <2> SUFFICES ASSUME NEW i \in 1..Len(t), NEW j \in 1..Len(t), t[i] = t[j] PROVE i = j
    BY DEF Distinct
  <2>1. CASE i = 1 \/ j = 1
    <3>1. ASSUME NEW m \in 1..Len(t), m # 1 PROVE t[m] # c
      <4>1. m \in 2..Len(t)
        BY <3>1
      <4> QED
        BY <1>2, <1>3, <4>1
    <3> QED
      BY <1>1, <2>1, <3>1
  <2>2. CASE i # 1 /\ j # 1
    <3>1. s[i - 1] = s[j - 1] /\ (i - 1) \in 1..Len(s) /\ (j - 1) \in 1..Len(s)
      BY <1>1, <1>3, <2>2
    <3>2. i - 1 = j - 1
      BY <3>1 DEF Distinct
    <3> QED
      BY <3>2
  <2> QED
    BY <2>1, <2>2
<1>5. ASSUME NEW x PROVE x \in ToSet(t) <=> x \in {c} \cup ToSet(s)
  <2>1. DOMAIN t = 1..Len(t) /\ DOMAIN s = 1..Len(s)
    BY <1>1
  <2>2. ASSUME NEW i \in 1..Len(t) PROVE t[i] \in {c} \cup ToSet(s)
    <3>1. i = 1 \/ i \in 2..Len(t)
      BY <1>1
    <3>2. \A j \in 1..Len(s) : s[j] \in ToSet(s)
      BY <2>1 DEF ToSet
    <3> QED
      BY <1>1, <1>3, <3>1, <3>2
  <2>3. c \in ToSet(t)
    BY <1>1, <2>1 DEF ToSet
  <2>4. ASSUME NEW i \in 1..Len(s) PROVE s[i] \in ToSet(t)
    <3>1. (i + 1) \in 1..Len(t) /\ t[i + 1] = s[i]
      BY <1>1
    <3> QED
      BY <2>1, <3>1 DEF ToSet
  <2> QED
    BY <2>1, <2>2, <2>3, <2>4 DEF ToSet
<1> QED
  BY <1>1, <1>4, <1>5 DEF t

\* The sweep asks about every intent the order records: there are no more of them than
\* attempts claimed, and the cap on intents checked is one above the cap on retries.
LEMMA SweepSeesAll ==
  ASSUME OrderInv
  PROVE  IntentsToCheck \in Seq(Intents) /\ ToSet(IntentsToCheck) = Recorded
<1> DEFINE n == order.retries + 1
           cur == order.current
           ids == order.ids
           others == RemoveFirst(Reverse(ids), cur)
           all == (IF cur = 0 THEN <<>> ELSE <<cur>>) \o others
<1>1. n \in Nat /\ n <= MaxChecked /\ 1..n \subseteq Intents /\ cur \in {0} \cup 1..n
  BY DEF OrderInv, OrderType, ListedOnce, Claimed, MaxChecked, Intents
<1>2. ids \in Seq(1..n) /\ Distinct(ids)
  <2>1. ids \in Seq(Intents) /\ \A a \in 1..Len(ids) : ids[a] \in 1..n
    BY DEF OrderInv, OrderType, ListedOnce, Claimed
  <2> HIDE DEF ids, n
  <2>2. ids \in Seq(1..n)
    <3>1. ids = [a \in 1..Len(ids) |-> ids[a]] /\ Len(ids) \in Nat
      BY <2>1
    <3>2. [a \in 1..Len(ids) |-> ids[a]] \in [1..Len(ids) -> 1..n]
      BY <2>1
    <3>3. ids \in [1..Len(ids) -> 1..n] /\ Len(ids) \in Nat
      BY <3>1, <3>2
    <3> QED
      BY <3>3, SeqDef, Zenon
  <2> QED
    BY <2>2 DEF OrderInv, ListedOnce, Distinct, ids
<1> HIDE DEF n, cur, ids
<1>3. Reverse(ids) \in Seq(1..n) /\ Distinct(Reverse(ids)) /\ ToSet(Reverse(ids)) = ToSet(ids)
  BY <1>2, Backwards
<1>4. others \in Seq(1..n) /\ Distinct(others) /\ ToSet(others) = ToSet(ids) \ {cur}
  BY <1>3, WithoutOne
<1> HIDE DEF others
<1>5. 0 \notin ToSet(ids)
  BY <1>1, <1>2 DEF ToSet
<1>6. all \in Seq(1..n) /\ Distinct(all) /\ ToSet(all) = ToSet(ids) \cup ({cur} \ {0})
  <2>1. CASE cur = 0
    <3>1. all = others
      BY <1>4, <2>1
    <3> QED
      BY <1>4, <1>5, <2>1, <3>1
  <2>2. CASE cur # 0
    <3>1. all = <<cur>> \o others /\ cur \in 1..n /\ cur \notin ToSet(others)
      BY <1>1, <1>4, <2>2
    <3> DEFINE T == 1..n
    <3>2. cur \in T /\ others \in Seq(T) /\ Distinct(others) /\ cur \notin ToSet(others)
      BY <1>4, <3>1
    <3> HIDE DEF all, T
    <3>3. /\ <<cur>> \o others \in Seq(T) /\ Distinct(<<cur>> \o others)
          /\ ToSet(<<cur>> \o others) = {cur} \cup ToSet(others)
      BY <3>2, InFront
    <3>4. all \in Seq(1..n) /\ Distinct(all) /\ ToSet(all) = {cur} \cup ToSet(others)
      BY <3>1, <3>3, Zenon DEF T
    <3> QED
      BY <1>4, <2>2, <3>4
  <2> QED
    BY <2>1, <2>2
<1>7. IntentsToCheck = SubSeq(all, 1, IF Len(all) <= MaxChecked THEN Len(all) ELSE MaxChecked)
  BY DEF IntentsToCheck, others, cur, ids
<1> HIDE DEF all
<1>8. Len(all) <= n
  BY <1>1, <1>6, NoLonger
<1>9. IntentsToCheck = all
  <2>1. Len(all) \in Nat /\ MaxChecked \in Nat
    BY <1>6 DEF MaxChecked
  <2>2. IntentsToCheck = SubSeq(all, 1, Len(all))
    BY <1>1, <1>7, <1>8, <2>1
  <2> QED
    BY <1>6, <2>2
<1> QED
  BY <1>1, <1>6, <1>9 DEF Recorded, cur, ids

-----------------------------------------------------------------------------
(* Going on *)

\* A call that has ended holds nothing.
LEMMA NothingHeld == NoLoc \in LocType /\ NoLoc.intent = 0 /\ NoLoc.paid = FALSE
BY DEF NoLoc, LocType, IntentStates, Windows, Intents

\* A call that starts on intent i holds nothing else.
LEMMA HoldsIntent ==
  ASSUME NEW i \in Intents \cup {0}
  PROVE  LET l == [NoLoc EXCEPT !.intent = i]
         IN  l \in LocType /\ l.intent = i /\ l.paid = FALSE
BY NothingHeld DEF LocType

\* Later claims and later payments leave what a call holds true.
LEMMA StillHolding ==
  ASSUME NEW ph, NEW l, NEW o, NEW o2, NEW states, NEW states2, Holding(ph, l, o, states),
         o.retries \in Nat, o2.retries \in Nat, o.retries <= o2.retries,
         \A i \in Intents : states[i] = "succeeded" => states2[i] = "succeeded"
  PROVE  Holding(ph, l, o2, states2)
<1>1. Claimed(o) \subseteq Claimed(o2)
  BY DEF Claimed
<1>2. \A j \in 1..Len(l.left) : l.left[j] \in Intents
  BY DEF Holding, LocType
<1>3. ph = "checking" /\ l.paid /\ ~l.failed => \E j \in 1..Len(l.left) : states2[l.left[j]] = "succeeded"
  BY <1>2 DEF Holding
<1> QED
  BY <1>1, <1>3 DEF Holding

\* A call that comes to a phase with what the phase calls for keeps the invariant of
\* the calls.
LEMMA CallGoes ==
  ASSUME RetryInv, NEW p \in Procs, NEW next, NEW l, Goto(p, next, l),
         next = "idle" \/ Holding(next, l, order', intent'),
         order' \in OrderType, order.retries <= order'.retries,
         \A i \in Intents : intent[i] = "succeeded" => intent'[i] = "succeeded"
  PROVE  CallsInv'
<1> DEFINE here == IF next = "idle" THEN NoLoc ELSE l
<1>1. Holding(next, here, order', intent')
  BY NothingHeld DEF Holding, Phases
<1>2. next \in Phases /\ here \in LocType
  BY <1>1 DEF Holding
<1>3. phase' = [phase EXCEPT ![p] = next] /\ loc' = [loc EXCEPT ![p] = here]
  BY DEF Goto
<1> HIDE DEF here
<1>4. phase' \in [Procs -> Phases] /\ loc' \in [Procs -> LocType]
  BY <1>2, <1>3 DEF RetryInv, CallsInv
<1>5. order.retries \in Nat /\ order'.retries \in Nat
  BY DEF RetryInv, OrderInv, OrderType
<1>6. ASSUME NEW q \in Procs PROVE Holding(phase'[q], loc'[q], order', intent')
  <2>1. CASE q = p
    BY <1>1, <1>3, <2>1 DEF RetryInv, CallsInv
  <2>2. CASE q # p
    <3>1. phase'[q] = phase[q] /\ loc'[q] = loc[q] /\ Holding(phase[q], loc[q], order, intent)
      BY <1>3, <2>2 DEF RetryInv, CallsInv
    <3>2. Holding(phase[q], loc[q], order', intent')
      BY <1>5, <3>1, StillHolding
    <3> QED
      BY <3>1, <3>2
  <2> QED
    BY <2>1, <2>2
<1> QED
  BY <1>4, <1>6 DEF CallsInv

\* A step of a call that changes nothing but what the call holds.
LEMMA OnlyTheCall ==
  ASSUME RetryInv, NEW p \in Procs, NEW next, NEW l, Goto(p, next, l),
         next = "idle" \/ Holding(next, l, order, intent),
         UNCHANGED <<order, intent, window, refunds>>, faults' \in 0..MaxFaults
  PROVE  RetryInv'
<1>1. order.retries <= order'.retries /\ order' \in OrderType
  BY DEF RetryInv, OrderInv, OrderType
<1>2. next = "idle" \/ Holding(next, l, order', intent')
  BY DEF Holding, Claimed
<1>3. CallsInv'
  BY <1>1, <1>2, CallGoes
<1> QED
  BY <1>3 DEF RetryInv, OrderInv, ListedOnce, Claimed, RestInv

\* A step of a call that writes the order and leaves its list alone or extends it well.
LEMMA OrderWritten ==
  ASSUME RetryInv, NEW p \in Procs, NEW next, NEW l, Goto(p, next, l),
         next = "idle" \/ Holding(next, l, order', intent),
         order' \in OrderType, ListedOnce(order'), order.retries <= order'.retries,
         UNCHANGED <<intent, window, refunds>>, faults' \in 0..MaxFaults
  PROVE  RetryInv'
<1>1. next = "idle" \/ Holding(next, l, order', intent')
  BY DEF Holding
<1>2. CallsInv'
  BY <1>1, CallGoes
<1>3. OrderInv'
  BY DEF OrderInv, ListedOnce, Claimed
<1> QED
  BY <1>2, <1>3 DEF RetryInv, RestInv

\* What a call holds, by its phase.
LEMMA Held ==
  ASSUME RetryInv, NEW p \in Procs
  PROVE  Holding(phase[p], loc[p], order, intent) /\ loc[p] \in LocType
BY DEF RetryInv, CallsInv

\* A fault stays within its bound, and so does a step without one.
LEMMA FaultsBound == ASSUME RetryInv, Fault \/ UNCHANGED faults PROVE faults' \in 0..MaxFaults
BY DEF RetryInv, RestInv, Fault

-----------------------------------------------------------------------------
(* Steps that only move a call on *)

\* A retry begins on the current intent.
LEMMA BeginRetryInv == ASSUME RetryInv, NEW p \in Procs, BeginRetry(p) PROVE RetryInv'
<1> DEFINE l == [NoLoc EXCEPT !.intent = order.current]
           next == IF order.current = 0 THEN "claiming" ELSE "asking"
<1>1. order.current \in Intents \cup {0}
  BY DEF RetryInv, OrderInv, OrderType
<1>2. l \in LocType /\ l.intent = order.current /\ l.paid = FALSE
  BY <1>1, HoldsIntent
<1>3. Goto(p, next, l)
  BY DEF BeginRetry
<1> HIDE DEF l
<1>4. Holding(next, l, order, intent)
  BY <1>2 DEF Holding, Phases
<1> QED
  BY <1>3, <1>4, OnlyTheCall, FaultsBound DEF BeginRetry

\* The current intent is asked about.
LEMMA AskCurrentInv == ASSUME RetryInv, NEW p \in Procs, AskCurrent(p) PROVE RetryInv'
<1>1. loc[p] \in LocType /\ loc[p].intent # 0
  BY Held DEF AskCurrent, Holding
<1>2. Holding("recording", loc[p], order, intent) /\ Holding("claiming", NoLoc, order, intent)
  BY <1>1, NothingHeld DEF Holding, Phases
<1>3. faults' \in 0..MaxFaults
  BY FaultsBound DEF AskCurrent
<1>4. Return(p) \/ Goto(p, "recording", loc[p]) \/ Goto(p, "claiming", NoLoc)
  BY DEF AskCurrent
<1> QED
  BY <1>2, <1>3, <1>4, OnlyTheCall DEF AskCurrent, Return

\* The paid transition reads the order.
LEMMA ReadForPaidInv == ASSUME RetryInv, NEW p \in Procs, ReadForPaid(p) PROVE RetryInv'
<1> DEFINE l == [NoLoc EXCEPT !.status = order.status, !.pay = order.pay]
<1>1. l \in LocType /\ l.paid = FALSE
  BY NothingHeld DEF RetryInv, OrderInv, OrderType, NoLoc, LocType
<1>2. Return(p) \/ Goto(p, "paying", l)
  BY DEF ReadForPaid
<1> HIDE DEF l
<1>3. Holding("paying", l, order, intent)
  BY <1>1 DEF Holding, Phases
<1> QED
  BY <1>2, <1>3, OnlyTheCall, FaultsBound DEF ReadForPaid, Return

\* A success event is taken up.
LEMMA ReceiveSuccessInv == ASSUME RetryInv, NEW p \in Procs, ReceiveSuccess(p) PROVE RetryInv'
<1>1. PICK i \in Intents : Goto(p, "recording", [NoLoc EXCEPT !.intent = i])
  BY DEF ReceiveSuccess
<1>2. Holding("recording", [NoLoc EXCEPT !.intent = i], order, intent)
  <2> DEFINE l == [NoLoc EXCEPT !.intent = i]
  <2>1. l \in LocType /\ l.intent = i
    BY HoldsIntent
  <2>2. i # 0
    BY DEF Intents
  <2> HIDE DEF l
  <2>3. Holding("recording", l, order, intent)
    BY <2>1, <2>2 DEF Holding, Phases
  <2> QED
    BY <2>3 DEF l
<1> QED
  BY <1>1, <1>2, OnlyTheCall, FaultsBound DEF ReceiveSuccess

\* A sweep begins: if some recorded intent is paid, it is among those to check.
LEMMA ListStaleInv == ASSUME RetryInv, NEW p \in Procs, ListStale(p) PROVE RetryInv'
<1> DEFINE paid == \E i \in Recorded : intent[i] = "succeeded"
           l == [NoLoc EXCEPT !.left = IntentsToCheck, !.now = window, !.paid = paid]
<1>1. IntentsToCheck \in Seq(Intents) /\ ToSet(IntentsToCheck) = Recorded
  BY SweepSeesAll DEF RetryInv
<1>2. window \in Windows /\ paid \in BOOLEAN
  BY DEF RetryInv, RestInv
<1> HIDE DEF paid
<1>3. l \in LocType /\ l.left = IntentsToCheck /\ l.paid = paid
  BY <1>1, <1>2, NothingHeld DEF NoLoc, LocType
<1>4. Goto(p, "checking", l)
  BY DEF ListStale, paid
<1> HIDE DEF l
<1>5. paid => \E j \in 1..Len(l.left) : intent[l.left[j]] = "succeeded"
  BY <1>1, <1>3 DEF paid, ToSet
<1>6. Holding("checking", l, order, intent)
  BY <1>3, <1>5 DEF Holding, Phases
<1> QED
  BY <1>4, <1>6, OnlyTheCall, FaultsBound DEF ListStale

\* One intent is checked: a paid one is recorded, an unpaid one is not the paid one
\* that is ahead.
LEMMA CheckIntentInv == ASSUME RetryInv, NEW p \in Procs, CheckIntent(p) PROVE RetryInv'
<1> DEFINE l == loc[p]
           i == Head(l.left)
           rest == [l EXCEPT !.left = Tail(@), !.intent = i]
           first == IF l.intent = 0 THEN intent[i] ELSE rest.first
           on == [rest EXCEPT !.failed = TRUE]
           off == [rest EXCEPT !.first = first]
<1>1. l \in LocType /\ l.left \in Seq(Intents) /\ l.left # <<>>
  BY Held DEF CheckIntent, LocType
<1>2. /\ i \in Intents /\ i # 0 /\ Tail(l.left) \in Seq(Intents) /\ Len(Tail(l.left)) = Len(l.left) - 1
      /\ \A j \in 1..(Len(l.left) - 1) : Tail(l.left)[j] = l.left[j + 1]
      /\ l.left[1] = i
  <2> DEFINE s == l.left
  <2>1. s \in Seq(Intents) /\ s # <<>>
    BY <1>1
  <2> HIDE DEF s
  <2>2. Head(s) \in Intents /\ s[1] = Head(s) /\ Tail(s) \in Seq(Intents) /\ Len(Tail(s)) = Len(s) - 1
    BY <2>1
  <2>3. \A j \in 1..(Len(s) - 1) : Tail(s)[j] = s[j + 1]
    BY <2>1, HeadTailProperties
  <2> QED
    BY <2>2, <2>3 DEF s, Intents
<1>3. rest \in LocType /\ rest.left = Tail(l.left) /\ rest.paid = l.paid /\ rest.failed = l.failed
  BY <1>1, <1>2 DEF LocType
<1>4. intent[i] \in IntentStates
  BY <1>2 DEF RetryInv, RestInv
<1> HIDE DEF rest
<1>5. first \in IntentStates
  BY <1>3, <1>4 DEF LocType
<1> HIDE DEF first
<1>6. /\ on \in LocType /\ on.failed = TRUE
      /\ off \in LocType /\ off.left = Tail(l.left) /\ off.paid = l.paid /\ off.failed = l.failed
  BY <1>3, <1>5 DEF LocType
<1>7. /\ phase[p] = "checking" /\ UNCHANGED <<order, intent, window, refunds>>
      /\ Fault \/ UNCHANGED faults
      /\ \/ Goto(p, "checking", on)
         \/ Goto(p, "recording", [NoLoc EXCEPT !.intent = i])
         \/ intent[i] # "succeeded" /\ Goto(p, "checking", off)
  BY DEF CheckIntent, rest, first
<1> HIDE DEF on, off, i
<1>8. Holding("checking", on, order, intent)
  BY <1>6 DEF Holding, Phases
<1>9. Holding("recording", [NoLoc EXCEPT !.intent = i], order, intent)
  BY <1>2, HoldsIntent DEF Holding, Phases
<1>10. ASSUME intent[i] # "succeeded" PROVE Holding("checking", off, order, intent)
  <2>1. ASSUME l.paid, ~l.failed PROVE \E j \in 1..Len(off.left) : intent[off.left[j]] = "succeeded"
    <3>1. PICK j \in 1..Len(l.left) : intent[l.left[j]] = "succeeded"
      BY <1>7, <2>1, Held DEF Holding
    <3>2. j # 1
      BY <1>2, <1>10, <3>1
    <3>3. (j - 1) \in 1..(Len(l.left) - 1) /\ (j - 1) + 1 = j /\ Len(l.left) \in Nat
      BY <1>1, <3>1, <3>2
    <3>4. Tail(l.left)[j - 1] = l.left[j]
      BY <1>2, <3>3
    <3> QED
      BY <1>2, <1>6, <3>1, <3>3, <3>4
  <2> QED
    BY <1>6, <2>1 DEF Holding, Phases
<1> QED
  BY <1>7, <1>8, <1>9, <1>10, OnlyTheCall, FaultsBound

\* A sweep that decides to expire the order has checked everything without a failure,
\* so nothing recorded was paid when it began.
LEMMA DecidePollInv == ASSUME RetryInv, NEW p \in Procs, DecidePoll(p) PROVE RetryInv'
<1> DEFINE l == [NoLoc EXCEPT !.paid = loc[p].paid]
<1>1. loc[p] \in LocType /\ phase[p] = "checking" /\ loc[p].left = <<>>
  BY Held DEF DecidePoll
<1>2. l \in LocType /\ l.paid = loc[p].paid
  BY <1>1, NothingHeld DEF NoLoc, LocType
<1>3. Return(p) \/ (~loc[p].failed /\ Goto(p, "expiring", l))
  BY DEF DecidePoll, Expires
<1> HIDE DEF l
<1>4. ~loc[p].failed => Holding("expiring", l, order, intent)
  <2>1. Len(loc[p].left) = 0
    BY <1>1
  <2>2. ~loc[p].failed => ~loc[p].paid
    BY <1>1, <2>1, Held DEF Holding
  <2> QED
    BY <1>2, <2>2 DEF Holding, Phases
<1> QED
  BY <1>3, <1>4, OnlyTheCall, FaultsBound DEF DecidePoll, Return

\* A cancellation begins, and reads the order.
LEMMA BeginCancelInv ==
  ASSUME RetryInv, NEW p \in Procs, BeginCancel(p) \/ ReadForCancel(p) PROVE RetryInv'
<1>1. CASE BeginCancel(p)
  <2>1. Holding("expiring", NoLoc, order, intent)
    BY NothingHeld DEF Holding, Phases
  <2> QED
    BY <1>1, <2>1, OnlyTheCall, FaultsBound DEF BeginCancel
<1>2. CASE ReadForCancel(p)
  <2> DEFINE i == RefundIntent
             l == [loc[p] EXCEPT !.status = order.status, !.pay = order.pay, !.intent = i]
  <2>1. order \in OrderType /\ i \in Intents \cup {0}
    BY DEF RetryInv, OrderInv, OrderType, RefundIntent
  <2>2. loc[p] \in LocType /\ ~loc[p].paid
    BY <1>2, Held DEF ReadForCancel, Holding
  <2> HIDE DEF i
  <2>3. l \in LocType /\ l.paid = loc[p].paid
    BY <2>1, <2>2 DEF LocType, OrderType
  <2>4. Return(p) \/ Goto(p, "cancelling", l)
    BY <1>2 DEF ReadForCancel, i
  <2> HIDE DEF l
  <2>5. Holding("cancelling", l, order, intent)
    BY <2>2, <2>3 DEF Holding, Phases
  <2> QED
    BY <1>2, <2>4, <2>5, OnlyTheCall, FaultsBound DEF ReadForCancel, Return
<1> QED
  BY <1>1, <1>2

\* A crash ends a call.
LEMMA CrashInv == ASSUME RetryInv, NEW p \in Procs, Crash(p) PROVE RetryInv'
BY OnlyTheCall, FaultsBound DEF Crash, Return

-----------------------------------------------------------------------------
(* Steps that write the order *)

\* The order as it is.
LEMMA OrderNow ==
  ASSUME RetryInv
  PROVE  /\ order \in OrderType /\ ListedOnce(order)
         /\ order.retries \in 0..MaxRetries /\ order.ids \in Seq(Intents)
BY DEF RetryInv, OrderInv, OrderType

\* A write that leaves the attempts, the list and the current intent keeps the list good.
LEMMA ListKept ==
  ASSUME RetryInv, NEW o, o.ids = order.ids, o.retries = order.retries, o.current = order.current
  PROVE  ListedOnce(o) /\ order.retries <= o.retries
BY OrderNow DEF ListedOnce, Claimed

\* A claim opens one attempt more, whose number is the caller's intent.
LEMMA ClaimSlotInv == ASSUME RetryInv, NEW p \in Procs, ClaimSlot(p) PROVE RetryInv'
<1>1. CASE Return(p) /\ UNCHANGED order
  BY <1>1, OnlyTheCall, FaultsBound DEF ClaimSlot, Return
<1>2. CASE Claimable /\ ~(Return(p) /\ UNCHANGED order)
  <2> DEFINE r == order.retries + 1
             i == order.retries + 2
             l == [NoLoc EXCEPT !.intent = i]
  <2>1. r \in 0..MaxRetries /\ i \in 1..(MaxRetries + 2) /\ i = r + 1
    BY <1>2, OrderNow DEF Claimable
  <2>2. order' = [order EXCEPT !.retries = r, !.recent = TRUE] /\ Goto(p, "creating", l)
    BY <1>2 DEF ClaimSlot
  <2>3. i \in Intents
    BY <2>1 DEF Intents
  <2>4. l \in LocType /\ l.intent = i /\ l.paid = FALSE
    BY <2>3, HoldsIntent
  <2>5. /\ order' \in OrderType /\ order'.retries = r /\ order'.ids = order.ids
        /\ order'.current = order.current
    <3> HIDE DEF r
    <3> QED
      BY <2>1, <2>2, OrderNow DEF OrderType
  <2>6. ListedOnce(order') /\ order.retries <= order'.retries
    BY <2>1, <2>5, OrderNow DEF ListedOnce, Claimed
  <2> HIDE DEF l, i
  <2>7. Holding("creating", l, order', intent)
    BY <2>1, <2>4, <2>5 DEF Holding, Phases, Claimed
  <2>8. faults' \in 0..MaxFaults /\ UNCHANGED <<intent, window, refunds>>
    BY FaultsBound DEF ClaimSlot
  <2> QED
    BY <2>2, <2>5, <2>6, <2>7, <2>8, OrderWritten
<1> QED
  BY <1>1, <1>2 DEF ClaimSlot

\* The intent of a claimed attempt becomes the current one.
LEMMA LinkIntentInv == ASSUME RetryInv, NEW p \in Procs, LinkIntent(p) PROVE RetryInv'
<1> DEFINE i == loc[p].intent
<1>1. loc[p] \in LocType /\ i \in Claimed(order) /\ Claimed(order) \subseteq Intents
  BY Held, OrderNow DEF LinkIntent, Holding, Claimed, Intents
<1>2. /\ Goto(p, "listing", loc[p]) /\ faults' \in 0..MaxFaults
      /\ UNCHANGED <<intent, window, refunds>>
      /\ order' = order \/ order' = [order EXCEPT !.current = i]
  BY FaultsBound DEF LinkIntent
<1> HIDE DEF i
<1>3. /\ order' \in OrderType /\ order'.retries = order.retries /\ order'.ids = order.ids
      /\ order'.current = order.current \/ order'.current = i
  BY <1>1, <1>2, OrderNow DEF OrderType
<1>4. ListedOnce(order') /\ order.retries <= order'.retries
  BY <1>1, <1>3, OrderNow DEF ListedOnce, Claimed
<1>5. Holding("listing", loc[p], order', intent)
  BY <1>1, <1>3 DEF Holding, Phases, Claimed, i
<1> QED
  BY <1>2, <1>3, <1>4, <1>5, OrderWritten

\* The list takes an intent once.
LEMMA ListIntentInv == ASSUME RetryInv, NEW p \in Procs, ListIntent(p) PROVE RetryInv'
<1> DEFINE i == loc[p].intent
           ids == IF Contains(order.ids, i) THEN order.ids ELSE Append(order.ids, i)
<1>1. loc[p] \in LocType /\ i \in Claimed(order) /\ Claimed(order) \subseteq Intents
  BY Held, OrderNow DEF ListIntent, Holding, Claimed, Intents
<1>2. /\ Return(p) /\ faults' \in 0..MaxFaults
      /\ UNCHANGED <<intent, window, refunds>>
      /\ order' = order \/ order' = [order EXCEPT !.ids = ids, !.refundOn = i]
  BY FaultsBound DEF ListIntent
<1>3. /\ ids \in Seq(Intents) /\ Distinct(ids)
      /\ \A a \in 1..Len(ids) : ids[a] \in Claimed(order)
  <2>1. /\ order.ids \in Seq(Intents) /\ Distinct(order.ids)
        /\ \A a \in 1..Len(order.ids) : order.ids[a] \in Claimed(order)
    BY OrderNow DEF ListedOnce, Distinct
  <2>2. CASE Contains(order.ids, i)
    BY <2>1, <2>2
  <2>3. CASE ~Contains(order.ids, i)
    <3> DEFINE s == order.ids
               t == Append(s, i)
    <3>1. /\ t \in Seq(Intents) /\ Len(t) = Len(s) + 1 /\ t[Len(s) + 1] = i
          /\ \A a \in 1..Len(s) : t[a] = s[a]
      BY <1>1, <2>1
    <3>2. \A a \in 1..Len(s) : s[a] # i
      BY <2>3 DEF Contains
    <3>3. ids = t
      BY <2>3
    <3>4. Len(s) \in Nat
      BY <2>1
    <3> HIDE DEF t, s, ids, i
    <3>5. \A a \in 1..Len(t) : a = Len(s) + 1 \/ a \in 1..Len(s)
      BY <3>1, <3>4
    <3>6. \A a \in 1..Len(s) : t[a] # i
      BY <3>1, <3>2
    <3>7. Distinct(t)
      BY <2>1, <3>1, <3>5, <3>6 DEF Distinct, s
    <3>8. \A a \in 1..Len(t) : t[a] \in Claimed(order)
      BY <1>1, <2>1, <3>1, <3>5 DEF s
    <3> QED
      BY <3>1, <3>3, <3>7, <3>8
  <2> QED
    BY <2>2, <2>3
<1> HIDE DEF i, ids
<1>4. CASE order' = order
  BY <1>2, <1>4, OnlyTheCall DEF Return
<1>5. CASE order' = [order EXCEPT !.ids = ids, !.refundOn = i]
  <2>1. /\ order' \in OrderType /\ order'.retries = order.retries /\ order'.ids = ids
        /\ order'.current = order.current
    BY <1>1, <1>3, <1>5, OrderNow DEF OrderType
  <2>2. ListedOnce(order') /\ order.retries <= order'.retries
    BY <1>3, <2>1, OrderNow DEF ListedOnce, Claimed, Distinct
  <2> QED
    BY <1>2, <2>1, <2>2, OrderWritten DEF Return
<1> QED
  BY <1>2, <1>4, <1>5

\* The paying intent is noted.
LEMMA RecordPaidIntentInv == ASSUME RetryInv, NEW p \in Procs, RecordPaidIntent(p) PROVE RetryInv'
<1> DEFINE i == loc[p].intent
<1>1. i \in Intents
  BY Held DEF RecordPaidIntent, Holding, LocType
<1>2. /\ Goto(p, "reading", NoLoc) /\ faults' \in 0..MaxFaults
      /\ UNCHANGED <<intent, window, refunds>>
      /\ \/ order' = order
         \/ order' = [order EXCEPT !.extra = @ \cup {i}]
         \/ order' = [order EXCEPT !.paidBy = i, !.refundOn = i]
  BY FaultsBound DEF RecordPaidIntent, PaidIntentPatch
<1> HIDE DEF i
<1>3. /\ order' \in OrderType /\ order'.ids = order.ids /\ order'.retries = order.retries
      /\ order'.current = order.current
  <2>1. CASE order' = order
    BY <2>1, OrderNow
  <2>2. CASE order' = [order EXCEPT !.extra = @ \cup {i}]
    <3> DEFINE extra == order.extra \cup {i}
    <3>1. extra \in SUBSET Intents
      BY <1>1, OrderNow DEF OrderType
    <3>2. order' = [order EXCEPT !.extra = extra]
      BY <2>2
    <3> HIDE DEF extra
    <3> QED
      BY <3>1, <3>2, OrderNow DEF OrderType
  <2>3. CASE order' = [order EXCEPT !.paidBy = i, !.refundOn = i]
    BY <1>1, <2>3, OrderNow DEF OrderType
  <2> QED
    BY <1>2, <2>1, <2>2, <2>3
<1>4. ListedOnce(order') /\ order.retries <= order'.retries
  BY <1>3, ListKept
<1>5. Holding("reading", NoLoc, order', intent)
  BY NothingHeld DEF Holding, Phases
<1> QED
  BY <1>2, <1>3, <1>4, <1>5, OrderWritten

\* The paid transition, the cancellation and the record of the refund write the two
\* status columns only.
LEMMA StatusColumns ==
  ASSUME RetryInv, NEW p \in Procs, NEW next, NEW l, Goto(p, next, l),
         next = "idle" \/ Holding(next, l, order, intent),
         NEW status \in {"pending", "confirmed", "cancelled"}, NEW pay \in {"pending", "paid", "refunded"},
         order' = [order EXCEPT !.pay = pay, !.status = status],
         UNCHANGED <<intent, window, refunds>>, faults' \in 0..MaxFaults
  PROVE  RetryInv'
<1>1. /\ order' \in OrderType /\ order'.ids = order.ids /\ order'.retries = order.retries
      /\ order'.current = order.current
  BY OrderNow DEF OrderType
<1>2. ListedOnce(order') /\ order.retries <= order'.retries
  BY <1>1, ListKept
<1>3. next = "idle" \/ Holding(next, l, order', intent)
  BY <1>1 DEF Holding, Claimed
<1> QED
  BY <1>1, <1>2, <1>3, OrderWritten

\* The paid transition.
LEMMA MarkPaidInv == ASSUME RetryInv, NEW p \in Procs, MarkPaid(p) PROVE RetryInv'
<1> DEFINE status == IF AutoAccept /\ loc[p].status = "pending" THEN "confirmed" ELSE loc[p].status
<1>1. status \in {"pending", "confirmed", "cancelled"}
  BY Held DEF LocType
<1>2. /\ Return(p) /\ faults' \in 0..MaxFaults /\ UNCHANGED <<intent, window, refunds>>
      /\ order' = order \/ order' = [order EXCEPT !.pay = "paid", !.status = status]
  BY FaultsBound DEF MarkPaid
<1> HIDE DEF status
<1>3. CASE order' = order
  BY <1>2, <1>3, OnlyTheCall DEF Return
<1>4. CASE order' = [order EXCEPT !.pay = "paid", !.status = status]
  BY <1>1, <1>2, <1>4, StatusColumns DEF Return
<1> QED
  BY <1>2, <1>3, <1>4

\* The cancellation, and what follows when the order had been paid.
LEMMA CancelUnpaidInv == ASSUME RetryInv, NEW p \in Procs, CancelUnpaid(p) PROVE RetryInv'
<1> DEFINE l == loc[p]
<1>1. l \in LocType /\ l.pay \in {"pending", "paid", "refunded"}
  BY Held DEF LocType
<1>2. Holding("refunding", l, order, intent)
  BY <1>1 DEF Holding, Phases
<1>3. /\ Return(p) \/ Goto(p, "refunding", l)
      /\ faults' \in 0..MaxFaults /\ UNCHANGED <<intent, window, refunds>>
      /\ order' = order \/ order' = [order EXCEPT !.status = "cancelled", !.pay = l.pay]
  BY FaultsBound DEF CancelUnpaid
<1> HIDE DEF l
<1>4. CASE order' = order
  BY <1>2, <1>3, <1>4, OnlyTheCall DEF Return
<1>5. CASE order' = [order EXCEPT !.status = "cancelled", !.pay = l.pay]
  <2> DEFINE pay == l.pay
  <2>1. pay \in {"pending", "paid", "refunded"} /\ order \in OrderType
    BY <1>1, OrderNow
  <2> HIDE DEF pay
  <2>2. order' = [order EXCEPT !.pay = pay, !.status = "cancelled"]
    BY <1>5, <2>1 DEF OrderType, pay
  <2> QED
    BY <1>2, <1>3, <2>1, <2>2, StatusColumns DEF Return
<1> QED
  BY <1>3, <1>4, <1>5

\* The refund is recorded.
LEMMA RecordRefundInv == ASSUME RetryInv, NEW p \in Procs, RecordRefund(p) PROVE RetryInv'
<1>1. /\ Return(p) /\ faults' \in 0..MaxFaults /\ UNCHANGED <<intent, window, refunds>>
      /\ order' = order \/ order' = [order EXCEPT !.pay = "refunded", !.status = "cancelled"]
  BY FaultsBound DEF RecordRefund
<1>2. CASE order' = order
  BY <1>1, <1>2, OnlyTheCall DEF Return
<1>3. CASE order' = [order EXCEPT !.pay = "refunded", !.status = "cancelled"]
  BY <1>1, <1>3, StatusColumns DEF Return
<1> QED
  BY <1>1, <1>2, <1>3

-----------------------------------------------------------------------------
(* Treasury and time *)

\* What calls hold while only treasury, time or the spacing between retries moves.
LEMMA CallsStay ==
  ASSUME RetryInv, UNCHANGED <<phase, loc>>, order' \in OrderType, order'.retries = order.retries,
         \A i \in Intents : intent[i] = "succeeded" => intent'[i] = "succeeded"
  PROVE  CallsInv'
<1>1. order.retries \in Nat /\ order'.retries \in Nat /\ order.retries <= order'.retries
  BY OrderNow
<1>2. ASSUME NEW q \in Procs PROVE Holding(phase[q], loc[q], order', intent')
  BY <1>1, StillHolding DEF RetryInv, CallsInv
<1> QED
  BY <1>2 DEF RetryInv, CallsInv

\* Creating an intent never undoes one that is there.
LEMMA CreateIntentInv == ASSUME RetryInv, NEW p \in Procs, CreateIntent(p) PROVE RetryInv'
<1> DEFINE i == loc[p].intent
           s == IF intent[i] = "none" THEN "pending" ELSE intent[i]
<1>1. loc[p] \in LocType /\ i \in Claimed(order)
  BY Held DEF CreateIntent, Holding
<1>2. i \in Intents
  BY <1>1, OrderNow DEF Claimed, Intents
<1>3. Holding("linking", loc[p], order, intent)
  BY <1>1 DEF Holding, Phases
<1>4. CASE Return(p) /\ UNCHANGED intent
  BY <1>4, OnlyTheCall, FaultsBound DEF CreateIntent, Return
<1>5. CASE ~(Return(p) /\ UNCHANGED intent)
  <2>1. /\ intent' = [intent EXCEPT ![i] = s] /\ Goto(p, "linking", loc[p])
        /\ UNCHANGED <<order, window, refunds, faults>>
    BY <1>5 DEF CreateIntent
  <2>2. intent \in [Intents -> IntentStates] /\ s \in IntentStates
    BY <1>2 DEF RetryInv, RestInv, IntentStates
  <2>3. /\ intent' \in [Intents -> IntentStates]
        /\ \A j \in Intents : intent[j] = "succeeded" => intent'[j] = "succeeded"
    BY <1>2, <2>1, <2>2
  <2>4. Holding("linking", loc[p], order', intent')
    BY <1>3, <2>1 DEF Holding, Claimed
  <2> HIDE DEF i, s
  <2>5. order' \in OrderType /\ order.retries <= order'.retries
    BY <2>1, OrderNow
  <2>6. CallsInv'
    BY <2>1, <2>3, <2>4, <2>5, CallGoes
  <2> QED
    BY <2>1, <2>3, <2>6 DEF RetryInv, OrderInv, ListedOnce, Claimed, RestInv
<1> QED
  BY <1>4, <1>5

\* A refund is asked of treasury.
LEMMA AskRefundInv == ASSUME RetryInv, NEW p \in Procs, AskRefund(p) PROVE RetryInv'
<1>1. loc[p] \in LocType
  BY Held
<1>2. Holding("stamping", loc[p], order, intent)
  BY <1>1 DEF Holding, Phases
<1>3. CASE Return(p) /\ UNCHANGED refunds
  BY <1>3, OnlyTheCall, FaultsBound DEF AskRefund, Return
<1>4. CASE ~(Return(p) /\ UNCHANGED refunds)
  <2>1. /\ loc[p].intent # 0 /\ refunds' = refunds \cup {loc[p].intent}
        /\ Goto(p, "stamping", loc[p]) /\ UNCHANGED <<order, intent, window, faults>>
    BY <1>4 DEF AskRefund
  <2>2. refunds' \subseteq Intents
    BY <1>1, <2>1 DEF RetryInv, RestInv, LocType
  <2>3. Holding("stamping", loc[p], order', intent')
    BY <1>2, <2>1 DEF Holding, Claimed
  <2>4. CallsInv'
    BY <2>1, <2>3, OrderNow, CallGoes
  <2> QED
    BY <2>1, <2>2, <2>4 DEF RetryInv, OrderInv, ListedOnce, Claimed, RestInv
<1> QED
  BY <1>3, <1>4

\* A payment that has succeeded stays so; time only passes.
LEMMA EnvironmentInv == ASSUME RetryInv, Environment PROVE RetryInv'
<1>1. CASE WindowMoves
  <2>1. window' \in Windows /\ UNCHANGED <<order, intent, phase, loc, refunds, faults>>
    BY <1>1 DEF WindowMoves, Windows
  <2>2. CallsInv'
    BY <2>1, OrderNow, CallsStay
  <2> QED
    BY <2>1, <2>2 DEF RetryInv, OrderInv, ListedOnce, Claimed, RestInv
<1>2. CASE SpacingPasses
  <2>1. order' = [order EXCEPT !.recent = FALSE] /\ UNCHANGED <<intent, window, phase, loc, refunds, faults>>
    BY <1>2 DEF SpacingPasses
  <2>2. /\ order' \in OrderType /\ order'.ids = order.ids /\ order'.retries = order.retries
        /\ order'.current = order.current
    BY <2>1, OrderNow DEF OrderType
  <2>3. ListedOnce(order')
    BY <2>2, ListKept
  <2>4. CallsInv'
    BY <2>1, <2>2, CallsStay
  <2> QED
    BY <2>1, <2>2, <2>3, <2>4 DEF RetryInv, OrderInv, ListedOnce, Claimed, RestInv
<1>3. ASSUME NEW i \in Intents, TreasuryMoves(i) PROVE RetryInv'
  <2>1. PICK s \in IntentStates : intent' = [intent EXCEPT ![i] = s] /\ intent[i] # "succeeded"
    BY <1>3 DEF TreasuryMoves, IntentStates
  <2>2. UNCHANGED <<order, window, phase, loc, refunds, faults>>
    BY <1>3 DEF TreasuryMoves
  <2>3. /\ intent' \in [Intents -> IntentStates]
        /\ \A j \in Intents : intent[j] = "succeeded" => intent'[j] = "succeeded"
    BY <2>1 DEF RetryInv, RestInv
  <2>4. CallsInv'
    BY <2>2, <2>3, OrderNow, CallsStay
  <2> QED
    BY <2>2, <2>3, <2>4 DEF RetryInv, OrderInv, ListedOnce, Claimed, RestInv
<1> QED
  BY <1>1, <1>2, <1>3 DEF Environment

-----------------------------------------------------------------------------
(* The theorems *)

\* An order fresh from the checkout, with its first intent or without one.
LEMMA RetryInitial == ASSUME Init PROVE RetryInv
<1>1. PICK i \in {0, 1} :
        /\ order = [status |-> "pending", pay |-> "pending", current |-> i,
                    ids |-> IF i = 0 THEN <<>> ELSE <<i>>, refundOn |-> i,
                    paidBy |-> 0, extra |-> {}, retries |-> 0, recent |-> FALSE]
        /\ intent = [j \in Intents |-> IF j = i THEN "pending" ELSE "none"]
  BY DEF Init
<1>2. 1 \in Intents
  BY DEF Intents
<1> DEFINE ids == IF i = 0 THEN <<>> ELSE <<i>>
<1>3. /\ ids \in Seq(Intents) /\ Len(ids) \in {0, 1}
      /\ \A a \in 1..Len(ids) : a = 1 /\ ids[a] = 1
      /\ i \in Intents \cup {0}
  BY <1>2
<1> HIDE DEF ids
<1>4. order = [status |-> "pending", pay |-> "pending", current |-> i, ids |-> ids, refundOn |-> i,
               paidBy |-> 0, extra |-> {}, retries |-> 0, recent |-> FALSE]
  BY <1>1 DEF ids
<1>5. OrderInv
  BY <1>3, <1>4 DEF OrderInv, OrderType, ListedOnce, Claimed
<1>6. intent \in [Intents -> IntentStates]
  BY <1>1 DEF IntentStates
<1>7. CallsInv
  BY NothingHeld DEF Init, CallsInv, Holding, Phases
<1> QED
  BY <1>5, <1>6, <1>7 DEF Init, RetryInv, RestInv, Windows

\* Every step keeps the invariant.
LEMMA RetryStep == ASSUME RetryInv, [Next]_vars PROVE RetryInv'
<1>1. ASSUME NEW p \in Procs, Paid(p) PROVE RetryInv'
  BY <1>1, RecordPaidIntentInv, ReadForPaidInv, MarkPaidInv DEF Paid
<1>2. ASSUME NEW p \in Procs, Cancel(p) PROVE RetryInv'
  BY <1>2, BeginCancelInv, CancelUnpaidInv, AskRefundInv, RecordRefundInv DEF Cancel
<1>3. ASSUME NEW c \in Callers, Caller(c) PROVE RetryInv'
  BY <1>1, <1>3, BeginRetryInv, AskCurrentInv, ClaimSlotInv, CreateIntentInv, LinkIntentInv,
     ListIntentInv DEF Caller, Procs
<1>4. ASSUME NEW k \in Consumers, Consumer(k) PROVE RetryInv'
  BY <1>1, <1>4, ReceiveSuccessInv DEF Consumer, Procs
<1>5. ASSUME NEW p \in Pollers, Poller(p) PROVE RetryInv'
  BY <1>1, <1>2, <1>5, ListStaleInv, CheckIntentInv, DecidePollInv DEF Poller, Procs
<1>6. ASSUME NEW s \in Staff, Rejecter(s) PROVE RetryInv'
  BY <1>2, <1>6, BeginCancelInv DEF Rejecter, Procs
<1>7. ASSUME NEW p \in Procs, Crash(p) PROVE RetryInv'
  BY <1>7, CrashInv
<1>8. CASE UNCHANGED vars
  <2>1. UNCHANGED <<order, intent, window, phase, loc, refunds, faults>>
    BY <1>8 DEF vars
  <2>2. CallsInv'
    BY <2>1, OrderNow, CallsStay
  <2> QED
    BY <2>1, <2>2 DEF RetryInv, OrderInv, ListedOnce, Claimed, RestInv
<1> QED
  BY <1>3, <1>4, <1>5, <1>6, <1>7, <1>8, EnvironmentInv DEF Next

\* The invariant holds however retries, events, sweeps and cancellations interleave.
THEOREM RetryInvariant == Spec => []RetryInv
<1> QED
  BY RetryInitial, RetryStep, PTL DEF Spec

\* The order's columns, the intents and the calls are always well formed; in
\* particular no retry beyond the cap is claimed.
THEOREM RetryTypes == Spec => []TypeOK
<1>1. RetryInv => TypeOK
  BY DEF RetryInv, OrderInv, CallsInv, RestInv, TypeOK
<1> QED
  BY <1>1, RetryInvariant, PTL

\* Every intent the order records is one the poller asks about, for any cap on
\* retries: claims race, but each lists its own attempt once.
THEOREM PollerAlwaysSeesEveryIntent == Spec => []PollerSeesEveryIntent
<1>1. RetryInv => PollerSeesEveryIntent
  BY SweepSeesAll DEF RetryInv, PollerSeesEveryIntent
<1> QED
  BY <1>1, RetryInvariant, PTL

\* A sweep never cancels an order one of whose recorded intents had been paid when it
\* began, whatever failed and whoever else was at work.
THEOREM PaidBeforeSweepAlwaysKept == Spec => []PaidBeforeSweepKept
<1>1. RetryInv => PaidBeforeSweepKept
  BY DEF RetryInv, CallsInv, Holding, PaidBeforeSweepKept, Procs
<1> QED
  BY <1>1, RetryInvariant, PTL

-----------------------------------------------------------------------------
(* Payments listed as extra *)

\* The paying intent has succeeded, and so has every intent a call is about to note.
NotedSucceeded == \A p \in Procs : phase[p] = "recording" => loc[p].intent \in Succeeded

SuccessInv == order.paidBy \in Succeeded \cup {0} /\ NotedSucceeded /\ ExtraMeansPaidTwice

\* A payment made stays made.
LEMMA SuccessStays == ASSUME RetryInv, [Next]_vars PROVE Succeeded \subseteq Succeeded'
<1> SUFFICES ASSUME NEW i \in Intents, intent[i] = "succeeded" PROVE intent'[i] = "succeeded"
  BY DEF Succeeded
<1>1. intent \in [Intents -> IntentStates]
  BY DEF RetryInv, RestInv
<1>2. CASE intent' = intent
  BY <1>2
<1>3. ASSUME NEW p \in Procs, CreateIntent(p) PROVE intent'[i] = "succeeded"
  BY <1>1, <1>3 DEF CreateIntent
<1>4. ASSUME NEW j \in Intents, TreasuryMoves(j) PROVE intent'[i] = "succeeded"
  BY <1>1, <1>4 DEF TreasuryMoves
<1>5. ASSUME NEW p \in Procs, Paid(p) \/ Cancel(p) \/ Crash(p) PROVE intent' = intent
  BY <1>5 DEF Paid, Cancel, RecordPaidIntent, ReadForPaid, MarkPaid, ReadForCancel, CancelUnpaid,
     AskRefund, RecordRefund, Crash
<1>6. ASSUME NEW c \in Callers, Caller(c), ~CreateIntent(c) PROVE intent' = intent
  BY <1>5, <1>6 DEF Caller, BeginRetry, AskCurrent, ClaimSlot, LinkIntent, ListIntent, Procs
<1>7. ASSUME NEW k \in Consumers, Consumer(k) PROVE intent' = intent
  BY <1>5, <1>7 DEF Consumer, ReceiveSuccess, Procs
<1>8. ASSUME NEW p \in Pollers, Poller(p) PROVE intent' = intent
  BY <1>5, <1>8 DEF Poller, ListStale, CheckIntent, DecidePoll, Procs
<1>9. ASSUME NEW s \in Staff, Rejecter(s) PROVE intent' = intent
  BY <1>5, <1>9 DEF Rejecter, BeginCancel, Procs
<1>10. CASE UNCHANGED vars \/ WindowMoves \/ SpacingPasses
  BY <1>2, <1>10 DEF vars, WindowMoves, SpacingPasses
<1> QED
  BY <1>2, <1>3, <1>4, <1>5, <1>6, <1>7, <1>8, <1>9, <1>10 DEF Next, Environment, Procs

\* Only noting a payment writes the paying intent and the extra ones.
LEMMA PaidColumnsStay ==
  ASSUME RetryInv, [Next]_vars, \A p \in Procs : ~RecordPaidIntent(p)
  PROVE  order'.paidBy = order.paidBy /\ order'.extra = order.extra
<1> DEFINE Same == order'.paidBy = order.paidBy /\ order'.extra = order.extra
<1>1. order \in OrderType
  BY OrderNow
<1>2. CASE order' = order
  BY <1>2
<1>3. ASSUME NEW p \in Procs, ClaimSlot(p) \/ LinkIntent(p) \/ ListIntent(p) PROVE Same
  BY <1>1, <1>3 DEF ClaimSlot, LinkIntent, ListIntent, OrderType
<1>4. ASSUME NEW p \in Procs, MarkPaid(p) \/ CancelUnpaid(p) \/ RecordRefund(p) PROVE Same
  BY <1>1, <1>4 DEF MarkPaid, CancelUnpaid, RecordRefund, OrderType
<1>5. CASE SpacingPasses
  BY <1>1, <1>5 DEF SpacingPasses, OrderType
<1>6. ASSUME NEW p \in Procs, Paid(p) \/ Cancel(p) PROVE Same
  BY <1>2, <1>4, <1>6 DEF Paid, Cancel, ReadForPaid, ReadForCancel, AskRefund
<1>7. ASSUME NEW c \in Callers, Caller(c) PROVE Same
  BY <1>2, <1>3, <1>6, <1>7 DEF Caller, BeginRetry, AskCurrent, CreateIntent, Procs
<1>8. ASSUME NEW k \in Consumers, Consumer(k) PROVE Same
  BY <1>2, <1>6, <1>8 DEF Consumer, ReceiveSuccess, Procs
<1>9. ASSUME NEW p \in Pollers, Poller(p) PROVE Same
  BY <1>2, <1>6, <1>9 DEF Poller, ListStale, CheckIntent, DecidePoll, Procs
<1>10. ASSUME NEW s \in Staff, Rejecter(s) PROVE Same
  BY <1>2, <1>6, <1>10 DEF Rejecter, BeginCancel, Procs
<1>11. CASE UNCHANGED vars \/ Environment \/ \E p \in Procs : Crash(p)
  BY <1>2, <1>5, <1>11 DEF vars, Environment, WindowMoves, TreasuryMoves, Crash
<1> QED
  BY <1>7, <1>8, <1>9, <1>10, <1>11 DEF Next

\* A call that does not come to note a payment leaves the others' as they are.
LEMMA NotedStay ==
  ASSUME RetryInv, NotedSucceeded, Succeeded \subseteq Succeeded', NEW p \in Procs, NEW next, NEW l,
         Goto(p, next, l), next = "recording" => l.intent \in Succeeded
  PROVE  NotedSucceeded'
<1>1. phase \in [Procs -> Phases] /\ loc \in [Procs -> LocType]
  BY DEF RetryInv, CallsInv
<1>2. \A q \in Procs \ {p} : phase'[q] = phase[q] /\ loc'[q] = loc[q]
  BY <1>1 DEF Goto
<1>3. phase'[p] = next /\ (next = "recording" => loc'[p] = l)
  BY <1>1 DEF Goto
<1> QED
  BY <1>2, <1>3 DEF NotedSucceeded

\* A call comes to note an intent only when treasury has said that it succeeded.
LEMMA NotedStep ==
  ASSUME RetryInv, NotedSucceeded, [Next]_vars PROVE NotedSucceeded'
<1>1. Succeeded \subseteq Succeeded' /\ order \in OrderType
  BY SuccessStays, OrderNow
<1>2. ASSUME NEW p \in Procs, NEW next \in Phases \ {"recording"}, NEW l, Goto(p, next, l)
      PROVE  NotedSucceeded'
  BY <1>1, <1>2, NotedStay
<1>3. ASSUME NEW p \in Procs, Return(p) PROVE NotedSucceeded'
  BY <1>2, <1>3 DEF Return, Phases
<1>4. CASE phase' = phase /\ loc' = loc
  BY <1>1, <1>4 DEF NotedSucceeded
<1>5. ASSUME NEW p \in Procs, Paid(p) \/ Cancel(p) \/ Crash(p) PROVE NotedSucceeded'
  BY <1>2, <1>3, <1>5 DEF Paid, Cancel, RecordPaidIntent, ReadForPaid, MarkPaid, ReadForCancel,
     CancelUnpaid, AskRefund, RecordRefund, Crash, Phases
<1>6. ASSUME NEW p \in Procs, AskCurrent(p) PROVE NotedSucceeded'
  <2>1. loc[p].intent \in Intents
    BY <1>6, Held DEF AskCurrent, Holding, LocType
  <2>2. CASE Goto(p, "recording", loc[p]) /\ intent[loc[p].intent] = "succeeded"
    BY <1>1, <2>1, <2>2, NotedStay DEF Succeeded
  <2> QED
    BY <1>2, <1>3, <1>6, <2>2 DEF AskCurrent, Phases
<1>7. ASSUME NEW p \in Procs, BeginRetry(p) \/ ClaimSlot(p) \/ CreateIntent(p) \/ LinkIntent(p) \/ ListIntent(p)
      PROVE  NotedSucceeded'
  BY <1>2, <1>3, <1>7 DEF BeginRetry, ClaimSlot, CreateIntent, LinkIntent, ListIntent, Phases
<1>8. ASSUME NEW p \in Procs, ReceiveSuccess(p) PROVE NotedSucceeded'
  <2>1. PICK i \in Intents : intent[i] = "succeeded" /\ Goto(p, "recording", [NoLoc EXCEPT !.intent = i])
    BY <1>8 DEF ReceiveSuccess
  <2>2. [NoLoc EXCEPT !.intent = i].intent = i
    BY HoldsIntent
  <2> QED
    BY <1>1, <2>1, <2>2, NotedStay DEF Succeeded
<1>9. ASSUME NEW p \in Procs, CheckIntent(p) PROVE NotedSucceeded'
  <2> DEFINE i == Head(loc[p].left)
             l == [NoLoc EXCEPT !.intent = i]
  <2>1. i \in Intents
    BY <1>9, Held, HeadTailProperties DEF CheckIntent, LocType
  <2>2. l.intent = i
    BY <2>1, HoldsIntent
  <2>3. CASE Goto(p, "recording", l) /\ intent[i] = "succeeded"
    <3> HIDE DEF i, l
    <3> QED
      BY <1>1, <2>1, <2>2, <2>3, NotedStay DEF Succeeded
  <2>4. (Goto(p, "recording", l) /\ intent[i] = "succeeded") \/ \E m : Goto(p, "checking", m)
    BY <1>9 DEF CheckIntent
  <2> QED
    BY <1>2, <2>3, <2>4 DEF Phases
<1>10. ASSUME NEW p \in Procs, ListStale(p) \/ DecidePoll(p) \/ BeginCancel(p) PROVE NotedSucceeded'
  BY <1>2, <1>3, <1>10 DEF ListStale, DecidePoll, BeginCancel, Phases
<1>11. CASE UNCHANGED vars \/ Environment
  BY <1>4, <1>11 DEF vars, Environment, WindowMoves, SpacingPasses, TreasuryMoves
<1> QED
  BY <1>5, <1>6, <1>7, <1>8, <1>9, <1>10, <1>11 DEF Next, Caller, Consumer, Poller, Rejecter, Procs

\* Noting a payment: an intent is listed as extra only beside another one that paid.
LEMMA SuccessStep == RetryInv /\ SuccessInv /\ [Next]_vars => SuccessInv'
<1> SUFFICES ASSUME RetryInv, SuccessInv, [Next]_vars PROVE SuccessInv'
  OBVIOUS
<1>1. NotedSucceeded' /\ Succeeded \subseteq Succeeded' /\ order \in OrderType
  BY NotedStep, SuccessStays, OrderNow DEF SuccessInv
<1>2. CASE \A p \in Procs : ~RecordPaidIntent(p)
  <2>1. order'.paidBy = order.paidBy /\ order'.extra = order.extra
    BY <1>2, PaidColumnsStay
  <2> QED
    BY <1>1, <2>1 DEF SuccessInv, ExtraMeansPaidTwice
<1>3. ASSUME NEW p \in Procs, RecordPaidIntent(p) PROVE SuccessInv'
  <2> DEFINE i == loc[p].intent
  <2>1. i \in Succeeded
    BY <1>3 DEF RecordPaidIntent, SuccessInv, NotedSucceeded
  <2>2. \/ order' = order
        \/ order' = [order EXCEPT !.extra = @ \cup {i}] /\ order.paidBy \notin {0, i}
        \/ order' = [order EXCEPT !.paidBy = i, !.refundOn = i]
    BY <1>3 DEF RecordPaidIntent, PaidIntentPatch
  <2> HIDE DEF i
  <2>3. CASE order' = order
    BY <1>1, <2>3 DEF SuccessInv, ExtraMeansPaidTwice
  <2>4. CASE order' = [order EXCEPT !.extra = @ \cup {i}] /\ order.paidBy \notin {0, i}
    <3>1. order'.paidBy = order.paidBy /\ order'.extra = order.extra \cup {i}
      BY <1>1, <2>4 DEF OrderType
    <3> QED
      BY <1>1, <2>1, <2>4, <3>1 DEF SuccessInv, ExtraMeansPaidTwice
  <2>5. CASE order' = [order EXCEPT !.paidBy = i, !.refundOn = i]
    <3>1. order'.paidBy = i /\ order'.extra = order.extra
      BY <1>1, <2>5 DEF OrderType
    <3> QED
      BY <1>1, <2>1, <3>1 DEF SuccessInv, ExtraMeansPaidTwice
  <2> QED
    BY <2>2, <2>3, <2>4, <2>5
<1> QED
  BY <1>2, <1>3

\* A payment is listed as one to give back only if treasury has taken two, however
\* often a success is found, by the event, a sweep or a retry, and whatever has become
\* of the order's payment status meanwhile.
THEOREM ExtraAlwaysMeansPaidTwice == Spec => []ExtraMeansPaidTwice
<1>1. Init => SuccessInv
  BY DEF Init, SuccessInv, NotedSucceeded, ExtraMeansPaidTwice
<1>2. SuccessInv => ExtraMeansPaidTwice
  BY DEF SuccessInv
<1> QED
  BY <1>1, <1>2, SuccessStep, RetryInvariant, PTL DEF Spec

=============================================================================
