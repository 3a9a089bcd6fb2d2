--------------------------- MODULE OrderPromiseProofs ---------------------------
(***************************************************************************)
(* While only status calls are made on an order, OrderLifecycle implements *)
(* OrderPromise, for every number of racing workers and every order.       *)
(***************************************************************************)
EXTENDS OrderLifecycleProofs

OnlyStatusCalls == Calls \subseteq StatusCalls

HasEnded(r) == r.delivered \/ r.completed

\* A copy of the row whose timestamps and payment follow from its status: two
\* copies with one status owe the same effects.
Shows(r) ==
  /\ r.status \in Ended => HasEnded(r)
  /\ r.status \notin Ended \cup {"refunded"} => ~HasEnded(r)
  /\ r.pay = "paid" <=> terms.method = "cod" /\ HasEnded(r)

\* The history is what the row's status says it must be.
HistoryFits ==
  /\ granted["finalize"] = (IF HasEnded(row) THEN 1 ELSE 0)
  /\ granted["settle"] <= (IF HasEnded(row) THEN 1 ELSE 0)
  /\ granted["handoff"] <= (IF row.status = "pending" THEN 0 ELSE 1)
  /\ granted["release"] <= (IF row.status = "cancelled" THEN 1 ELSE 0)
  /\ granted["points"] <= (IF row.status = "cancelled" THEN 1 ELSE 0)
  /\ \A e \in {"refund", "confirmed", "offer", "rating"} : granted[e] = 0

\* Only status calls are in flight, and none of them owes a refund.
OnlyStatusWork(w) ==
  /\ call[w].kind \in StatusCalls
  /\ phase[w] \notin {"verifying", "refunding"}
  /\ todo[w] \cap {"refund", "record"} = {}

Solo ==
  /\ \A w \in Workers : OnlyStatusWork(w) /\ Shows(snap[w])
  /\ Shows(row)
  /\ HistoryFits

\* Nothing is at work in the initial states.
LEMMA SoloInit == Init => Solo
<1> SUFFICES ASSUME Init PROVE Solo
  OBVIOUS
<1>1. Shows(row)
  BY DEF Init, Shows, HasEnded, Ended
<1>2. ASSUME NEW w \in Workers PROVE OnlyStatusWork(w) /\ Shows(snap[w])
  BY DEF Init, OnlyStatusWork, Shows, HasEnded, Ended, NoRow, NoCall, StatusCalls
<1>3. HistoryFits
  BY DEF Init, HistoryFits, HasEnded, Effects
<1> QED
  BY <1>1, <1>2, <1>3 DEF Solo

\* A worker that returns, or goes on to effects other than a refund, is in order.
LEMMA SoloLeft ==
  ASSUME TypeOK, Solo, NEW w \in Workers, NEW effects \in SUBSET Work,
         effects \cap {"refund", "record"} = {}, Left(w, effects), UNCHANGED terms
  PROVE  \A v \in Workers : (OnlyStatusWork(v) /\ Shows(snap[v]))'
<1>1. (OnlyStatusWork(w) /\ Shows(snap[w]))'
  BY DEF Left, TypeOK, Solo, OnlyStatusWork, Shows, HasEnded, Ended, NoRow, NoCall,
         StatusCalls
<1>2. ASSUME NEW v \in Workers \ {w} PROVE (OnlyStatusWork(v) /\ Shows(snap[v]))'
  BY DEF Left, TypeOK, Solo, OnlyStatusWork, Shows, HasEnded
<1> QED
  BY <1>1, <1>2

\* The abstract order decides with the same rules.
LEMMA SameRules ==
  /\ Promise!Effects = Effects
  /\ \A from, to : Promise!CanTransition(from, to) <=> CanTransition(from, to)
  /\ \A t, from, to : Promise!FulfilmentAllows(t, from, to) <=> FulfilmentAllows(t, from, to)
BY DEF Promise!Effects, Effects, Promise!CanTransition, CanTransition, Promise!Edges,
       Edges, Promise!FulfilmentAllows, FulfilmentAllows

\* What a status call that won its write owes is what the edge it took owes.
LEMMA MoveIsPromised ==
  ASSUME TypeOK, Safe, Solo, NEW w \in Workers, phase[w] = "saving",
         StatusClaim(w), row' = StatusWritten(w), NEW p \in BOOLEAN,
         Owe(w, MoveEffects(terms, snap[w], call[w].to, p)),
         UNCHANGED <<terms, captured>>
  PROVE  /\ Promise!Move(call[w].to)
         /\ Shows(row)' /\ HistoryFits'
         /\ MoveEffects(terms, snap[w], call[w].to, p) \cap {"refund", "record"} = {}
<1> DEFINE s == snap[w]
           to == call[w].to
           owed == MoveEffects(terms, s, to, p)
<1>1. /\ row \in RowType /\ s \in RowType /\ to \in Statuses
      /\ MayMove(terms, s, to) /\ Shows(s) /\ Shows(row) /\ s.status = row.status
      /\ Stamped(s) /\ SeenStamps(w)
      /\ granted \in [Effects -> Nat]
  BY DEF TypeOK, CallType, Safe, Planned, Solo, OnlyStatusWork, StatusClaim
<1>2. row.status \notin {"cancelled", "refunded"}
  BY <1>1 DEF MayMove, CanTransition, Edges
<1>3. HasEnded(s) <=> HasEnded(row)
  BY <1>1, <1>2 DEF Shows
<1>4. /\ row'.status = to
      /\ row'.pay = IF MarkPaid(terms, s, to) THEN "paid" ELSE s.pay
      /\ HasEnded(row') <=> HasEnded(row) \/ HasEnded(s) \/ to \in Ended
  BY <1>1 DEF StatusWritten, RowType, HasEnded, Ended
<1>5. Shows(row)'
  <2>1. to \in Ended \cup {"refunded"} \/ ~HasEnded(s)
    BY <1>1 DEF MayMove, CanTransition, Edges, Shows, Ended
  <2>2. HasEnded(row') <=> HasEnded(s) \/ to \in Ended
    BY <1>3, <1>4
  <2>3. row'.pay = "paid" <=> terms.method = "cod" /\ HasEnded(row')
    BY <1>1, <1>4, <2>2 DEF MarkPaid, Shows, Ended
  <2>4. to = "refunded" => HasEnded(s)
    BY <1>1 DEF MayMove, CanTransition, Edges, Shows, Ended
  <2> QED
    BY <1>4, <2>1, <2>2, <2>3, <2>4 DEF Shows, HasEnded, Ended
<1>6. owed = Promise!Belongs(to, ~p)
  <2>1. /\ MarkPaid(terms, s, to)
             <=> to \in Ended /\ terms.method = "cod" /\ ~HasEnded(row)
        /\ FinalizeOwed(s, to) <=> to \in Ended /\ ~HasEnded(row)
        /\ ~RefundOwed(terms, s, to)
        /\ s.status = "pending" /\ to = "confirmed" <=> to = "confirmed"
    BY <1>1, <1>3 DEF MarkPaid, FinalizeOwed, RefundOwed, MayMove, CanTransition, Edges,
                      Shows, HasEnded, Ended
  <2>2. ASSUME NEW e \in Effects PROVE e \in owed <=> e \in Promise!Belongs(to, ~p)
    BY <2>1, <2>2, SameRules DEF MoveEffects, Promise!Belongs, HasEnded, Ended
  <2>3. owed \subseteq Effects /\ Promise!Belongs(to, ~p) \subseteq Effects
    BY SameRules DEF MoveEffects, Promise!Belongs
  <2> QED
    BY <2>2, <2>3
<1>7. Promise!Move(to)
  <2>1. CanTransition(row.status, to) /\ FulfilmentAllows(terms, row.status, to)
    BY <1>1 DEF MayMove
  <2>2. (row'.delivered \/ row'.completed)
          = (row.delivered \/ row.completed \/ to \in {"delivered", "completed"})
    BY <1>3, <1>4 DEF HasEnded, Ended
  <2>3. granted' = [e \in Effects |->
                      granted[e] + (IF e \in Promise!Belongs(to, ~p) THEN 1 ELSE 0)]
    BY <1>6 DEF Owe
  <2> QED
    BY <1>4, <2>1, <2>2, <2>3, SameRules DEF Promise!Move
<1>8. owed \cap {"refund", "record"} = {}
  BY <1>6 DEF Promise!Belongs
<1>9. HistoryFits'
  <2>1. \A e \in Effects : granted'[e] = granted[e] + (IF e \in owed THEN 1 ELSE 0)
    BY DEF Owe
  <2>2. /\ "finalize" \in owed <=> to \in Ended /\ ~HasEnded(row)
        /\ "settle" \in owed => to \in Ended /\ ~HasEnded(row)
        /\ "handoff" \in owed => to = "confirmed"
        /\ "release" \in owed => to = "cancelled"
        /\ "points" \in owed => to = "cancelled"
        /\ owed \cap {"refund", "confirmed", "offer", "rating"} = {}
    BY <1>6, SameRules DEF Promise!Belongs, Effects, HasEnded, Ended
  <2>3. to = "confirmed" => row.status = "pending"
    BY <1>1 DEF MayMove, CanTransition, Edges
  <2>4. to # "pending"
    BY <1>1 DEF MayMove, CanTransition, Edges
  <2>5. HasEnded(row') <=> HasEnded(row) \/ to \in Ended
    BY <1>3, <1>4
  <2>6. {"finalize", "settle", "handoff", "release", "points", "refund", "confirmed",
         "offer", "rating"} \subseteq Effects
    BY DEF Effects
  <2>7. HistoryFits
    BY DEF Solo
  <2>8. \A e \in Effects : granted[e] \in Nat
    BY <1>1
  <2>9. granted'["finalize"] = (IF HasEnded(row') THEN 1 ELSE 0)
    BY <2>1, <2>2, <2>5, <2>6, <2>7 DEF HistoryFits
  <2>10. granted'["settle"] <= (IF HasEnded(row') THEN 1 ELSE 0)
    BY <2>1, <2>2, <2>5, <2>6, <2>7, <2>8 DEF HistoryFits
  <2>11. granted'["handoff"] <= (IF row'.status = "pending" THEN 0 ELSE 1)
    BY <1>4, <2>1, <2>2, <2>3, <2>4, <2>6, <2>7, <2>8 DEF HistoryFits
  <2>12. /\ granted'["release"] <= (IF row'.status = "cancelled" THEN 1 ELSE 0)
         /\ granted'["points"] <= (IF row'.status = "cancelled" THEN 1 ELSE 0)
    BY <1>2, <1>4, <2>1, <2>2, <2>6, <2>7, <2>8 DEF HistoryFits
  <2>13. \A e \in {"refund", "confirmed", "offer", "rating"} : granted'[e] = 0
    BY <2>1, <2>2, <2>6, <2>7 DEF HistoryFits
  <2> QED
    BY <2>9, <2>10, <2>11, <2>12, <2>13 DEF HistoryFits, HasEnded
<1> QED
  BY <1>5, <1>7, <1>8, <1>9

\* With status calls only, a worker can only be where a status call can be.
LEMMA OnlyStatusSteps ==
  ASSUME TypeOK, Solo, OnlyStatusCalls, NEW w \in Workers, Worker(w)
  PROVE  \/ \E to \in Statuses : BeginAdvance(w, to)
         \/ \E kind \in StatusCalls : BeginCancel(w, kind)
         \/ ReadForCancel(w) \/ SaveStatus(w) \/ RunEffect(w) \/ Crash(w)
<1>1. OnlyStatusWork(w)
  BY DEF Solo
<1>2. ~BeginPay(w) /\ ~BeginVerify(w) /\ ~BeginRefund(w) /\ ~BeginRate(w) /\ ~BeginDelete(w)
  BY DEF OnlyStatusCalls, StatusCalls, BeginPay, BeginVerify, BeginRefund, BeginRate,
         BeginDelete, Start
<1>3. ~ReadForVerify(w) /\ ~AskRefund(w)
  BY <1>1 DEF OnlyStatusWork, ReadForVerify, AskRefund
<1>4. ~SavePayment(w) /\ ~SaveRefund(w) /\ ~SaveRating(w) /\ ~DeleteRow(w)
  BY <1>1 DEF OnlyStatusWork, StatusCalls, SavePayment, SaveRefund, SaveRating, DeleteRow
<1>5. ~RunRefund(w) /\ ~RecordRefund(w)
  BY <1>1 DEF OnlyStatusWork, RunRefund, RecordRefund, IsNext
<1> QED
  BY <1>2, <1>3, <1>4, <1>5 DEF Worker

\* A step keeps Solo, and is a step of the abstract order or leaves it alone.
LEMMA SoloStep ==
  ASSUME OnlyStatusCalls, TypeOK, Safe, Solo, [Next]_vars
  PROVE  Solo' /\ [Promise!Next]_(Promise!vars)
<1> DEFINE Quiet == /\ UNCHANGED <<terms, granted>>
                    /\ row'.status = row.status /\ row'.pay = row.pay
                    /\ row'.delivered = row.delivered /\ row'.completed = row.completed
           Workers_OK == \A v \in Workers : (OnlyStatusWork(v) /\ Shows(snap[v]))'
<1>q. ASSUME Quiet, Workers_OK PROVE Solo' /\ [Promise!Next]_(Promise!vars)
  <2>1. Shows(row)' /\ HistoryFits'
    BY <1>q DEF Solo, Shows, HistoryFits, HasEnded
  <2>2. UNCHANGED Promise!vars
    BY <1>q DEF Promise!vars
  <2> QED
    BY <1>q, <2>1, <2>2 DEF Solo
<1>f. ASSUME NEW w \in Workers, Finish(w), UNCHANGED <<terms, row>>
      PROVE  Solo' /\ [Promise!Next]_(Promise!vars)
  <2>1. Workers_OK
    BY <1>f, SoloLeft DEF Finish
  <2> QED
    BY <1>f, <1>q, <2>1 DEF Finish
<1>1. CASE CustomerPays
  BY <1>1, <1>q DEF CustomerPays, Solo, OnlyStatusWork, Shows, HasEnded
<1>2. ASSUME NEW w \in Workers, NEW kind \in StatusCalls, NEW to, NEW next,
             Start(w, kind, to, next), next \in {"saving", "cancelling"},
             UNCHANGED <<terms, row, todo, granted>>
      PROVE  Solo' /\ [Promise!Next]_(Promise!vars)
  <2>1. Workers_OK
    BY <1>2 DEF Start, TypeOK, Solo, OnlyStatusWork, Shows, HasEnded
  <2> QED
    BY <1>2, <1>q, <2>1
<1>3. ASSUME NEW w \in Workers, NEW to \in Statuses, BeginAdvance(w, to)
      PROVE  Solo' /\ [Promise!Next]_(Promise!vars)
  BY <1>2, <1>3 DEF BeginAdvance, StatusCalls
<1>4. ASSUME NEW w \in Workers, NEW kind \in StatusCalls, BeginCancel(w, kind)
      PROVE  Solo' /\ [Promise!Next]_(Promise!vars)
  BY <1>2, <1>4 DEF BeginCancel
<1>5. ASSUME NEW w \in Workers, ReadForCancel(w)
      PROVE  Solo' /\ [Promise!Next]_(Promise!vars)
  <2>1. CASE Finish(w) /\ UNCHANGED <<terms, row>>
    BY <1>f, <2>1
  <2>2. CASE ~Finish(w)
    <3>1. Workers_OK
      BY <1>5, <2>2 DEF ReadForCancel, TypeOK, Solo, OnlyStatusWork, Shows, HasEnded
    <3> QED
      BY <1>5, <1>q, <2>2, <3>1 DEF ReadForCancel
  <2> QED
    BY <1>5, <2>1, <2>2 DEF ReadForCancel
<1>6. ASSUME NEW w \in Workers, SaveStatus(w)
      PROVE  Solo' /\ [Promise!Next]_(Promise!vars)
  <2>1. CASE Finish(w) /\ UNCHANGED <<terms, row>>
    BY <1>f, <2>1
  <2>2. ASSUME StatusClaim(w), row' = StatusWritten(w), UNCHANGED <<terms, captured>>,
               NEW p \in BOOLEAN,
               Owe(w, MoveEffects(terms, snap[w], call[w].to, p))
        PROVE  Solo' /\ [Promise!Next]_(Promise!vars)
    <3>1. phase[w] = "saving"
      BY <1>6 DEF SaveStatus
    <3>2. /\ Promise!Move(call[w].to) /\ Shows(row)' /\ HistoryFits'
          /\ MoveEffects(terms, snap[w], call[w].to, p) \cap {"refund", "record"} = {}
      BY <2>2, <3>1, MoveIsPromised
    <3>3. Workers_OK
      BY <2>2, <3>2, OwedIsWork, SoloLeft DEF Owe
    <3>4. call[w].to \in Statuses
      BY DEF TypeOK, CallType
    <3>5. Promise!Next
      BY <3>2, <3>4 DEF Promise!Next, Promise!Statuses, Statuses
    <3> QED
      BY <3>2, <3>3, <3>5 DEF Solo
  <2> QED
    BY <1>6, <2>1, <2>2 DEF SaveStatus
<1>7. ASSUME NEW w \in Workers, RunEffect(w)
      PROVE  Solo' /\ [Promise!Next]_(Promise!vars)
  <2>1. PICK e \in Effects \ {"refund"} : RanEffect(w, e, {})
    BY <1>7 DEF RunEffect
  <2>2. todo[w] \in SUBSET Work /\ todo[w] \cap {"refund", "record"} = {}
    BY DEF TypeOK, Solo, OnlyStatusWork
  <2>3. Workers_OK
    BY <2>1, <2>2, SoloLeft DEF RanEffect
  <2>4. Quiet
    BY <1>7, <2>1 DEF RunEffect, RanEffect, TypeOK, RowType
  <2> QED
    BY <1>q, <2>3, <2>4
<1>8. ASSUME NEW w \in Workers, Crash(w) PROVE Solo' /\ [Promise!Next]_(Promise!vars)
  BY <1>8, <1>f DEF Crash
<1>9. CASE UNCHANGED vars
  BY <1>9, <1>q DEF vars, Solo, OnlyStatusWork, Shows, HasEnded
<1> QED
  BY <1>1, <1>3, <1>4, <1>5, <1>6, <1>7, <1>8, <1>9, OnlyStatusSteps DEF Next

\* If only status calls are made, nothing else is ever at work.
LEMMA SoloAlways == ASSUME OnlyStatusCalls PROVE Spec => []Solo
<1>1. TypeOK /\ Safe /\ Solo /\ [Next]_vars => Solo'
  BY SoloStep
<1> QED
  BY <1>1, SoloInit, TypeCorrect, SafeAlways, PTL DEF Spec

\* Racing status calls never make an effect owed twice, however many race.
THEOREM OwedOnce == ASSUME OnlyStatusCalls PROVE Spec => []EffectsOwedOnce
<1>1. TypeOK /\ Solo => EffectsOwedOnce
  <2> SUFFICES ASSUME TypeOK, Solo, NEW e \in Effects PROVE granted[e] <= 1
    BY DEF EffectsOwedOnce
  <2>1. granted[e] \in Nat
    BY DEF TypeOK
  <2> QED
    BY <2>1 DEF Solo, HistoryFits, Effects
<1> QED
  BY <1>1, TypeCorrect, SoloAlways, PTL

\* Racing status calls never both consume and release the order's stock.
THEOREM StockOnce == ASSUME OnlyStatusCalls PROVE Spec => []StockLeavesOnce
<1>1. TypeOK /\ Solo => StockLeavesOnce
  <2> SUFFICES ASSUME TypeOK, Solo, granted["finalize"] > 0, granted["release"] > 0
               PROVE  FALSE
    BY DEF StockLeavesOnce
  <2>1. granted["release"] \in Nat /\ granted["finalize"] \in Nat
    BY DEF TypeOK, Effects
  <2>2. HasEnded(row) /\ row.status = "cancelled"
    BY <2>1 DEF Solo, HistoryFits
  <2> QED
    BY <2>2 DEF Solo, Shows, Ended
<1> QED
  BY <1>1, TypeCorrect, SoloAlways, PTL

\* The calls of any number of workers implement the abstract order.
THEOREM ImplementsPromise == ASSUME OnlyStatusCalls PROVE Spec => KeepsPromise
<1>1. Init => Promise!Init
  <2> SUFFICES ASSUME Init PROVE Promise!Init
    OBVIOUS
  <2>1. terms \in Promise!TermsType
    BY TermsAssumption DEF Init, Promise!TermsType, TermsType, Promise!Methods, Methods
  <2> QED
    BY <2>1, SameRules DEF Init, Promise!Init
<1>2. TypeOK /\ Safe /\ Solo /\ [Next]_vars => [Promise!Next]_(Promise!vars)
  BY SoloStep
<1> QED
  BY <1>1, <1>2, TypeCorrect, SafeAlways, SoloAlways, PTL
  DEF Spec, KeepsPromise, Promise!Spec
=============================================================================
