-------------------------- MODULE OrderLifecycleProofs --------------------------
(***************************************************************************)
(* What holds of OrderLifecycle for every number of workers and calls.     *)
(***************************************************************************)
EXTENDS OrderLifecycle, TLAPS

LocalsOK ==
  /\ phase \in [Workers -> Phases]
  /\ call \in [Workers -> CallType]
  /\ snap \in [Workers -> RowType]
  /\ todo \in [Workers -> SUBSET Work]

-----------------------------------------------------------------------------
(* Types *)

\* A worker that holds no call holds nothing out of type.
LEMMA IdleTypes == NoCall \in CallType /\ NoRow \in RowType
BY DEF NoCall, NoRow, CallType, RowType, AllCalls, StatusCalls, Statuses, PayStatuses

\* Returning, or going on to the effects, keeps a worker's variables in type.
LEMMA LeftType ==
  ASSUME LocalsOK, NEW w \in Workers, NEW effects \in SUBSET Work, Left(w, effects)
  PROVE  LocalsOK'
BY IdleTypes DEF LocalsOK, Left, Phases

\* Counting owed effects keeps the history in type.
LEMMA GrantType ==
  ASSUME granted \in [Effects -> Nat], NEW owed
  PROVE  [e \in Effects |-> granted[e] + (IF e \in owed THEN 1 ELSE 0)]
           \in [Effects -> Nat]
OBVIOUS

\* Starting a call keeps a worker's variables in type.
LEMMA StartType ==
  ASSUME TypeOK, NEW w \in Workers, NEW kind, NEW to \in Statuses,
         NEW next \in Phases, Start(w, kind, to, next), UNCHANGED todo
  PROVE  LocalsOK' /\ begun' \in 0..MaxCalls
<1>1. kind \in AllCalls
  BY CallsAssumption DEF Start
<1>2. [kind |-> kind, to |-> to] \in CallType
  BY <1>1 DEF CallType
<1>3. begun' \in 0..MaxCalls
  BY MaxCallsAssumption DEF Start, TypeOK
<1> QED
  BY <1>2, <1>3 DEF Start, TypeOK, LocalsOK

\* The initial states are typed.
LEMMA TypeInit == Init => TypeOK
<1> SUFFICES ASSUME Init PROVE TypeOK
  OBVIOUS
<1>1. terms \in TermsType
  BY TermsAssumption DEF Init
<1>2. row \in RowType
  BY DEF Init, RowType, Statuses, PayStatuses
<1>3. granted \in [Effects -> Nat]
  BY DEF Init
<1>4. begun \in 0..MaxCalls
  BY MaxCallsAssumption DEF Init
<1> QED
  BY <1>1, <1>2, <1>3, <1>4, IdleTypes DEF Init, TypeOK, Phases

\* Every effect a move or a payment owes is work a worker can hold.
LEMMA OwedIsWork ==
  /\ \A t, r, to, p : MoveEffects(t, r, to, p) \in SUBSET Work
  /\ \A t, r : PayEffects(t, r) \cup {"settle"} \in SUBSET Work
  /\ \A t, r : PayEffects(t, r) \in SUBSET Work
  /\ {"settle"} \in SUBSET Work /\ {"rating"} \in SUBSET Work
BY DEF MoveEffects, PayEffects, Work, Effects

\* Owing effects and returning keep a worker and the history in type.
LEMMA OweType ==
  ASSUME TypeOK, NEW w \in Workers, NEW owed \in SUBSET Work, Owe(w, owed)
  PROVE  LocalsOK' /\ granted' \in [Effects -> Nat]
<1>1. LocalsOK'
  BY LeftType DEF TypeOK, LocalsOK, Owe
<1>2. granted' \in [Effects -> Nat]
  BY GrantType DEF TypeOK, Owe
<1> QED
  BY <1>1, <1>2

\* A call that ends leaves the types as they are.
LEMMA FinishType ==
  ASSUME TypeOK, NEW w \in Workers, Finish(w)
  PROVE  LocalsOK' /\ granted' \in [Effects -> Nat]
<1>1. {} \in SUBSET Work
  OBVIOUS
<1>2. LocalsOK'
  BY <1>1, LeftType DEF TypeOK, LocalsOK, Finish
<1> QED
  BY <1>2 DEF TypeOK, Finish

\* Rows written from two rows in type are in type.
LEMMA RowTypes ==
  ASSUME TypeOK, NEW w \in Workers
  PROVE  /\ StatusWritten(w) \in RowType
         /\ PaymentWritten(w) \in RowType
         /\ \A status \in Statuses, pay \in PayStatuses, rated \in BOOLEAN :
              WholeSave(snap[w], status, pay, rated) \in RowType
<1>1. row \in RowType /\ snap[w] \in RowType /\ call[w].to \in Statuses
  BY DEF TypeOK, CallType
<1>2. StatusWritten(w) \in RowType
  BY <1>1 DEF StatusWritten, RowType, PayStatuses
<1>3. PaymentWritten(w) \in RowType
  BY <1>1 DEF PaymentWritten, RowType, PayStatuses, Statuses
<1>4. ASSUME NEW status \in Statuses, NEW pay \in PayStatuses, NEW rated \in BOOLEAN
      PROVE  WholeSave(snap[w], status, pay, rated) \in RowType
  <2>1. /\ (row.delivered \/ snap[w].delivered) \in BOOLEAN
        /\ (row.completed \/ snap[w].completed) \in BOOLEAN
        /\ (row.rated \/ rated) \in BOOLEAN
    OBVIOUS
  <2>2. snap[w].offered \in BOOLEAN /\ snap[w].handed \in BOOLEAN
    BY <1>1 DEF RowType
  <2>3. ASSUME NEW d \in BOOLEAN, NEW c \in BOOLEAN, NEW o \in BOOLEAN,
               NEW h \in BOOLEAN, NEW r \in BOOLEAN
        PROVE  [row EXCEPT !.status = status, !.pay = pay, !.delivered = d,
                           !.completed = c, !.offered = o, !.handed = h,
                           !.rated = r] \in RowType
    BY <1>1 DEF RowType
  <2> QED
    BY <2>1, <2>2, <2>3, Zenon DEF WholeSave
<1> QED
  BY <1>2, <1>3, <1>4

\* Every step of the program keeps the type invariant.
LEMMA TypeStep == TypeOK /\ [Next]_vars => TypeOK'
<1> SUFFICES ASSUME TypeOK, [Next]_vars PROVE TypeOK'
  OBVIOUS
<1> USE DEF TypeOK, LocalsOK
<1>1. CASE CustomerPays
  BY <1>1 DEF CustomerPays
<1>2. ASSUME NEW w \in Workers, NEW to \in Statuses, BeginAdvance(w, to)
      PROVE  TypeOK'
  BY <1>2, StartType DEF BeginAdvance, Phases
<1>3. ASSUME NEW w \in Workers, NEW kind \in StatusCalls, BeginCancel(w, kind)
      PROVE  TypeOK'
  BY <1>3, StartType DEF BeginCancel, Phases, Statuses
<1>4. ASSUME NEW w \in Workers, ReadForCancel(w) PROVE TypeOK'
  <2>1. CASE Finish(w) /\ UNCHANGED <<terms, row, captured, begun>>
    BY <2>1, FinishType
  <2>2. CASE ~Finish(w)
    BY <1>4, <2>2 DEF ReadForCancel, Phases
  <2> QED
    BY <1>4, <2>1, <2>2 DEF ReadForCancel
<1>5. ASSUME NEW w \in Workers, SaveStatus(w) PROVE TypeOK'
  <2>1. CASE Finish(w) /\ UNCHANGED <<terms, row, captured, begun>>
    BY <2>1, FinishType
  <2>2. ASSUME row' = StatusWritten(w), UNCHANGED <<terms, captured, begun>>,
               NEW p \in BOOLEAN,
               Owe(w, MoveEffects(terms, snap[w], call[w].to, p))
        PROVE  TypeOK'
    BY <2>2, OweType, OwedIsWork, RowTypes
  <2> QED
    BY <1>5, <2>1, <2>2 DEF SaveStatus
<1>6. ASSUME NEW w \in Workers, BeginPay(w) \/ BeginVerify(w) PROVE TypeOK'
  BY <1>6, StartType DEF BeginPay, BeginVerify, Phases, Statuses
<1>7. ASSUME NEW w \in Workers, ReadForVerify(w) PROVE TypeOK'
  <2>1. CASE Finish(w) /\ UNCHANGED <<terms, row, captured, begun>>
    BY <2>1, FinishType
  <2>2. CASE Owe(w, {"settle"}) /\ UNCHANGED <<terms, row, captured, begun>>
    BY <2>2, OweType, OwedIsWork
  <2>3. CASE ~Finish(w) /\ ~Owe(w, {"settle"})
    BY <1>7, <2>3 DEF ReadForVerify, Phases
  <2> QED
    BY <1>7, <2>1, <2>2, <2>3 DEF ReadForVerify
<1>8. ASSUME NEW w \in Workers, SavePayment(w) PROVE TypeOK'
  <2>1. CASE Finish(w) /\ UNCHANGED <<terms, row, captured, begun>>
    BY <2>1, FinishType
  <2>2. ASSUME NEW owed \in SUBSET Work, Owe(w, owed),
               row' = PaymentWritten(w) \/ UNCHANGED row,
               UNCHANGED <<terms, captured, begun>>
        PROVE  TypeOK'
    BY <2>2, OweType, RowTypes
  <2>3. {} \in SUBSET Work
    OBVIOUS
  <2> QED
    BY <1>8, <2>1, <2>2, <2>3, OwedIsWork DEF SavePayment
<1>9. ASSUME NEW w \in Workers, BeginRefund(w) \/ BeginRate(w) PROVE TypeOK'
  BY <1>9, StartType DEF BeginRefund, BeginRate, Phases, Statuses, RowType
<1>10. ASSUME NEW w \in Workers, AskRefund(w) PROVE TypeOK'
  <2>1. CASE Finish(w) /\ UNCHANGED <<terms, row, captured, begun>>
    BY <2>1, FinishType
  <2>2. CASE ~Finish(w)
    BY <1>10, <2>2, GrantType DEF AskRefund, Phases
  <2> QED
    BY <1>10, <2>1, <2>2 DEF AskRefund
<1>11. ASSUME NEW w \in Workers, SaveRefund(w) PROVE TypeOK'
  <2>1. row' \in RowType
    BY <1>11, RowTypes DEF SaveRefund, Statuses, PayStatuses, RowType
  <2> QED
    BY <1>11, <2>1, FinishType DEF SaveRefund
<1>12. ASSUME NEW w \in Workers, SaveRating(w) PROVE TypeOK'
  <2>1. row' \in RowType
    BY <1>12, RowTypes DEF SaveRating, RowType
  <2> QED
    BY <1>12, <2>1, FinishType, OweType, OwedIsWork DEF SaveRating
<1>13. ASSUME NEW w \in Workers, BeginDelete(w) PROVE TypeOK'
  BY <1>13, StartType, GrantType DEF BeginDelete, Phases, RowType
<1>14. ASSUME NEW w \in Workers, DeleteRow(w) PROVE TypeOK'
  <2>1. row' \in RowType
    BY <1>14 DEF DeleteRow, RowType
  <2> QED
    BY <1>14, <2>1, FinishType DEF DeleteRow
<1>15. ASSUME NEW w \in Workers, NEW e, NEW more \in SUBSET Work,
              RanEffect(w, e, more), row' \in RowType
       PROVE  TypeOK'
  <2>1. (todo[w] \ {e}) \cup more \in SUBSET Work
    OBVIOUS
  <2> QED
    BY <1>15, <2>1, LeftType DEF RanEffect
<1>16. ASSUME NEW w \in Workers, RunEffect(w) PROVE TypeOK'
  <2>1. row' \in RowType
    BY <1>16 DEF RunEffect, RowType
  <2>2. {} \in SUBSET Work
    OBVIOUS
  <2> QED
    BY <1>15, <1>16, <2>1, <2>2 DEF RunEffect
<1>17. ASSUME NEW w \in Workers, RunRefund(w) PROVE TypeOK'
  BY <1>15, <1>17 DEF RunRefund, Work
<1>18. ASSUME NEW w \in Workers, RecordRefund(w) PROVE TypeOK'
  <2>1. row' \in RowType
    BY <1>18 DEF RecordRefund, RowType, Statuses, PayStatuses
  <2>2. {} \in SUBSET Work
    OBVIOUS
  <2> QED
    BY <1>15, <1>18, <2>1, <2>2 DEF RecordRefund
<1>19. ASSUME NEW w \in Workers, Crash(w) PROVE TypeOK'
  BY <1>19, FinishType DEF Crash
<1>20. CASE UNCHANGED vars
  BY <1>20 DEF vars
<1> QED
  BY <1>1, <1>2, <1>3, <1>4, <1>5, <1>6, <1>7, <1>8, <1>9, <1>10, <1>11, <1>12,
     <1>13, <1>14, <1>16, <1>17, <1>18, <1>19, <1>20 DEF Next, Worker

\* Every column, counter and worker variable keeps its type, for any number of
\* workers and calls.
THEOREM TypeCorrect == Spec => []TypeOK
BY TypeInit, TypeStep, PTL DEF Spec

-----------------------------------------------------------------------------
(* The inductive invariant of every mix of calls *)

Ended == {"delivered", "completed"}

\* What a call was decided on still holds of the copy it will write back.
Planned(w) ==
  /\ phase[w] = "cancelling" => call[w].kind \in StatusCalls /\ call[w].to = "cancelled"
  /\ phase[w] = "verifying" => call[w].kind = "verify" /\ captured
  /\ phase[w] = "refunding" => call[w].kind = "refund" /\ snap[w].status \in Ended
  /\ phase[w] = "saving" =>
       /\ call[w].kind \in StatusCalls => MayMove(terms, snap[w], call[w].to)
       /\ call[w].kind \in {"pay", "verify"} => captured
       /\ call[w].kind \in {"refund", "rate"} => snap[w].status \in Ended

\* A copy of the row that shows an online order paid or past acceptance was read
\* after the money came.
Backed(r) ==
  terms.method = "online"
    /\ (r.status \notin {"pending", "cancelled"} \/ r.pay \in {"paid", "refunded"})
  => captured

\* A copy of the row has the timestamps its status says it has, and a drop-off
\* exactly when the order is delivered to a door.
Stamped(r) ==
  /\ r.status = "delivered" => r.delivered
  /\ r.status \in {"out_for_delivery", "delivered"} => terms.fulfil = "delivery"
  /\ r.completed /\ terms.fulfil = "delivery" => r.delivered
  /\ r.delivered => terms.fulfil = "delivery"

\* The row never loses a timestamp some call has seen.
SeenStamps(w) ==
  /\ snap[w].delivered => row.delivered
  /\ snap[w].completed => row.completed

Safe ==
  /\ \A w \in Workers : Planned(w)
  /\ Backed(row) /\ \A w \in Workers : Backed(snap[w])
  /\ Stamped(row) /\ \A w \in Workers : Stamped(snap[w]) /\ SeenStamps(w)
  /\ terms.method = "online" /\ (granted["handoff"] > 0 \/ granted["refund"] > 0)
       => captured
  /\ FinalizedIsStamped

\* The history counts only what the row and the money bear out.
GrantsBacked ==
  /\ terms.method = "online" /\ (granted'["handoff"] > 0 \/ granted'["refund"] > 0)
       => captured
  /\ granted'["finalize"] > 0 => row'.delivered \/ row'.completed

\* A write of the row the invariant allows.
GoodWrite(r) ==
  /\ Backed(r) /\ Stamped(r)
  /\ row.delivered => r.delivered
  /\ row.completed => r.completed

\* A step of one worker keeps the invariant when it leaves a good row and that
\* worker in order.
LEMMA SafeFrom ==
  ASSUME TypeOK, Safe, NEW w \in Workers, UNCHANGED <<terms, captured>>,
         GoodWrite(row'), GrantsBacked,
         \A v \in Workers \ {w} :
           phase'[v] = phase[v] /\ call'[v] = call[v] /\ snap'[v] = snap[v],
         Planned(w)', Backed(snap[w])', Stamped(snap[w])', SeenStamps(w)'
  PROVE  Safe'
<1>1. ASSUME NEW v \in Workers
      PROVE  (Planned(v) /\ Backed(snap[v]) /\ Stamped(snap[v]) /\ SeenStamps(v))'
  <2>1. CASE v = w
    BY <2>1
  <2>2. CASE v # w
    BY <2>2 DEF Safe, Planned, Backed, Stamped, SeenStamps, GoodWrite
  <2> QED
    BY <2>1, <2>2
<1>2. Backed(row)' /\ Stamped(row)'
  BY DEF GoodWrite, Backed, Stamped
<1> QED
  BY <1>1, <1>2 DEF Safe, GrantsBacked, FinalizedIsStamped

\* A call that returns, or has only effects left to run, keeps the invariant.
LEMMA SafeLeft ==
  ASSUME TypeOK, Safe, NEW w \in Workers, NEW effects, Left(w, effects),
         UNCHANGED <<terms, captured>>, GoodWrite(row'), GrantsBacked
  PROVE  Safe'
<1>1. phase'[w] \in {"idle", "effects"} /\ snap'[w] = NoRow
  BY DEF Left, TypeOK
<1>2. \A v \in Workers \ {w} :
        phase'[v] = phase[v] /\ call'[v] = call[v] /\ snap'[v] = snap[v]
  BY DEF Left, TypeOK
<1>3. Planned(w)' /\ Backed(snap[w])' /\ Stamped(snap[w])' /\ SeenStamps(w)'
  BY <1>1 DEF Planned, Backed, Stamped, SeenStamps, NoRow
<1> QED
  BY <1>2, <1>3, SafeFrom

\* A call that has just read the row and was planned on it keeps the invariant.
LEMMA SafeRead ==
  ASSUME TypeOK, Safe, NEW w \in Workers, UNCHANGED <<terms, row, captured>>,
         phase' = [phase EXCEPT ![w] = phase'[w]],
         call' = [call EXCEPT ![w] = call'[w]],
         snap' = [snap EXCEPT ![w] = row], Planned(w)',
         GrantsBacked
  PROVE  Safe'
<1>1. snap'[w] = row
  BY DEF TypeOK
<1>2. \A v \in Workers \ {w} :
        phase'[v] = phase[v] /\ call'[v] = call[v] /\ snap'[v] = snap[v]
  BY DEF TypeOK
<1>3. Backed(snap[w])' /\ Stamped(snap[w])' /\ SeenStamps(w)'
  BY <1>1 DEF Safe, Backed, Stamped, SeenStamps
<1>4. GoodWrite(row')
  BY DEF Safe, GoodWrite
<1> QED
  BY <1>2, <1>3, <1>4, SafeFrom

\* The history as it is is borne out by the row as it is.
LEMMA GrantsNow ==
  ASSUME Safe, granted' = granted, row' = row PROVE GrantsBacked
BY DEF Safe, GrantsBacked, FinalizedIsStamped

\* The row as it is can be written back.
LEMMA GoodNow == ASSUME Safe PROVE GoodWrite(row)
BY DEF Safe, GoodWrite

\* A status call that won its write leaves a good row, and what it owes is borne
\* out.
LEMMA StatusWriteGood ==
  ASSUME TypeOK, Safe, NEW w \in Workers, phase[w] = "saving",
         call[w].kind \in StatusCalls
  PROVE  GoodWrite(StatusWritten(w))
<1> DEFINE s == snap[w]
           to == call[w].to
           r == StatusWritten(w)
<1>1. /\ row \in RowType /\ s \in RowType /\ to \in Statuses
      /\ MayMove(terms, s, to) /\ Backed(s) /\ Stamped(s) /\ SeenStamps(w)
      /\ Backed(row) /\ Stamped(row)
  BY DEF TypeOK, CallType, Safe, Planned
<1>2. /\ r.status = to
      /\ r.pay = IF MarkPaid(terms, s, to) THEN "paid" ELSE s.pay
      /\ r.delivered <=> row.delivered \/ s.delivered \/ to = "delivered"
      /\ r.completed <=> row.completed \/ s.completed \/ to = "completed"
  BY <1>1 DEF StatusWritten, RowType
<1>3. Backed(r)
  <2> SUFFICES ASSUME terms.method = "online",
                      r.status \notin {"pending", "cancelled"} \/ r.pay \in {"paid", "refunded"}
               PROVE  captured
    BY DEF Backed
  <2>1. r.pay = s.pay
    BY <1>2 DEF MarkPaid
  <2>2. CASE s.pay \in {"paid", "refunded"} \/ s.status \notin {"pending", "cancelled"}
    BY <1>1, <2>2 DEF Backed
  <2>3. CASE s.pay \notin {"paid", "refunded"} /\ s.status \in {"pending", "cancelled"}
    BY <1>1, <1>2, <2>1, <2>3
    DEF MayMove, CanTransition, Edges, ReadyForAcceptance, OfflinePayment
  <2> QED
    BY <2>2, <2>3
<1>4. Stamped(r)
  BY <1>1, <1>2 DEF Stamped, SeenStamps, MayMove, CanTransition, Edges, FulfilmentAllows
<1> QED
  BY <1>2, <1>3, <1>4 DEF GoodWrite

\* A captured payment leaves a good row.
LEMMA PaymentWriteGood ==
  ASSUME TypeOK, Safe, NEW w \in Workers, captured
  PROVE  GoodWrite(PaymentWritten(w))
<1> DEFINE s == snap[w]
           r == PaymentWritten(w)
<1>1. row \in RowType /\ Stamped(s) /\ SeenStamps(w) /\ Stamped(row)
  BY DEF TypeOK, Safe
<1>2. /\ r.status = IF AcceptsOnPayment(terms, s) THEN "confirmed" ELSE s.status
      /\ r.delivered = row.delivered /\ r.completed = row.completed
  BY <1>1 DEF PaymentWritten, RowType
<1>3. Stamped(r)
  BY <1>1, <1>2 DEF Stamped, SeenStamps
<1> QED
  BY <1>2, <1>3 DEF GoodWrite, Backed

\* A save of a whole ended order leaves a good row, although its copy may be old.
LEMMA WholeSaveGood ==
  ASSUME TypeOK, Safe, NEW w \in Workers, NEW status, NEW pay, NEW rated,
         snap[w].status \in Ended, status \in {"refunded", snap[w].status}
  PROVE  GoodWrite(WholeSave(snap[w], status, pay, rated))
<1> DEFINE s == snap[w]
           r == WholeSave(s, status, pay, rated)
<1>1. /\ row \in RowType /\ s \in RowType
      /\ Stamped(s) /\ SeenStamps(w) /\ Stamped(row) /\ Backed(s)
  BY DEF TypeOK, Safe
<1>2. /\ r.status = status
      /\ r.delivered <=> row.delivered \/ s.delivered
      /\ r.completed <=> row.completed \/ s.completed
  BY <1>1 DEF WholeSave, RowType
<1>3. Stamped(r)
  BY <1>1, <1>2 DEF Stamped, SeenStamps, Ended
<1>4. Backed(r)
  BY <1>1 DEF Backed, Ended
<1> QED
  BY <1>2, <1>3, <1>4 DEF GoodWrite

\* Nothing has happened to the order in the initial states.
LEMMA SafeInit == Init => Safe
<1> SUFFICES ASSUME Init PROVE Safe
  OBVIOUS
<1>1. /\ row.status = "pending" /\ row.pay \in {"pending", "cod_pending"}
      /\ ~row.delivered /\ ~row.completed
  BY DEF Init
<1>2. Backed(row) /\ Stamped(row)
  BY <1>1 DEF Backed, Stamped
<1>3. ASSUME NEW w \in Workers
      PROVE  Planned(w) /\ Backed(snap[w]) /\ Stamped(snap[w]) /\ SeenStamps(w)
  BY DEF Init, Planned, Backed, Stamped, SeenStamps, NoRow
<1>4. \A e \in Effects : granted[e] = 0
  BY DEF Init
<1>5. {"handoff", "refund", "finalize"} \subseteq Effects
  BY DEF Effects
<1> QED
  BY <1>2, <1>3, <1>4, <1>5 DEF Safe, FinalizedIsStamped

\* Every step of the program keeps the invariant.
LEMMA SafeStep == TypeOK /\ Safe /\ [Next]_vars => Safe'
<1> SUFFICES ASSUME TypeOK, Safe, [Next]_vars PROVE Safe'
  OBVIOUS
<1>e. {"handoff", "refund", "finalize"} \subseteq Effects
  BY DEF Effects
<1>g. granted \in [Effects -> Nat]
  BY DEF TypeOK
<1>f. ASSUME NEW w \in Workers, Finish(w), UNCHANGED <<terms, captured>>, GoodWrite(row')
      PROVE  Safe'
  <2>1. GrantsBacked
    BY <1>f DEF GrantsBacked, Safe, FinalizedIsStamped, GoodWrite, Finish
  <2> QED
    BY <1>f, <2>1, SafeLeft DEF Finish
<1>n. ASSUME NEW w \in Workers, Finish(w), UNCHANGED <<terms, row, captured>>
      PROVE  Safe'
  BY <1>n, <1>f, GoodNow
<1>1. CASE CustomerPays
  BY <1>1 DEF CustomerPays, Safe, Planned, Backed, Stamped, SeenStamps, FinalizedIsStamped
<1>2. ASSUME NEW w \in Workers, NEW to \in Statuses, BeginAdvance(w, to)
      PROVE  Safe'
  <2>1. Planned(w)'
    BY <1>2 DEF BeginAdvance, Start, TypeOK, Planned, StatusCalls
  <2>2. GrantsBacked
    BY <1>2, GrantsNow DEF BeginAdvance
  <2> QED
    BY <1>2, <2>1, <2>2, SafeRead DEF BeginAdvance, Start, TypeOK
<1>3. ASSUME NEW w \in Workers, NEW kind \in StatusCalls, BeginCancel(w, kind)
      PROVE  Safe'
  <2>1. Planned(w)'
    BY <1>3 DEF BeginCancel, Start, TypeOK, Planned
  <2>2. GrantsBacked
    BY <1>3, GrantsNow DEF BeginCancel
  <2> QED
    BY <1>3, <2>1, <2>2, SafeRead DEF BeginCancel, Start, TypeOK
<1>4. ASSUME NEW w \in Workers, ReadForCancel(w) PROVE Safe'
  <2>1. CASE Finish(w) /\ UNCHANGED <<terms, row, captured, begun>>
    BY <2>1, <1>n
  <2>2. CASE ~Finish(w)
    <3>1. /\ CanTransition(row.status, "cancelled")
          /\ call' = call /\ call[w].to = "cancelled" /\ call[w].kind \in StatusCalls
          /\ phase' = [phase EXCEPT ![w] = "saving"] /\ snap' = [snap EXCEPT ![w] = row]
          /\ UNCHANGED <<terms, row, captured, granted>>
      BY <1>4, <2>2 DEF ReadForCancel, Safe, Planned
    <3>2. Planned(w)'
      BY <3>1 DEF Planned, TypeOK, MayMove, FulfilmentAllows, StatusCalls
    <3> QED
      BY <3>1, <3>2, SafeRead, GrantsNow DEF TypeOK
  <2> QED
    BY <1>4, <2>1, <2>2 DEF ReadForCancel
<1>5. ASSUME NEW w \in Workers, SaveStatus(w) PROVE Safe'
  <2>1. CASE Finish(w) /\ UNCHANGED <<terms, row, captured>>
    BY <2>1, <1>n
  <2>2. ASSUME row' = StatusWritten(w), UNCHANGED <<terms, captured>>,
               NEW p \in BOOLEAN,
               Owe(w, MoveEffects(terms, snap[w], call[w].to, p))
        PROVE  Safe'
    <3>1. GoodWrite(row')
      BY <1>5, <2>2, StatusWriteGood DEF SaveStatus
    <3>2. MayMove(terms, snap[w], call[w].to) /\ Backed(snap[w])
      BY <1>5 DEF SaveStatus, Safe, Planned
    <3>3. row \in RowType
      BY DEF TypeOK
    <3>4. terms.method = "online" /\ (granted'["handoff"] > 0 \/ granted'["refund"] > 0)
            => captured
      <4>1. CASE "handoff" \in MoveEffects(terms, snap[w], call[w].to, p)
        BY <3>2, <4>1 DEF MoveEffects, MayMove, ReadyForAcceptance, OfflinePayment, Backed
      <4>2. CASE "refund" \in MoveEffects(terms, snap[w], call[w].to, p)
        BY <3>2, <4>2 DEF MoveEffects, RefundOwed, Backed
      <4>3. CASE {"handoff", "refund"} \cap MoveEffects(terms, snap[w], call[w].to, p) = {}
        BY <1>e, <1>g, <2>2, <4>3 DEF Owe, Safe
      <4> QED
        BY <4>1, <4>2, <4>3
    <3>5. granted'["finalize"] > 0 => row'.delivered \/ row'.completed
      <4>1. CASE "finalize" \in MoveEffects(terms, snap[w], call[w].to, p)
        BY <2>2, <3>3, <4>1 DEF MoveEffects, FinalizeOwed, StatusWritten, RowType
      <4>2. CASE "finalize" \notin MoveEffects(terms, snap[w], call[w].to, p)
        BY <1>e, <1>g, <2>2, <3>1, <4>2 DEF Owe, Safe, FinalizedIsStamped, GoodWrite
      <4> QED
        BY <4>1, <4>2
    <3> QED
      BY <2>2, <3>1, <3>4, <3>5, SafeLeft DEF Owe, GrantsBacked
  <2> QED
    BY <1>5, <2>1, <2>2 DEF SaveStatus
<1>6. ASSUME NEW w \in Workers, BeginPay(w) \/ BeginVerify(w) PROVE Safe'
  <2>1. Planned(w)'
    BY <1>6 DEF BeginPay, BeginVerify, Start, TypeOK, Planned, StatusCalls
  <2>2. GrantsBacked
    BY <1>6, GrantsNow DEF BeginPay, BeginVerify
  <2> QED
    BY <1>6, <2>1, <2>2, SafeRead DEF BeginPay, BeginVerify, Start, TypeOK
<1>7. ASSUME NEW w \in Workers, ReadForVerify(w) PROVE Safe'
  <2>1. CASE Finish(w) /\ UNCHANGED <<terms, row, captured>>
    BY <2>1, <1>n
  <2>2. CASE Owe(w, {"settle"}) /\ UNCHANGED <<terms, row, captured>>
    <3>1. GrantsBacked
      BY <1>e, <1>g, <2>2 DEF Owe, GrantsBacked, Safe, FinalizedIsStamped
    <3> QED
      BY <2>2, <3>1, GoodNow, SafeLeft DEF Owe
  <2>3. CASE ~Finish(w) /\ ~Owe(w, {"settle"})
    <3>1. /\ call' = call /\ call[w].kind = "verify" /\ captured
          /\ phase' = [phase EXCEPT ![w] = "saving"] /\ snap' = [snap EXCEPT ![w] = row]
          /\ UNCHANGED <<terms, row, captured, granted>>
      BY <1>7, <2>3 DEF ReadForVerify, Safe, Planned
    <3>2. Planned(w)'
      BY <3>1 DEF Planned, TypeOK, StatusCalls
    <3> QED
      BY <3>1, <3>2, SafeRead, GrantsNow DEF TypeOK
  <2> QED
    BY <1>7, <2>1, <2>2, <2>3 DEF ReadForVerify
<1>8. ASSUME NEW w \in Workers, SavePayment(w) PROVE Safe'
  <2>1. CASE Finish(w) /\ UNCHANGED <<terms, row, captured>>
    BY <2>1, <1>n
  <2>2. captured
    BY <1>8 DEF SavePayment, Safe, Planned
  <2>3. ASSUME NEW owed, "finalize" \notin owed, Owe(w, owed), GoodWrite(row'),
               UNCHANGED <<terms, captured>>
        PROVE  Safe'
    <3>1. GrantsBacked
      BY <1>e, <1>g, <2>2, <2>3
      DEF Owe, GrantsBacked, Safe, FinalizedIsStamped, GoodWrite
    <3> QED
      BY <2>3, <3>1, SafeLeft DEF Owe
  <2>4. \A t, r : "finalize" \notin PayEffects(t, r) \cup {"settle"}
                  /\ "finalize" \notin PayEffects(t, r) \cup {}
    BY DEF PayEffects
  <2>5. GoodWrite(row) /\ GoodWrite(PaymentWritten(w))
    BY <2>2, GoodNow, PaymentWriteGood
  <2>6. "finalize" \notin {} /\ "finalize" \notin {"settle"}
    OBVIOUS
  <2> QED
    BY <1>8, <2>1, <2>3, <2>4, <2>5, <2>6 DEF SavePayment
<1>9. ASSUME NEW w \in Workers, BeginRefund(w) \/ BeginRate(w) PROVE Safe'
  <2>1. Planned(w)'
    BY <1>9 DEF BeginRefund, BeginRate, Refundable, Ratable, Start, TypeOK, Planned,
                StatusCalls, Ended
  <2>2. GrantsBacked
    BY <1>9, GrantsNow DEF BeginRefund, BeginRate
  <2> QED
    BY <1>9, <2>1, <2>2, SafeRead DEF BeginRefund, BeginRate, Start, TypeOK
<1>10. ASSUME NEW w \in Workers, AskRefund(w) PROVE Safe'
  <2>1. CASE Finish(w) /\ UNCHANGED <<terms, row, captured>>
    BY <2>1, <1>n
  <2>2. CASE ~Finish(w)
    <3>1. PICK asked \in SUBSET {"refund"} :
            granted' = [e \in Effects |->
              granted[e] + (IF e \in asked \cup (IF terms.held THEN {"release"} ELSE {})
                            THEN 1 ELSE 0)]
      BY <1>10, <2>2 DEF AskRefund
    <3>2. /\ phase[w] = "refunding" /\ phase' = [phase EXCEPT ![w] = "saving"]
          /\ UNCHANGED <<terms, row, captured, call, snap>>
      BY <1>10, <2>2 DEF AskRefund
    <3>3. call[w].kind = "refund" /\ snap[w].status \in Ended /\ Backed(snap[w])
      BY <3>2 DEF Safe, Planned
    <3>4. Planned(w)'
      BY <3>2, <3>3 DEF Planned, TypeOK, StatusCalls
    <3>5. GrantsBacked
      BY <1>e, <1>g, <3>1, <3>2, <3>3
      DEF GrantsBacked, Safe, FinalizedIsStamped, Backed, Ended
    <3>6. Backed(snap[w])' /\ Stamped(snap[w])' /\ SeenStamps(w)'
      BY <3>2 DEF Safe, Backed, Stamped, SeenStamps
    <3>7. \A v \in Workers \ {w} :
            phase'[v] = phase[v] /\ call'[v] = call[v] /\ snap'[v] = snap[v]
      BY <3>2 DEF TypeOK
    <3> QED
      BY <3>2, <3>4, <3>5, <3>6, <3>7, GoodNow, SafeFrom
  <2> QED
    BY <1>10, <2>1, <2>2 DEF AskRefund
<1>11. ASSUME NEW w \in Workers, SaveRefund(w) PROVE Safe'
  <2>1. snap[w].status \in Ended
    BY <1>11 DEF SaveRefund, Safe, Planned
  <2>2. GoodWrite(row')
    BY <1>11, <2>1, WholeSaveGood, GoodNow DEF SaveRefund
  <2> QED
    BY <1>11, <1>f, <2>2 DEF SaveRefund
<1>12. ASSUME NEW w \in Workers, SaveRating(w) PROVE Safe'
  <2>1. snap[w].status \in Ended
    BY <1>12 DEF SaveRating, Safe, Planned
  <2>2. GoodWrite(row')
    BY <1>12, <2>1, WholeSaveGood, GoodNow DEF SaveRating
  <2>3. CASE Finish(w)
    BY <1>12, <1>f, <2>2, <2>3 DEF SaveRating
  <2>4. CASE Owe(w, {"rating"})
    <3>0. UNCHANGED <<terms, captured>>
      BY <1>12 DEF SaveRating
    <3>1. GrantsBacked
      BY <1>e, <1>g, <2>2, <2>4, <3>0
      DEF Owe, GrantsBacked, Safe, FinalizedIsStamped, GoodWrite
    <3> QED
      BY <2>2, <2>4, <3>0, <3>1, SafeLeft DEF Owe
  <2> QED
    BY <1>12, <2>3, <2>4 DEF SaveRating
<1>13. ASSUME NEW w \in Workers, BeginDelete(w) PROVE Safe'
  <2>1. Planned(w)'
    BY <1>13 DEF BeginDelete, Start, TypeOK, Planned, StatusCalls
  <2>2. GrantsBacked
    BY <1>13, <1>e, <1>g DEF BeginDelete, GrantsBacked, Safe, FinalizedIsStamped
  <2> QED
    BY <1>13, <2>1, <2>2, SafeRead DEF BeginDelete, Start, TypeOK
<1>14. ASSUME NEW w \in Workers, DeleteRow(w) PROVE Safe'
  <2>1. GoodWrite(row')
    BY <1>14 DEF DeleteRow, Safe, GoodWrite, Backed, Stamped, TypeOK, RowType
  <2> QED
    BY <1>14, <1>f, <2>1 DEF DeleteRow
<1>15. ASSUME NEW w \in Workers, NEW e, NEW more, RanEffect(w, e, more), GoodWrite(row')
       PROVE  Safe'
  <2>1. GrantsBacked
    BY <1>15 DEF RanEffect, GrantsBacked, Safe, FinalizedIsStamped, GoodWrite
  <2> QED
    BY <1>15, <2>1, SafeLeft DEF RanEffect
<1>16. ASSUME NEW w \in Workers, RunEffect(w) PROVE Safe'
  <2>1. GoodWrite(row')
    BY <1>16 DEF RunEffect, Safe, GoodWrite, Backed, Stamped, TypeOK, RowType
  <2> QED
    BY <1>15, <1>16, <2>1 DEF RunEffect
<1>17. ASSUME NEW w \in Workers, RunRefund(w) PROVE Safe'
  BY <1>15, <1>17, GoodNow DEF RunRefund
<1>18. ASSUME NEW w \in Workers, RecordRefund(w) PROVE Safe'
  <2>1. GoodWrite(row')
    BY <1>18 DEF RecordRefund, Safe, GoodWrite, Backed, Stamped, TypeOK, RowType
  <2> QED
    BY <1>15, <1>18, <2>1 DEF RecordRefund
<1>19. ASSUME NEW w \in Workers, Crash(w) PROVE Safe'
  BY <1>19, <1>n DEF Crash
<1>20. CASE UNCHANGED vars
  BY <1>20 DEF vars, Safe, Planned, Backed, Stamped, SeenStamps, FinalizedIsStamped
<1> QED
  BY <1>1, <1>2, <1>3, <1>4, <1>5, <1>6, <1>7, <1>8, <1>9, <1>10, <1>11, <1>12,
     <1>13, <1>14, <1>16, <1>17, <1>18, <1>19, <1>20 DEF Next, Worker

\* The inductive invariant behind the safety theorems below.
THEOREM SafeAlways == Spec => []Safe
BY TypeCorrect, SafeInit, SafeStep, PTL DEF Spec

\* No unpaid online order ever reaches the kitchen.
THEOREM KitchenIsPaid == Spec => []NoUnpaidKitchen
<1>1. Safe => NoUnpaidKitchen
  BY DEF Safe, Backed, NoUnpaidKitchen
<1> QED
  BY <1>1, SafeAlways, PTL

\* No refund is ever asked for an online order whose money never came.
THEOREM RefundIsCovered == Spec => []RefundNeedsMoney
<1>1. Safe => RefundNeedsMoney
  BY DEF Safe, RefundNeedsMoney
<1> QED
  BY <1>1, SafeAlways, PTL

\* The row of a finalized order always carries an end timestamp.
THEOREM FinalizedStaysStamped == Spec => []FinalizedIsStamped
<1>1. Safe => FinalizedIsStamped
  BY DEF Safe
<1> QED
  BY <1>1, SafeAlways, PTL

\* No mix of calls skips or invents a drop-off.
THEOREM DropOffStays == Spec => []DropOffIsKept
<1>1. Safe => DropOffIsKept
  BY DEF Safe, Stamped, DropOffIsKept
<1> QED
  BY <1>1, SafeAlways, PTL

-----------------------------------------------------------------------------
(* Status calls and the row as it is *)

\* A step of one worker leaves the others where they are.
LEMMA OneMoves ==
  ASSUME TypeOK, NEW v \in Workers, NEW w \in Workers \ {v}, Worker(v)
  PROVE  phase'[w] = phase[w]
<1>1. ASSUME NEW kind, NEW to, NEW next, Start(v, kind, to, next)
      PROVE  phase'[w] = phase[w]
  BY <1>1 DEF Start, TypeOK
<1>2. ASSUME NEW effects, Left(v, effects) PROVE phase'[w] = phase[w]
  BY <1>2 DEF Left, TypeOK
<1>3. \/ \E kind, to, next : Start(v, kind, to, next)
      \/ \E effects : Left(v, effects)
      \/ \E next : phase' = [phase EXCEPT ![v] = next]
  <2>1. CASE \/ \E to \in Statuses : BeginAdvance(v, to)
             \/ \E kind \in StatusCalls : BeginCancel(v, kind)
             \/ BeginPay(v) \/ BeginVerify(v) \/ BeginRefund(v)
             \/ BeginRate(v) \/ BeginDelete(v)
    BY <2>1 DEF BeginAdvance, BeginCancel, BeginPay, BeginVerify, BeginRefund,
                BeginRate, BeginDelete
  <2>2. CASE ReadForCancel(v) \/ ReadForVerify(v) \/ AskRefund(v)
    BY <2>2 DEF ReadForCancel, ReadForVerify, AskRefund, Finish, Owe
  <2>3. CASE \/ SaveStatus(v) \/ SavePayment(v) \/ SaveRefund(v) \/ SaveRating(v)
             \/ DeleteRow(v) \/ Crash(v)
    BY <2>3 DEF SaveStatus, SavePayment, SaveRefund, SaveRating, DeleteRow, Crash,
                Finish, Owe
  <2>4. CASE RunEffect(v) \/ RunRefund(v) \/ RecordRefund(v)
    BY <2>4 DEF RunEffect, RunRefund, RecordRefund, RanEffect
  <2> QED
    BY <2>1, <2>2, <2>3, <2>4 DEF Worker
<1> QED
  BY <1>1, <1>2, <1>3 DEF TypeOK

\* A status call that changes the row follows an edge from the row's actual status.
LEMMA FollowStep ==
  TypeOK /\ Safe /\ [Next]_vars =>
    \A w \in Workers :
      call[w].kind \in StatusCalls /\ phase[w] = "saving" /\ row' # row
        /\ phase'[w] # "saving"
      => /\ CanTransition(row.status, row'.status)
         /\ FulfilmentAllows(terms, row.status, row'.status)
<1> SUFFICES ASSUME TypeOK, Safe, [Next]_vars, NEW w \in Workers,
                    call[w].kind \in StatusCalls, phase[w] = "saving", row' # row,
                    phase'[w] # "saving"
             PROVE  /\ CanTransition(row.status, row'.status)
                    /\ FulfilmentAllows(terms, row.status, row'.status)
  OBVIOUS
<1>1. Worker(w)
  BY OneMoves DEF Next, CustomerPays, vars
<1>2. ~BeginDelete(w) /\ ~BeginPay(w) /\ ~BeginVerify(w) /\ ~BeginRefund(w) /\ ~BeginRate(w)
  BY DEF BeginDelete, BeginPay, BeginVerify, BeginRefund, BeginRate, Start
<1>3. ~(\E to \in Statuses : BeginAdvance(w, to))
      /\ ~(\E kind \in StatusCalls : BeginCancel(w, kind))
  BY DEF BeginAdvance, BeginCancel, Start
<1>4. /\ ~ReadForCancel(w) /\ ~ReadForVerify(w) /\ ~AskRefund(w) /\ ~RunEffect(w)
      /\ ~RunRefund(w) /\ ~RecordRefund(w)
  BY DEF ReadForCancel, ReadForVerify, AskRefund, RunEffect, RunRefund, RecordRefund
<1>5. ~SavePayment(w) /\ ~SaveRefund(w) /\ ~SaveRating(w) /\ ~DeleteRow(w) /\ ~Crash(w)
  BY DEF SavePayment, SaveRefund, SaveRating, DeleteRow, Crash, StatusCalls
<1>6. SaveStatus(w)
  BY <1>1, <1>2, <1>3, <1>4, <1>5 DEF Worker
<1>7. StatusClaim(w) /\ row' = StatusWritten(w)
  BY <1>6 DEF SaveStatus
<1>8. row.status = snap[w].status /\ row'.status = call[w].to
  BY <1>7 DEF StatusClaim, StatusWritten, TypeOK, RowType
<1>9. MayMove(terms, snap[w], call[w].to)
  BY DEF Safe, Planned
<1> QED
  BY <1>8, <1>9 DEF MayMove

\* A status call that wins its write moves the row as it is, not as it was read.
THEOREM StatusCallsObeyMachine == Spec => StatusCallsFollowMachine
BY TypeCorrect, SafeAlways, FollowStep, PTL DEF Spec, StatusCallsFollowMachine

=============================================================================
