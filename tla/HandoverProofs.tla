----------------------------- MODULE HandoverProofs -----------------------------
(***************************************************************************)
(* What Handover keeps for any orders, callers, schedulers and bounds: the *)
(* outlet is told only of accepted orders that are due, a stamp stands for *)
(* a publication and is kept, and a cancellation nobody overlaps is final. *)
(***************************************************************************)
EXTENDS Handover, TLAPS

USE CasesAssumption, HandoverBounds, WorkersAssumption
    DEF CasesAssumption, HandoverBounds, WorkersAssumption

\* The orders the outlet was told of, or would have been.
Reached == {o \in Orders : told[o] > 0 \/ o \in refused}

\* What worker w may hold at phase p when these orders are accepted and reached.
HeldAt(w, p, l, acc, reach) ==
  /\ p \in Phases /\ l \in LocType
  /\ w \in Orders => l.order = w /\ p # "pay"
  /\ p \notin {"idle", "pay"} => l.copy.status # "cancelled"
  /\ p \in {"claim", "pay"} /\ l.copy.status = "confirmed" => l.order \in acc
  /\ p = "claim" /\ l.to = "confirmed" => l.copy.status = "pending"
  /\ p \in {"publish", "stamp"} => l.order \in acc
  /\ p = "stamp" => l.order \in reach

WorkersInv ==
  /\ phase \in [Workers -> Phases] /\ loc \in [Workers -> LocType]
  /\ \A w \in Workers : HeldAt(w, phase[w], loc[w], accepted, Reached)

RowsInv ==
  /\ row \in [Orders -> CopyType]
  /\ \A o \in Orders : row[o].status = "confirmed" => o \in accepted
  /\ \A o \in Orders : row[o].handed => o \in Reached

OwnInv ==
  /\ own \in [Orders -> [status : Statuses, bare : BOOLEAN]]
  /\ \A o \in Orders : own[o].status = "confirmed" => o \in accepted

PassInv ==
  /\ batch \in [Replicas -> SUBSET Orders]
  /\ claimed \in BOOLEAN
  /\ \A r \in Replicas : batch[r] \subseteq accepted

HistoryInv ==
  /\ accepted \subseteq Orders /\ refused \subseteq Orders
  /\ told \in [Orders -> Nat]
  /\ \A o \in Orders : told[o] > 0 => o \in accepted /\ given[o].slot <= now

BoundsInv ==
  /\ given \in Cases /\ now \in 0..MaxTime
  /\ calls \in 0..MaxCalls /\ faults \in 0..MaxFaults

HandoverInv ==
  WorkersInv /\ RowsInv /\ OwnInv /\ PassInv /\ HistoryInv /\ BoundsInv

-----------------------------------------------------------------------------
(* Values *)

\* Holding nothing is a value of loc.
LEMMA NothingType ==
  ASSUME NEW w \in Workers
  PROVE  /\ Nothing(w) \in LocType
         /\ Nothing(w).copy.status = "pending"
         /\ w \in Orders => Nothing(w).order = w
<1>1. (CHOOSE o \in Orders : TRUE) \in Orders
  OBVIOUS
<1> QED
  BY <1>1 DEF Nothing, At, LocType, CopyType, Statuses, PayStatuses

\* A worker that holds nothing may be at any of these phases.
LEMMA NothingHeld ==
  ASSUME NEW w \in Workers, NEW acc, NEW reach,
         NEW p \in {"idle", "accept", "offer", "link", "deposit"}
  PROVE  HeldAt(w, p, Nothing(w), acc, reach)
  BY NothingType DEF HeldAt, Phases

\* An order is placed with a payment status.
LEMMA PlacedPayType == ASSUME NEW o \in Orders PROVE PlacedPay(o) \in PayStatuses
  BY DEF PlacedPay, PayStatuses

\* What is held stays so when more orders are accepted and reached.
LEMMA HeldMonotone ==
  ASSUME NEW w, NEW p, NEW l, NEW acc, NEW reach, NEW acc2, NEW reach2,
         HeldAt(w, p, l, acc, reach), acc \subseteq acc2, reach \subseteq reach2
  PROVE  HeldAt(w, p, l, acc2, reach2)
  BY DEF HeldAt

\* A worker that comes to a phase with what the phase calls for keeps the workers'
\* invariant.
LEMMA GotoKeeps ==
  ASSUME WorkersInv, NEW w \in Workers, NEW p, NEW l, Goto(w, p, l),
         accepted \subseteq accepted', Reached \subseteq Reached',
         HeldAt(w, p, l, accepted', Reached')
  PROVE  WorkersInv'
<1>1. p \in Phases /\ l \in LocType
  BY DEF HeldAt
<1>2. phase' \in [Workers -> Phases] /\ loc' \in [Workers -> LocType]
  BY <1>1 DEF WorkersInv, Goto
<1>3. ASSUME NEW v \in Workers
      PROVE  HeldAt(v, phase'[v], loc'[v], accepted', Reached')
  <2>1. CASE v = w
    BY <2>1 DEF WorkersInv, Goto
  <2>2. CASE v # w
    <3>1. phase'[v] = phase[v] /\ loc'[v] = loc[v]
      BY <2>2 DEF WorkersInv, Goto
    <3>2. HeldAt(v, phase[v], loc[v], accepted, Reached)
      BY DEF WorkersInv
    <3> QED
      BY <3>1, <3>2, HeldMonotone
  <2> QED
    BY <2>1, <2>2
<1> QED
  BY <1>2, <1>3 DEF WorkersInv

\* So does a worker whose call is over.
LEMMA ReturnKeeps ==
  ASSUME WorkersInv, NEW w \in Workers, Return(w),
         accepted \subseteq accepted', Reached \subseteq Reached'
  PROVE  WorkersInv'
<1>1. HeldAt(w, IF w \in Orders THEN "link" ELSE "idle", Nothing(w), accepted', Reached')
  BY NothingHeld
<1> QED
  BY <1>1, GotoKeeps DEF Return

\* A move to confirmed starts from pending; nothing starts from cancelled.
LEMMA MovesOn ==
  ASSUME NEW t, NEW r, NEW to, MayMove(t, r, to)
  PROVE  r.status # "cancelled" /\ (to = "confirmed" => r.status = "pending")
  BY DEF MayMove, CanTransition, Edges

-----------------------------------------------------------------------------
(* The steps *)

\* HandoverInv holds of freshly placed orders.
THEOREM InitInv == Init => HandoverInv
<1> SUFFICES ASSUME Init PROVE HandoverInv
  OBVIOUS
<1>1. WorkersInv
  <2>1. \A w \in Workers : HeldAt(w, phase[w], loc[w], accepted, Reached)
    BY NothingHeld DEF Init
  <2>2. phase \in [Workers -> Phases] /\ loc \in [Workers -> LocType]
    BY NothingType DEF Init, Phases
  <2> QED
    BY <2>1, <2>2 DEF WorkersInv
<1>2. RowsInv
  <2>1. \A o \in Orders : Placed(o) \in CopyType
    BY PlacedPayType DEF Placed, CopyType, Statuses
  <2> QED
    BY <2>1 DEF Init, RowsInv, Placed
<1>3. \A o \in Orders : given[o].bare \in BOOLEAN
  BY DEF Init, CaseType
<1>4. OwnInv
  BY <1>3 DEF Init, OwnInv, Statuses
<1>5. PassInv
  BY DEF Init, PassInv
<1>6. HistoryInv
  BY DEF Init, HistoryInv
<1>7. BoundsInv
  BY DEF Init, BoundsInv
<1> QED
  BY <1>1, <1>2, <1>4, <1>5, <1>6, <1>7 DEF HandoverInv

\* The write of a status call.
LEMMA ClaimKeeps ==
  ASSUME HandoverInv, NEW w \in Workers, Claim(w)
  PROVE  HandoverInv'
<1> DEFINE o == loc[w].order
           won == row[o].status = loc[w].copy.status
<1> USE DEF HandoverInv
<1>1. HeldAt(w, "claim", loc[w], accepted, Reached) /\ phase[w] = "claim"
  BY DEF WorkersInv, Claim, Working
<1>2. o \in Orders /\ loc[w].to \in Statuses /\ loc[w].copy \in CopyType
  BY <1>1 DEF HeldAt, LocType
<1>3. accepted \subseteq accepted' /\ accepted' \subseteq Orders
  BY <1>2 DEF Claim, HistoryInv
<1>4. Reached' = Reached
  BY DEF Claim, Reached
<1>5. WorkersInv'
  <2>1. CASE won /\ Accepts(w)
    <3>1. o \in accepted' /\ Goto(w, "publish", loc[w])
      BY <2>1 DEF Claim
    <3>2. HeldAt(w, "publish", loc[w], accepted', Reached')
      BY <1>1, <3>1 DEF HeldAt, Phases
    <3> QED
      BY <1>3, <1>4, <3>1, <3>2, GotoKeeps
  <2>2. CASE ~(won /\ Accepts(w))
    BY <1>3, <1>4, <2>2, ReturnKeeps DEF Claim
  <2> QED
    BY <2>1, <2>2
<1>6. loc[w].to = "confirmed" /\ won => o \in accepted'
  BY <1>1 DEF HeldAt, Accepts, Claim
<1>7. ClaimWritten(w) \in CopyType /\ ClaimWritten(w).handed = row[o].handed
      /\ ClaimWritten(w).status = loc[w].to
  BY <1>2 DEF ClaimWritten, RowsInv, CopyType
<1>8. RowsInv'
  BY <1>2, <1>3, <1>4, <1>6, <1>7 DEF RowsInv, Claim
<1>9. OwnInv'
  <2>1. CASE w \in Orders
    <3>1. o = w /\ own' = [own EXCEPT ![w].status = row'[o].status]
      BY <1>1, <2>1 DEF HeldAt, Claim
    <3>2. row'[w].status \in Statuses /\ (row'[w].status = "confirmed" => w \in accepted')
      BY <1>8, <2>1 DEF RowsInv, CopyType
    <3> QED
      BY <1>3, <2>1, <3>1, <3>2 DEF OwnInv
  <2>2. CASE w \notin Orders
    BY <1>3, <2>2 DEF OwnInv, Claim
  <2> QED
    BY <2>1, <2>2
<1>10. PassInv' /\ HistoryInv' /\ BoundsInv'
  BY <1>3 DEF Claim, Working, PassInv, HistoryInv, BoundsInv
<1> QED
  BY <1>5, <1>8, <1>9, <1>10

\* The write of a payment.
LEMMA PayWriteKeeps ==
  ASSUME HandoverInv, NEW w \in Workers, PayWrite(w)
  PROVE  HandoverInv'
<1> DEFINE o == loc[w].order
           copy == loc[w].copy
           accepts == AcceptsOnPayment(Terms(o), copy)
<1> USE DEF HandoverInv
<1>1. HeldAt(w, "pay", loc[w], accepted, Reached) /\ phase[w] = "pay"
  BY DEF WorkersInv, PayWrite, Working
<1>2. o \in Orders /\ copy \in CopyType
  BY <1>1 DEF HeldAt, LocType
<1>3. accepted \subseteq accepted' /\ accepted' \subseteq Orders
  BY <1>2 DEF PayWrite, HistoryInv
<1>4. Reached' = Reached
  BY DEF PayWrite, Reached
<1>5. WorkersInv'
  <2>1. CASE row[o].pay = copy.pay /\ accepts
    <3>1. o \in accepted' /\ Goto(w, "publish", loc[w])
      BY <2>1 DEF PayWrite
    <3>2. HeldAt(w, "publish", loc[w], accepted', Reached')
      BY <1>1, <2>1, <3>1 DEF HeldAt, Phases, AcceptsOnPayment
    <3> QED
      BY <1>3, <1>4, <3>1, <3>2, GotoKeeps
  <2>2. CASE ~(row[o].pay = copy.pay /\ accepts)
    BY <1>3, <1>4, <2>2, ReturnKeeps DEF PayWrite
  <2> QED
    BY <2>1, <2>2
<1>6. RowsInv'
  <2>1. CASE row[o].pay # copy.pay
    BY <1>3, <1>4, <2>1 DEF RowsInv, PayWrite
  <2>2. CASE row[o].pay = copy.pay
    <3>1. row' = [row EXCEPT ![o] = [status |-> IF accepts THEN "confirmed" ELSE copy.status,
                                  pay |-> "paid", handed |-> @.handed]]
      BY <2>2 DEF PayWrite
    <3>2. row' \in [Orders -> CopyType]
      BY <1>2, <3>1 DEF RowsInv, CopyType, PayStatuses, Statuses
    <3>3. row'[o].status = "confirmed" => o \in accepted'
      BY <1>1, <1>2, <2>2, <3>1 DEF HeldAt, PayWrite, RowsInv, CopyType
    <3>4. \A p \in Orders : row'[p].handed = row[p].handed
      BY <1>2, <3>1 DEF RowsInv, CopyType
    <3>5. \A p \in Orders \ {o} : row'[p] = row[p]
      BY <1>2, <3>1 DEF RowsInv
    <3> QED
      BY <1>3, <1>4, <3>2, <3>3, <3>4, <3>5 DEF RowsInv
  <2> QED
    BY <2>1, <2>2
<1>7. OwnInv' /\ PassInv' /\ HistoryInv' /\ BoundsInv'
  BY <1>3 DEF PayWrite, Working, OwnInv, PassInv, HistoryInv, BoundsInv
<1> QED
  BY <1>5, <1>6, <1>7

\* Nothing but the workers and the bounds is touched.
Kept == UNCHANGED <<given, now, row, own, batch, claimed, history>>

\* Such a step keeps the invariant if it keeps the workers' part.
LEMMA KeptKeeps ==
  ASSUME HandoverInv, Kept, WorkersInv', calls' \in 0..MaxCalls, faults' \in 0..MaxFaults
  PROVE  HandoverInv'
<1>1. Reached' = Reached
  BY DEF Kept, history, Reached
<1>2. RowsInv' /\ OwnInv'
  BY <1>1 DEF HandoverInv, Kept, history, RowsInv, OwnInv
<1>3. PassInv' /\ HistoryInv' /\ BoundsInv'
  BY DEF HandoverInv, Kept, history, PassInv, HistoryInv, BoundsInv
<1> QED
  BY <1>2, <1>3 DEF HandoverInv

\* Faults stay within their bound.
LEMMA FaultBound == ASSUME BoundsInv, Fault PROVE faults' \in 0..MaxFaults
  BY DEF BoundsInv, Fault

\* A status call that fails.
LEMMA ClaimFailsKeeps ==
  ASSUME HandoverInv, NEW w \in Workers, ClaimFails(w)
  PROVE  HandoverInv'
<1>1. Kept /\ calls' \in 0..MaxCalls /\ faults' \in 0..MaxFaults
  BY FaultBound DEF HandoverInv, BoundsInv, ClaimFails, Working, Kept
<1>2. WorkersInv'
  <2>1. HeldAt(w, IF w \in Orders THEN "offer" ELSE "idle", Nothing(w), accepted', Reached')
    BY NothingHeld
  <2>2. accepted' = accepted /\ Reached' = Reached
    BY <1>1 DEF Kept, history, Reached
  <2> QED
    BY <2>1, <2>2, GotoKeeps DEF HandoverInv, ClaimFails
<1> QED
  BY <1>1, <1>2, KeptKeeps

\* handOffToOutlet.
LEMMA HandOverKeeps ==
  ASSUME HandoverInv, NEW w \in Workers, HandOver(w)
  PROVE  HandoverInv'
<1> DEFINE o == loc[w].order
<1>1. HeldAt(w, "publish", loc[w], accepted, Reached) /\ o \in accepted /\ o \in Orders
  BY DEF HandoverInv, WorkersInv, HandOver, Working, HeldAt, LocType
<1>2. /\ UNCHANGED <<given, now, row, own, batch, claimed, calls, accepted>>
      /\ told' \in [Orders -> Nat] /\ refused' \subseteq Orders
      /\ Reached \subseteq Reached'
      /\ \A p \in Orders \ {o} : told'[p] = told[p]
  BY <1>1 DEF HandOver, Working, HandoverInv, HistoryInv, Reached
<1>3. CASE ~WindowOpen(o)
  <2>1. Kept /\ Return(w) /\ faults' = faults
    BY <1>3 DEF HandOver, Working, Kept, history
  <2>2. WorkersInv'
    BY <1>2, <2>1, ReturnKeeps DEF HandoverInv
  <2> QED
    BY <1>2, <2>1, <2>2, KeptKeeps DEF HandoverInv, BoundsInv
<1>4. CASE WindowOpen(o)
  <2>1. Goto(w, "stamp", loc[w]) /\ o \in Reached'
    BY <1>1, <1>4 DEF HandOver, Working, HandoverInv, HistoryInv, Reached
  <2>2. HeldAt(w, "stamp", loc[w], accepted', Reached')
    BY <1>1, <1>2, <2>1 DEF HeldAt, Phases
  <2>3. WorkersInv'
    BY <1>2, <2>1, <2>2, GotoKeeps DEF HandoverInv
  <2>4. RowsInv' /\ OwnInv' /\ PassInv'
    BY <1>2 DEF HandoverInv, RowsInv, OwnInv, PassInv
  <2>5. HistoryInv'
    BY <1>1, <1>2, <1>4 DEF HandoverInv, HistoryInv, WindowOpen
  <2>6. BoundsInv'
    BY <1>2, <1>4, FaultBound DEF HandoverInv, BoundsInv, HandOver
  <2> QED
    BY <2>3, <2>4, <2>5, <2>6 DEF HandoverInv
<1> QED
  BY <1>3, <1>4

\* The hand-off stamp is set only for an order reached.
LEMMA StampKeeps ==
  ASSUME HandoverInv, NEW w \in Workers, StampHandoff(w)
  PROVE  HandoverInv'
<1> DEFINE o == loc[w].order
<1>1. o \in Reached /\ o \in Orders
  BY DEF HandoverInv, WorkersInv, StampHandoff, Working, HeldAt, LocType
<1>2. accepted' = accepted /\ Reached' = Reached
  BY DEF StampHandoff, history, Reached
<1>3. WorkersInv'
  BY <1>2, ReturnKeeps DEF HandoverInv, StampHandoff
<1>4. RowsInv'
  <2>1. CASE UNCHANGED row
    BY <1>2, <2>1 DEF HandoverInv, RowsInv
  <2>2. CASE row' = [row EXCEPT ![o].handed = TRUE]
    BY <1>1, <1>2, <2>2 DEF HandoverInv, RowsInv, CopyType
  <2> QED
    BY <2>1, <2>2 DEF StampHandoff
<1>5. OwnInv' /\ PassInv' /\ HistoryInv'
  BY <1>2 DEF HandoverInv, StampHandoff, Working, history, OwnInv, PassInv, HistoryInv
<1>6. BoundsInv'
  BY FaultBound DEF HandoverInv, StampHandoff, Working, BoundsInv
<1> QED
  BY <1>3, <1>4, <1>5, <1>6 DEF HandoverInv

\* A worker that dies holds nothing.
LEMMA CrashKeeps ==
  ASSUME HandoverInv, NEW w \in Workers, Crash(w)
  PROVE  HandoverInv'
<1>1. accepted' = accepted /\ Reached' = Reached
  BY DEF Crash, history, Reached
<1>2. WorkersInv'
  BY <1>1, NothingHeld, GotoKeeps DEF HandoverInv, Crash
<1>3. PassInv'
  BY <1>1 DEF HandoverInv, Crash, PassInv
<1>4. RowsInv' /\ OwnInv' /\ HistoryInv'
  BY <1>1 DEF HandoverInv, Crash, history, RowsInv, OwnInv, HistoryInv
<1>5. BoundsInv'
  BY FaultBound DEF HandoverInv, Crash, BoundsInv
<1> QED
  BY <1>2, <1>3, <1>4, <1>5 DEF HandoverInv

\* A copy of the row taken for a status call that the machine allows.
LEMMA MoveHeld ==
  ASSUME RowsInv, NEW w \in Workers, NEW o \in Orders, NEW to \in Statuses,
         MayMove(Terms(o), row[o], to), w \in Orders => o = w, NEW reach
  PROVE  HeldAt(w, "claim", At(o, row[o], to), accepted, reach)
<1>1. row[o].status # "cancelled" /\ (to = "confirmed" => row[o].status = "pending")
  BY MovesOn
<1> QED
  BY <1>1 DEF RowsInv, HeldAt, At, Phases, LocType

\* acceptOrOffer.
LEMMA AcceptKeeps ==
  ASSUME HandoverInv, NEW o \in Orders, AcceptOrOffer(o)
  PROVE  HandoverInv'
<1>1. Kept /\ calls' \in 0..MaxCalls
  BY DEF AcceptOrOffer, Working, Kept, HandoverInv, BoundsInv
<1>2. faults' \in 0..MaxFaults
  BY FaultBound DEF AcceptOrOffer, HandoverInv, BoundsInv
<1>3. accepted' = accepted /\ Reached' = Reached /\ o \in Workers
  BY <1>1 DEF Kept, history, Reached, Workers
<1>4. WorkersInv'
  <2>1. CASE Return(o)
    BY <1>3, <2>1, ReturnKeeps DEF HandoverInv
  <2>2. CASE Goto(o, "offer", Nothing(o))
    BY <1>3, <2>2, NothingHeld, GotoKeeps DEF HandoverInv
  <2>3. CASE /\ Goto(o, "claim", At(o, row[o], "confirmed"))
             /\ MayMove(Terms(o), row[o], "confirmed")
    <3>1. HeldAt(o, "claim", At(o, row[o], "confirmed"), accepted', Reached')
      <4>1. "confirmed" \in Statuses /\ RowsInv
        BY DEF HandoverInv, Statuses
      <4> QED
        BY <1>3, <2>3, <4>1, MoveHeld
    <3> QED
      BY <1>3, <2>3, <3>1, GotoKeeps DEF HandoverInv
  <2> QED
    BY <2>1, <2>2, <2>3 DEF AcceptOrOffer
<1> QED
  BY <1>1, <1>2, <1>4, KeptKeeps

\* offerToOutlet.
LEMMA OfferKeeps ==
  ASSUME HandoverInv, NEW o \in Orders, OfferToOutlet(o)
  PROVE  HandoverInv'
<1>1. accepted' = accepted /\ Reached' = Reached /\ o \in Workers
  BY DEF OfferToOutlet, history, Reached, Workers
<1>2. WorkersInv'
  BY <1>1, ReturnKeeps DEF HandoverInv, OfferToOutlet
<1>3. OwnInv'
  BY <1>1 DEF HandoverInv, OfferToOutlet, OwnInv
<1>4. RowsInv' /\ PassInv' /\ HistoryInv' /\ BoundsInv'
  BY <1>1 DEF HandoverInv, OfferToOutlet, Working, history, RowsInv, PassInv, HistoryInv, BoundsInv
<1> QED
  BY <1>2, <1>3, <1>4 DEF HandoverInv

\* The saves at the end of a checkout write what its own object may say.
LEMMA SaveKeeps ==
  ASSUME HandoverInv, NEW o \in Orders, SaveOrder(o)
  PROVE  HandoverInv'
<1>1. accepted' = accepted /\ Reached' = Reached /\ o \in Workers
  BY DEF SaveOrder, history, Reached, Workers
<1>2. WorkersInv'
  BY <1>1, NothingHeld, GotoKeeps DEF HandoverInv, SaveOrder
<1>3. ASSUME NEW bare \in BOOLEAN
      PROVE  /\ SavedOrder(o, bare) \in CopyType
             /\ SavedOrder(o, bare).status = "confirmed" => o \in accepted
             /\ SavedOrder(o, bare).handed => o \in Reached
  BY PlacedPayType DEF HandoverInv, OwnInv, RowsInv, SavedOrder, CopyType
<1>4. PICK bare \in BOOLEAN : row' \in {row, [row EXCEPT ![o] = SavedOrder(o, bare)]}
  BY DEF SaveOrder, HandoverInv, OwnInv
<1>5. RowsInv'
  BY <1>1, <1>3, <1>4 DEF HandoverInv, RowsInv
<1>6. OwnInv' /\ PassInv' /\ HistoryInv' /\ BoundsInv'
  BY <1>1 DEF HandoverInv, SaveOrder, Working, history, OwnInv, PassInv, HistoryInv, BoundsInv
<1> QED
  BY <1>2, <1>5, <1>6 DEF HandoverInv

\* A status call begins on a copy of the row.
LEMMA BeginMoveKeeps ==
  ASSUME HandoverInv, NEW c \in Callers, NEW o \in Orders, NEW to \in Statuses,
         BeginMove(c, o, to)
  PROVE  HandoverInv'
<1>1. Kept /\ faults' = faults /\ calls' \in 0..MaxCalls
  BY DEF BeginMove, BeginCall, Kept, HandoverInv, BoundsInv
<1>2. accepted' = accepted /\ Reached' = Reached /\ c \in Workers /\ c \notin Orders
  BY <1>1 DEF Kept, history, Reached, Workers
<1>3. HeldAt(c, "claim", At(o, row[o], to), accepted', Reached')
  <2>1. RowsInv /\ MayMove(Terms(o), row[o], to)
    BY DEF BeginMove, HandoverInv
  <2> QED
    BY <1>2, <2>1, MoveHeld
<1>4. WorkersInv'
  BY <1>2, <1>3, GotoKeeps DEF BeginMove, BeginCall, HandoverInv
<1> QED
  BY <1>1, <1>4, KeptKeeps DEF HandoverInv, BoundsInv

\* A payment call begins on a copy of the row.
LEMMA BeginPayKeeps ==
  ASSUME HandoverInv, NEW c \in Callers, NEW o \in Orders, BeginPay(c, o)
  PROVE  HandoverInv'
<1>1. Kept /\ faults' = faults /\ calls' \in 0..MaxCalls
  BY DEF BeginPay, BeginCall, Kept, HandoverInv, BoundsInv
<1>2. accepted' = accepted /\ Reached' = Reached /\ c \in Workers /\ c \notin Orders
  BY <1>1 DEF Kept, history, Reached, Workers
<1>3. HeldAt(c, "pay", At(o, row[o], "confirmed"), accepted', Reached')
  BY <1>2 DEF HandoverInv, RowsInv, HeldAt, At, LocType, Phases, Statuses
<1>4. WorkersInv'
  BY <1>2, <1>3, GotoKeeps DEF BeginPay, BeginCall, HandoverInv
<1> QED
  BY <1>1, <1>4, KeptKeeps DEF HandoverInv, BoundsInv

\* A scheduler lists confirmed orders, which were accepted.
LEMMA StartPassKeeps ==
  ASSUME HandoverInv, NEW r \in Replicas, StartPass(r)
  PROVE  HandoverInv'
<1>1. accepted' = accepted /\ Reached' = Reached
  BY DEF StartPass, history, Reached
<1>2. \A S \in Batches : S \subseteq accepted /\ S \subseteq Orders
  BY DEF HandoverInv, RowsInv, Batches, Listed
<1>3. PassInv'
  BY <1>1, <1>2 DEF HandoverInv, StartPass, PassInv
<1>4. WorkersInv'
  BY <1>1 DEF HandoverInv, StartPass, WorkersInv
<1>5. RowsInv' /\ OwnInv' /\ HistoryInv'
  BY <1>1 DEF HandoverInv, StartPass, history, RowsInv, OwnInv, HistoryInv
<1>6. BoundsInv'
  BY FaultBound DEF HandoverInv, StartPass, BoundsInv
<1> QED
  BY <1>3, <1>4, <1>5, <1>6 DEF HandoverInv

\* A scheduler takes the next order of its list.
LEMMA HandNextKeeps ==
  ASSUME HandoverInv, NEW r \in Replicas, HandNext(r)
  PROVE  HandoverInv'
<1>1. accepted' = accepted /\ Reached' = Reached /\ r \in Workers /\ r \notin Orders
  BY DEF HandNext, history, Reached, Workers
<1>2. PICK o \in batch[r] :
        /\ batch' = [batch EXCEPT ![r] = @ \ {o}]
        /\ Goto(r, "publish", At(o, [Placed(o) EXCEPT !.status = "confirmed"], "confirmed"))
  BY DEF HandNext
<1>3. o \in Orders /\ o \in accepted
  BY DEF HandoverInv, PassInv
<1>4. HeldAt(r, "publish", At(o, [Placed(o) EXCEPT !.status = "confirmed"], "confirmed"),
             accepted', Reached')
  <2> DEFINE copy == [Placed(o) EXCEPT !.status = "confirmed"]
  <2>1. copy \in CopyType /\ copy.status = "confirmed"
    BY <1>3, PlacedPayType DEF Placed, CopyType, Statuses
  <2> HIDE DEF copy
  <2>2. At(o, copy, "confirmed") \in LocType
    BY <1>3, <2>1 DEF At, LocType, Statuses
  <2>3. HeldAt(r, "publish", At(o, copy, "confirmed"), accepted', Reached')
    BY <1>1, <1>3, <2>1, <2>2 DEF At, HeldAt, Phases
  <2> QED
    BY <2>3 DEF copy
<1>5. WorkersInv'
  BY <1>1, <1>2, <1>4, GotoKeeps DEF HandoverInv
<1>6. PassInv'
  BY <1>1, <1>2 DEF HandoverInv, HandNext, PassInv
<1>7. RowsInv' /\ OwnInv' /\ HistoryInv' /\ BoundsInv'
  BY <1>1 DEF HandoverInv, HandNext, history, RowsInv, OwnInv, HistoryInv, BoundsInv
<1> QED
  BY <1>5, <1>6, <1>7 DEF HandoverInv

\* A window that was open stays open.
LEMMA TimeKeeps ==
  ASSUME HandoverInv, NewPeriod \/ Tick
  PROVE  HandoverInv'
<1>1. accepted' = accepted /\ Reached' = Reached
  BY DEF NewPeriod, Tick, history, Reached
<1>2. WorkersInv' /\ RowsInv' /\ OwnInv' /\ PassInv'
  BY <1>1 DEF HandoverInv, NewPeriod, Tick, history, WorkersInv, RowsInv, OwnInv, PassInv
<1>3. now' \in 0..MaxTime /\ now <= now'
  BY DEF HandoverInv, BoundsInv, NewPeriod, Tick
<1>4. \A o \in Orders : given[o].slot \in 0..MaxTime
  BY DEF HandoverInv, BoundsInv, CaseType
<1>5. HistoryInv'
  BY <1>1, <1>3, <1>4 DEF HandoverInv, BoundsInv, HistoryInv, NewPeriod, Tick, history
<1>6. BoundsInv'
  BY <1>3 DEF HandoverInv, BoundsInv, NewPeriod, Tick
<1> QED
  BY <1>2, <1>5, <1>6 DEF HandoverInv

\* HandoverInv is inductive.
THEOREM NextInv == HandoverInv /\ [Next]_vars => HandoverInv'
<1> SUFFICES ASSUME HandoverInv, [Next]_vars PROVE HandoverInv'
  OBVIOUS
<1>1. ASSUME NEW w \in Workers, Step(w) PROVE HandoverInv'
  <2>1. CASE Claim(w) \/ ClaimFails(w) \/ PayWrite(w)
    BY <2>1, ClaimKeeps, ClaimFailsKeeps, PayWriteKeeps
  <2>2. CASE HandOver(w) \/ StampHandoff(w)
    BY <2>2, HandOverKeeps, StampKeeps
  <2>3. CASE w \in Orders /\ (AcceptOrOffer(w) \/ OfferToOutlet(w) \/ SaveOrder(w))
    BY <2>3, AcceptKeeps, OfferKeeps, SaveKeeps
  <2>4. CASE w \in Replicas /\ HandNext(w)
    BY <2>4, HandNextKeeps
  <2> QED
    BY <1>1, <2>1, <2>2, <2>3, <2>4 DEF Step
<1>2. ASSUME NEW c \in Callers, NEW o \in Orders,
             NEW to \in {"confirmed", "preparing", "cancelled"}, BeginMove(c, o, to)
      PROVE  HandoverInv'
  <2>1. to \in Statuses
    BY DEF Statuses
  <2> QED
    BY <1>2, <2>1, BeginMoveKeeps
<1>3. CASE UNCHANGED vars
  <2>1. accepted' = accepted /\ Reached' = Reached
    BY <1>3 DEF vars, history, Reached
  <2>2. WorkersInv' /\ RowsInv' /\ OwnInv'
    BY <1>3, <2>1 DEF HandoverInv, vars, WorkersInv, RowsInv, OwnInv
  <2>3. PassInv' /\ HistoryInv' /\ BoundsInv'
    BY <1>3, <2>1 DEF HandoverInv, vars, history, PassInv, HistoryInv, BoundsInv
  <2> QED
    BY <2>2, <2>3 DEF HandoverInv
<1> QED
  BY <1>1, <1>2, <1>3, CrashKeeps, BeginPayKeeps, StartPassKeeps, TimeKeeps DEF Next

\* What the workers hold agrees with what was accepted and told, in every state.
THEOREM Safety == Spec => []HandoverInv
  BY InitInv, NextInv, PTL DEF Spec

\* Every variable keeps its type.
THEOREM TypeCorrect == Spec => []TypeOK
<1>1. HandoverInv => TypeOK
  BY DEF HandoverInv, WorkersInv, RowsInv, OwnInv, PassInv, HistoryInv, BoundsInv, TypeOK
<1> QED
  BY <1>1, Safety, PTL

\* A stamp stands for a publication, or for one that failed.
THEOREM StampsAreTold == Spec => []StampIsTold
<1>1. HandoverInv => StampIsTold
  BY DEF HandoverInv, RowsInv, Reached, StampIsTold
<1> QED
  BY <1>1, Safety, PTL

\* The outlet is told of accepted orders only, and not before their window opens.
THEOREM ToldInTime == Spec => []ToldWhenDue
<1>1. HandoverInv => ToldWhenDue
  BY DEF HandoverInv, HistoryInv, ToldWhenDue
<1> QED
  BY <1>1, Safety, PTL

-----------------------------------------------------------------------------
(* The stamp *)

\* No step but the order's own checkout takes a stamp away.
LEMMA StampStep ==
  ASSUME HandoverInv, [Next]_vars, NEW o \in Orders, row[o].handed, phase[o] = "idle"
  PROVE  row'[o].handed
<1> USE DEF HandoverInv, RowsInv
<1>1. ASSUME NEW w \in Workers, phase[w] # "idle" PROVE loc[w].order \in Orders
  BY DEF WorkersInv, LocType
<1>2. ASSUME NEW w \in Workers, Claim(w) PROVE row'[o].handed
  BY <1>1, <1>2 DEF Claim, Working, ClaimWritten, CopyType
<1>3. ASSUME NEW w \in Workers, PayWrite(w) PROVE row'[o].handed
  BY <1>1, <1>3 DEF PayWrite, Working, CopyType
<1>4. ASSUME NEW w \in Workers, StampHandoff(w) PROVE row'[o].handed
  BY <1>1, <1>4 DEF StampHandoff, Working, CopyType
<1>5. ASSUME NEW p \in Orders, SaveOrder(p) PROVE row'[o].handed
  BY <1>5 DEF SaveOrder, Working
<1>6. CASE UNCHANGED row
  BY <1>6
<1>7. ASSUME NEW w \in Workers, Step(w) PROVE row'[o].handed
  BY <1>2, <1>3, <1>4, <1>5, <1>6, <1>7
     DEF Step, ClaimFails, HandOver, AcceptOrOffer, OfferToOutlet, HandNext
<1> QED
  BY <1>6, <1>7
     DEF Next, vars, Crash, BeginMove, BeginPay, BeginCall, StartPass, NewPeriod, Tick

\* Once the checkout of an order is over, its stamp stays.
THEOREM StampsStay == Spec => StampKept
<1>1. HandoverInv /\ [Next]_vars
      => [\A o \in Orders : row[o].handed /\ phase[o] = "idle" => row'[o].handed]_vars
  BY StampStep
<1> QED
  BY <1>1, Safety, PTL DEF Spec, StampKept

-----------------------------------------------------------------------------
(* Cancellation *)

Finished(o) == row[o].status = "cancelled" /\ Touching(o) = {}

\* A worker still busy with a finished order holds a payment of a cancelled order.
LEMMA AwayFrom ==
  ASSUME HandoverInv, NEW o \in Orders, Finished(o), NEW w \in Workers, phase[w] # "idle"
  PROVE  /\ w # o
         /\ \/ loc[w].order # o
            \/ phase[w] = "pay" /\ loc[w].copy.status = "cancelled"
<1>1. loc[w].order # o \/ loc[w].copy.status = "cancelled"
  BY DEF Finished, Touching
<1>2. HeldAt(w, phase[w], loc[w], accepted, Reached)
  BY DEF HandoverInv, WorkersInv
<1> QED
  BY <1>1, <1>2 DEF HeldAt

\* A worker that goes elsewhere leaves a finished order untouched.
LEMMA GotoAway ==
  ASSUME HandoverInv, NEW o \in Orders, Finished(o), NEW w \in Workers,
         NEW p, NEW l, Goto(w, p, l),
         p = "idle" \/ l.order # o \/ l.copy.status = "cancelled",
         \A r \in Replicas : o \notin batch'[r]
  PROVE  Touching(o)' = {}
<1>1. ASSUME NEW v \in Workers
      PROVE  phase'[v] = "idle" \/ loc'[v].order # o \/ loc'[v].copy.status = "cancelled"
  <2>1. CASE v = w
    BY <2>1 DEF HandoverInv, WorkersInv, Goto
  <2>2. CASE v # w
    BY <2>2 DEF HandoverInv, WorkersInv, Goto, Finished, Touching
  <2> QED
    BY <2>1, <2>2
<1> QED
  BY <1>1 DEF Touching

\* So does a worker whose call is over.
LEMMA ReturnAway ==
  ASSUME HandoverInv, NEW o \in Orders, Finished(o), NEW w \in Workers, w # o, Return(w),
         \A r \in Replicas : o \notin batch'[r]
  PROVE  Touching(o)' = {}
<1>1. (IF w \in Orders THEN "link" ELSE "idle") = "idle" \/ Nothing(w).order # o
  BY NothingType
<1> QED
  BY <1>1, GotoAway DEF Return

\* A step of a worker leaves a finished order as it is.
LEMMA StepAway ==
  ASSUME HandoverInv, NEW o \in Orders, Finished(o), NEW w \in Workers, Step(w)
  PROVE  row'[o].status = "cancelled" /\ Touching(o)' = {} /\ told'[o] = told[o]
<1> DEFINE Goal == row'[o].status = "cancelled" /\ Touching(o)' = {} /\ told'[o] = told[o]
<1>0. /\ row \in [Orders -> CopyType] /\ told \in [Orders -> Nat]
      /\ row[o].status = "cancelled"
      /\ \A r \in Replicas : o \notin batch[r]
  BY DEF HandoverInv, RowsInv, HistoryInv, Finished, Touching
<1>1. ASSUME phase[w] # "idle"
      PROVE  /\ w # o /\ loc[w].order \in Orders
             /\ \/ loc[w].order # o
                \/ phase[w] = "pay" /\ loc[w].copy.status = "cancelled"
  BY <1>1, AwayFrom DEF HandoverInv, WorkersInv, LocType
<1>2. CASE Claim(w)
  <2>1. w # o /\ loc[w].order # o /\ loc[w].order \in Orders
        /\ UNCHANGED <<batch, told>>
    BY <1>1, <1>2 DEF Claim, Working
  <2>2. row'[o] = row[o]
    BY <1>0, <1>2, <2>1 DEF Claim
  <2>3. Goto(w, "publish", loc[w]) \/ Return(w)
    BY <1>2 DEF Claim
  <2> QED
    BY <1>0, <2>1, <2>2, <2>3, GotoAway, ReturnAway
<1>3. CASE ClaimFails(w)
  <2>1. w # o /\ UNCHANGED <<batch, told, row>>
    BY <1>1, <1>3 DEF ClaimFails, Working, history
  <2>2. (IF w \in Orders THEN "offer" ELSE "idle") = "idle" \/ Nothing(w).order # o
    BY <2>1, NothingType
  <2> QED
    BY <1>0, <1>3, <2>1, <2>2, GotoAway DEF ClaimFails
<1>4. CASE PayWrite(w)
  <2>1. /\ w # o /\ loc[w].order \in Orders /\ UNCHANGED <<batch, told>>
        /\ loc[w].order # o \/ loc[w].copy.status = "cancelled"
    BY <1>1, <1>4 DEF PayWrite, Working
  <2>2. row'[o].status = "cancelled"
    BY <1>0, <1>4, <2>1 DEF PayWrite, AcceptsOnPayment, CopyType
  <2>3. Goto(w, "publish", loc[w]) \/ Return(w)
    BY <1>4 DEF PayWrite
  <2> QED
    BY <1>0, <2>1, <2>2, <2>3, GotoAway, ReturnAway
<1>5. CASE HandOver(w)
  <2>1. w # o /\ loc[w].order # o /\ loc[w].order \in Orders /\ UNCHANGED <<batch, row>>
    BY <1>1, <1>5 DEF HandOver, Working
  <2>2. told'[o] = told[o]
    BY <1>0, <1>5, <2>1 DEF HandOver
  <2>3. Goto(w, "stamp", loc[w]) \/ Return(w)
    BY <1>5 DEF HandOver
  <2> QED
    BY <1>0, <2>1, <2>2, <2>3, GotoAway, ReturnAway
<1>6. CASE StampHandoff(w)
  <2>1. w # o /\ loc[w].order # o /\ loc[w].order \in Orders
        /\ UNCHANGED <<batch, told>> /\ Return(w)
    BY <1>1, <1>6 DEF StampHandoff, Working, history
  <2>2. row'[o] = row[o]
    BY <1>0, <1>6, <2>1 DEF StampHandoff
  <2> QED
    BY <1>0, <2>1, <2>2, ReturnAway
<1>7. CASE w \in Orders /\ (AcceptOrOffer(w) \/ OfferToOutlet(w) \/ SaveOrder(w))
  <2>1. w # o /\ UNCHANGED <<batch, told>>
    BY <1>1, <1>7 DEF AcceptOrOffer, OfferToOutlet, SaveOrder, Working, history
  <2>2. row'[o] = row[o]
    BY <1>0, <1>7, <2>1 DEF AcceptOrOffer, OfferToOutlet, SaveOrder
  <2>3. At(w, row[w], "confirmed").order # o /\ Nothing(w).order # o
    BY <1>7, <2>1, NothingType DEF At
  <2>4. \/ Return(w) \/ Goto(w, "claim", At(w, row[w], "confirmed"))
        \/ \E p \in Phases : Goto(w, p, Nothing(w))
    BY <1>7 DEF AcceptOrOffer, OfferToOutlet, SaveOrder, Phases
  <2> QED
    BY <1>0, <2>1, <2>2, <2>3, <2>4, GotoAway, ReturnAway
<1>8. CASE w \in Replicas /\ HandNext(w)
  <2>1. PICK q \in batch[w] :
        /\ batch' = [batch EXCEPT ![w] = @ \ {q}]
        /\ Goto(w, "publish", At(q, [Placed(q) EXCEPT !.status = "confirmed"], "confirmed"))
    BY <1>8 DEF HandNext
  <2>2. q # o /\ \A r \in Replicas : o \notin batch'[r]
    BY <1>0, <1>8, <2>1 DEF HandoverInv, PassInv
  <2>3. Touching(o)' = {}
    BY <2>1, <2>2, GotoAway DEF At
  <2> QED
    BY <1>0, <1>8, <2>3 DEF HandNext, history
<1> QED
  BY <1>2, <1>3, <1>4, <1>5, <1>6, <1>7, <1>8 DEF Step

\* So does everything else that begins or ends.
LEMMA CancelledStep ==
  ASSUME HandoverInv, [Next]_vars, NEW o \in Orders, Finished(o)
  PROVE  row'[o].status = "cancelled" /\ Touching(o)' = {} /\ told'[o] = told[o]
<1>0. row[o].status = "cancelled" /\ \A r \in Replicas : o \notin batch[r]
  BY DEF Finished, Touching
<1>1. ASSUME NEW w \in Workers, Crash(w)
      PROVE  row'[o].status = "cancelled" /\ Touching(o)' = {} /\ told'[o] = told[o]
  <2>1. \A r \in Replicas : o \notin batch'[r]
    BY <1>0, <1>1 DEF Crash, HandoverInv, PassInv
  <2>2. Touching(o)' = {}
    BY <1>1, <2>1, GotoAway DEF Crash
  <2> QED
    BY <1>0, <1>1, <2>2 DEF Crash, history
<1>2. ASSUME NEW c \in Callers, NEW q \in Orders, NEW next, NEW to,
             BeginCall(c, q, next, to), q # o \/ row[q].status = "cancelled"
      PROVE  row'[o].status = "cancelled" /\ Touching(o)' = {} /\ told'[o] = told[o]
  <2>1. c \in Workers /\ (At(q, row[q], to).order # o \/ At(q, row[q], to).copy.status = "cancelled")
    BY <1>2 DEF Workers, At
  <2>2. Touching(o)' = {}
    BY <1>0, <1>2, <2>1, GotoAway DEF BeginCall
  <2> QED
    BY <1>0, <1>2, <2>2 DEF BeginCall, history
<1>3. ASSUME NEW c \in Callers, NEW q \in Orders, NEW to, BeginMove(c, q, to)
      PROVE  q # o
  BY <1>0, <1>3, MovesOn DEF BeginMove
<1>4. ASSUME NEW c \in Callers, NEW q \in Orders, BeginPay(c, q)
      PROVE  row'[o].status = "cancelled" /\ Touching(o)' = {} /\ told'[o] = told[o]
  BY <1>0, <1>2, <1>4 DEF BeginPay
<1>5. ASSUME NEW r \in Replicas, StartPass(r)
      PROVE  row'[o].status = "cancelled" /\ Touching(o)' = {} /\ told'[o] = told[o]
  <2>1. \A S \in Batches : o \notin S
    BY <1>0 DEF Batches, Listed
  <2>2. \A q \in Replicas : o \notin batch'[q]
    BY <1>0, <1>5, <2>1 DEF StartPass, HandoverInv, PassInv
  <2> QED
    BY <1>0, <1>5, <2>2 DEF StartPass, history, Finished, Touching
<1>6. CASE NewPeriod \/ Tick \/ UNCHANGED vars
  BY <1>6 DEF NewPeriod, Tick, vars, history, Finished, Touching
<1>7. ASSUME NEW c \in Callers, NEW q \in Orders, NEW to, BeginMove(c, q, to)
      PROVE  row'[o].status = "cancelled" /\ Touching(o)' = {} /\ told'[o] = told[o]
  BY <1>2, <1>3, <1>7 DEF BeginMove
<1> QED
  BY <1>1, <1>4, <1>5, <1>6, <1>7, StepAway DEF Next

\* A cancellation nobody overlaps is final.
THEOREM CancellationsStay == Spec => CancelledIsFinal
<1>1. HandoverInv /\ [Next]_vars
      => [\A o \in Orders :
            row[o].status = "cancelled" /\ Touching(o) = {}
            => row'[o].status = "cancelled" /\ Touching(o)' = {} /\ told'[o] = told[o]]_vars
  BY CancelledStep DEF Finished
<1> QED
  BY <1>1, Safety, PTL DEF Spec, CancelledIsFinal

=============================================================================
