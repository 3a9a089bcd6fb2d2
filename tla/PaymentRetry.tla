------------------------------ MODULE PaymentRetry ------------------------------
(***************************************************************************)
(* The payment of one online order: the customer's retries, the payment    *)
(* intents they create in treasury, and the three ways a payment comes     *)
(* back - the treasury.payment.succeeded event, the poller's sweep and a   *)
(* retry that finds the current intent paid - until the order is paid, or  *)
(* its retry window closes and the poller cancels it.                      *)
(*                                                                         *)
(* Intent i is the one created under attempt number i: treasury keeps one  *)
(* intent per payment reference, and the reference carries the attempt.    *)
(***************************************************************************)
EXTENDS Naturals, Sequences, SequencesExt

CONSTANTS
  Callers,     \* RetryOrderPayment calls that can run at once
  Consumers,   \* deliveries of treasury.payment.succeeded handled at once
  Pollers,     \* sweeps of the payment poller that can overlap
  Staff,       \* cancellations by the outlet or the customer
  AutoAccept,  \* the tenant accepts orders automatically
  MaxRetries,  \* MaxPaymentRetries
  MaxFaults    \* bound: failed treasury calls, failed writes and crashes

ASSUME RetryBounds == MaxRetries \in Nat /\ MaxFaults \in Nat /\ AutoAccept \in BOOLEAN

Procs == Callers \cup Consumers \cup Pollers \cup Staff

\* maxIntentsChecked
MaxChecked == MaxRetries + 1

\* One more than the code creates: an attempt too many would show.
Intents == 1..(MaxRetries + 2)

VARIABLES
  order,    \* the order's row and the payment keys of its metadata
  intent,   \* treasury: the state of each intent
  window,   \* the retry window: open, grace (just closed) or closed
  phase,    \* where each call is
  loc,      \* what each call holds
  refunds,  \* intents treasury was asked to refund
  faults    \* faults so far

vars == <<order, intent, window, phase, loc, refunds, faults>>

\* current: the payment_intent_id column; ids: payment_intent_ids; refundOn:
\* payment_intent_id of the metadata; paidBy: payment_paid_intent_id; extra:
\* payment_extra_paid_intents; recent: the last retry was under 20 seconds ago.
\* 0 stands for no intent.
OrderType == [status : {"pending", "confirmed", "cancelled"},
              pay : {"pending", "paid", "refunded"},
              current : Intents \cup {0}, ids : Seq(Intents),
              refundOn : Intents \cup {0}, paidBy : Intents \cup {0},
              extra : SUBSET Intents, retries : 0..MaxRetries, recent : BOOLEAN]

IntentStates == {"none", "pending", "processing", "succeeded", "failed"}

Windows == {"open", "grace", "closed"}

Phases == {"idle", "asking", "claiming", "creating", "linking", "listing",
           "recording", "reading", "paying", "checking", "expiring", "cancelling",
           "refunding", "stamping"}

\* intent: the intent a call works on; status, pay: the order as it read it;
\* left: intents still to check; first: the current intent's state as checked;
\* failed: some check failed; now: the window when the sweep began; paid: some
\* recorded intent had succeeded by then.
LocType == [intent : Intents \cup {0}, status : {"pending", "confirmed", "cancelled"},
            pay : {"pending", "paid", "refunded"}, left : Seq(Intents),
            first : IntentStates, failed : BOOLEAN, now : Windows, paid : BOOLEAN]

NoLoc == [intent |-> 0, status |-> "pending", pay |-> "pending", left |-> <<>>,
          first |-> "none", failed |-> FALSE, now |-> "open", paid |-> FALSE]

TypeOK ==
  /\ order \in OrderType
  /\ intent \in [Intents -> IntentStates]
  /\ window \in Windows
  /\ phase \in [Procs -> Phases]
  /\ loc \in [Procs -> LocType]
  /\ refunds \subseteq Intents
  /\ faults \in 0..MaxFaults

\* Checkout has just returned, with the first intent or without one.
Init ==
  /\ \E i \in {0, 1} :
       /\ order = [status |-> "pending", pay |-> "pending", current |-> i,
                   ids |-> IF i = 0 THEN <<>> ELSE <<i>>, refundOn |-> i,
                   paidBy |-> 0, extra |-> {}, retries |-> 0, recent |-> FALSE]
       /\ intent = [j \in Intents |-> IF j = i THEN "pending" ELSE "none"]
  /\ window = "open"
  /\ phase = [p \in Procs |-> "idle"]
  /\ loc = [p \in Procs |-> NoLoc]
  /\ refunds = {}
  /\ faults = 0

-----------------------------------------------------------------------------
(* Steps *)

Goto(p, next, l) ==
  /\ phase' = [phase EXCEPT ![p] = next]
  /\ loc' = [loc EXCEPT ![p] = IF next = "idle" THEN NoLoc ELSE l]

Return(p) == Goto(p, "idle", NoLoc)

Fault == faults < MaxFaults /\ faults' = faults + 1

-----------------------------------------------------------------------------
(* RetryOrderPayment and createOrderIntent *)

Waiting == order.status = "pending" /\ order.pay = "pending"

BeginRetry(c) ==
  /\ phase[c] = "idle"
  /\ Waiting
  /\ window = "open"
  /\ Goto(c, IF order.current = 0 THEN "claiming" ELSE "asking",
          [NoLoc EXCEPT !.intent = order.current])
  /\ UNCHANGED <<order, intent, window, refunds, faults>>

\* The current intent paid: confirm it.  Still payable: hand it back.  Failed:
\* start another.
AskCurrent(c) ==
  /\ phase[c] = "asking"
  /\ \/ /\ Fault
        /\ Return(c)
     \/ /\ UNCHANGED faults
        /\ CASE intent[loc[c].intent] = "succeeded" -> Goto(c, "recording", loc[c])
             [] intent[loc[c].intent] = "failed"    -> Goto(c, "claiming", NoLoc)
             [] OTHER                               -> Return(c)
  /\ UNCHANGED <<order, intent, window, refunds>>

\* Mutant: one retry too many.
Claimable_OneMore ==
  /\ Waiting
  /\ window = "open"
  /\ order.retries <= MaxRetries
  /\ ~order.recent

\* paymentRetryClaim, on the row as it is now.
Claimable ==
  /\ Waiting
  /\ window = "open"
  /\ order.retries < MaxRetries
  /\ ~order.recent

ClaimSlot(c) ==
  /\ phase[c] = "claiming"
  /\ IF Claimable
     THEN /\ order' = [order EXCEPT !.retries = @ + 1, !.recent = TRUE]
          /\ Goto(c, "creating", [NoLoc EXCEPT !.intent = order.retries + 2])
     ELSE /\ Return(c)
          /\ UNCHANGED order
  /\ UNCHANGED <<intent, window, refunds, faults>>

CreateIntent(c) ==
  /\ phase[c] = "creating"
  /\ \/ /\ Fault
        /\ Return(c)
        /\ UNCHANGED intent
     \/ /\ intent' = [intent EXCEPT ![loc[c].intent] =
                        IF @ = "none" THEN "pending" ELSE @]
        /\ Goto(c, "linking", loc[c])
        /\ UNCHANGED faults
  /\ UNCHANGED <<order, window, refunds>>

\* SetOrderPaymentIntent; a failed write is only logged.
LinkIntent(c) ==
  /\ phase[c] = "linking"
  /\ Goto(c, "listing", loc[c])
  /\ \/ Fault /\ UNCHANGED order
     \/ order' = [order EXCEPT !.current = loc[c].intent] /\ UNCHANGED faults
  /\ UNCHANGED <<intent, window, refunds>>

\* intentRecordPatch: list the intent, and make it the one a refund is drawn on.
ListIntent(c) ==
  LET i == loc[c].intent
  IN /\ phase[c] = "listing"
     /\ Return(c)
     /\ \/ Fault /\ UNCHANGED order
        \/ /\ order' = [order EXCEPT !.ids = IF Contains(@, i) THEN @ ELSE Append(@, i),
                                     !.refundOn = i]
           /\ UNCHANGED faults
     /\ UNCHANGED <<intent, window, refunds>>

-----------------------------------------------------------------------------
(* RecordPaidIntent, then UpdatePaymentStatus(paid) *)

\* Mutant: a success that comes again counts as another one.
PaidIntentPatch_Again(i) ==
  IF order.pay = "paid" /\ order.paidBy # 0
  THEN [order EXCEPT !.extra = @ \cup {i}]
  ELSE [order EXCEPT !.paidBy = i, !.refundOn = i]

PaidIntentPatch(i) ==
  IF order.paidBy = i THEN order
  ELSE IF order.pay = "paid" /\ order.paidBy # 0
       THEN [order EXCEPT !.extra = @ \cup {i}]
       ELSE [order EXCEPT !.paidBy = i, !.refundOn = i]

\* A write that fails is only logged.
RecordPaidIntent(p) ==
  /\ phase[p] = "recording"
  /\ Goto(p, "reading", NoLoc)
  /\ \/ Fault /\ UNCHANGED order
     \/ order' = PaidIntentPatch(loc[p].intent) /\ UNCHANGED faults
  /\ UNCHANGED <<intent, window, refunds>>

ReadForPaid(p) ==
  /\ phase[p] = "reading"
  /\ IF order.pay = "paid"
     THEN Return(p)
     ELSE Goto(p, "paying", [NoLoc EXCEPT !.status = order.status, !.pay = order.pay])
  /\ UNCHANGED <<order, intent, window, refunds, faults>>

\* The compare-and-set on payment_status; status goes back to what was read.
MarkPaid(p) ==
  /\ phase[p] = "paying"
  /\ Return(p)
  /\ order' = IF order.pay # loc[p].pay THEN order
              ELSE [order EXCEPT !.pay = "paid",
                                 !.status = IF AutoAccept /\ loc[p].status = "pending"
                                            THEN "confirmed" ELSE loc[p].status]
  /\ UNCHANGED <<intent, window, refunds, faults>>

\* The event may come late, more than once, or never.
ReceiveSuccess(k) ==
  /\ phase[k] = "idle"
  /\ \E i \in Intents : /\ intent[i] = "succeeded"
                        /\ Goto(k, "recording", [NoLoc EXCEPT !.intent = i])
  /\ UNCHANGED <<order, intent, window, refunds, faults>>

-----------------------------------------------------------------------------
(* The poller: sweepPendingPayments, pollOrder, decidePaymentPoll *)

\* Mutant: earlier attempts are forgotten.
IntentsToCheck_Current == IF order.current = 0 THEN <<>> ELSE <<order.current>>

\* PaymentIntentIDs: the current intent, then the others, latest first.
IntentsToCheck ==
  LET others == RemoveFirst(Reverse(order.ids), order.current)
      all == (IF order.current = 0 THEN <<>> ELSE <<order.current>>) \o others
  IN SubSeq(all, 1, IF Len(all) <= MaxChecked THEN Len(all) ELSE MaxChecked)

Recorded == ToSet(order.ids) \cup ({order.current} \ {0})

ListStale(p) ==
  /\ phase[p] = "idle"
  /\ Waiting
  /\ Goto(p, "checking", [NoLoc EXCEPT !.left = IntentsToCheck, !.now = window,
                                       !.paid = \E i \in Recorded : intent[i] = "succeeded"])
  /\ UNCHANGED <<order, intent, window, refunds, faults>>

\* One GetPaymentStatus; the first is the current intent's.
CheckIntent(p) ==
  LET l == loc[p]
      i == Head(l.left)
      rest == [l EXCEPT !.left = Tail(@), !.intent = i]
  IN /\ phase[p] = "checking"
     /\ l.left # <<>>
     /\ \/ /\ Fault
           /\ Goto(p, "checking", [rest EXCEPT !.failed = TRUE])
        \/ /\ UNCHANGED faults
           /\ IF intent[i] = "succeeded"
              THEN Goto(p, "recording", [NoLoc EXCEPT !.intent = i])
              ELSE Goto(p, "checking",
                        [rest EXCEPT !.first = IF l.intent = 0 THEN intent[i] ELSE @])
     /\ UNCHANGED <<order, intent, window, refunds>>

\* Mutant: a status check that failed counts as unpaid.
Expires_DespiteError(l) ==
  /\ l.now # "open"
  /\ ~(l.first = "processing" /\ l.now = "grace")

\* Mutant: a prompt still processing keeps the order open for good.
Expires_NoGraceEnd(l) ==
  /\ ~l.failed
  /\ l.now # "open"
  /\ l.first # "processing"

Expires(l) ==
  /\ ~l.failed
  /\ l.now # "open"
  /\ ~(l.first = "processing" /\ l.now = "grace")

DecidePoll(p) ==
  /\ phase[p] = "checking"
  /\ loc[p].left = <<>>
  /\ IF Expires(loc[p]) THEN Goto(p, "expiring", [NoLoc EXCEPT !.paid = loc[p].paid])
     ELSE Return(p)
  /\ UNCHANGED <<order, intent, window, refunds, faults>>

-----------------------------------------------------------------------------
(* CancelOrder, called by the poller, the outlet or the customer *)

BeginCancel(s) ==
  /\ phase[s] = "idle"
  /\ Goto(s, "expiring", NoLoc)
  /\ UNCHANGED <<order, intent, window, refunds, faults>>

\* The metadata's intent, else the column's.
RefundIntent == IF order.refundOn # 0 THEN order.refundOn ELSE order.current

ReadForCancel(p) ==
  /\ phase[p] = "expiring"
  /\ IF order.status = "cancelled"
     THEN Return(p)
     ELSE Goto(p, "cancelling", [loc[p] EXCEPT !.status = order.status, !.pay = order.pay,
                                               !.intent = RefundIntent])
  /\ UNCHANGED <<order, intent, window, refunds, faults>>

\* The compare-and-set on status; payment_status goes back to what was read.
CancelUnpaid(p) ==
  LET l == loc[p]
  IN /\ phase[p] = "cancelling"
     /\ IF order.status = l.status
        THEN /\ order' = [order EXCEPT !.status = "cancelled", !.pay = l.pay]
             /\ IF l.pay = "paid" THEN Goto(p, "refunding", l) ELSE Return(p)
        ELSE UNCHANGED order /\ Return(p)
     /\ UNCHANGED <<intent, window, refunds, faults>>

\* Without an intent the refund is left to staff.
AskRefund(p) ==
  /\ phase[p] = "refunding"
  /\ \/ /\ Fault \/ (loc[p].intent = 0 /\ UNCHANGED faults)
        /\ Return(p)
        /\ UNCHANGED refunds
     \/ /\ loc[p].intent # 0
        /\ refunds' = refunds \cup {loc[p].intent}
        /\ Goto(p, "stamping", loc[p])
        /\ UNCHANGED faults
  /\ UNCHANGED <<order, intent, window>>

RecordRefund(p) ==
  /\ phase[p] = "stamping"
  /\ Return(p)
  /\ order' = IF order.pay = "paid"
              THEN [order EXCEPT !.pay = "refunded", !.status = "cancelled"] ELSE order
  /\ UNCHANGED <<intent, window, refunds, faults>>

-----------------------------------------------------------------------------
(* Treasury, time and crashes *)

\* A prompt is opened; a payment closes; a failed one may still be completed.
TreasuryMoves(i) ==
  /\ \E s \in CASE intent[i] = "pending"    -> {"processing", "failed"}
               [] intent[i] = "processing" -> {"succeeded", "failed"}
               [] intent[i] = "failed"     -> {"succeeded"}
               [] OTHER                    -> {} :
       intent' = [intent EXCEPT ![i] = s]
  /\ UNCHANGED <<order, window, phase, loc, refunds, faults>>

WindowMoves ==
  /\ \/ window = "open" /\ window' = "grace"
     \/ window = "grace" /\ window' = "closed"
  /\ UNCHANGED <<order, intent, phase, loc, refunds, faults>>

SpacingPasses ==
  /\ order.recent
  /\ order' = [order EXCEPT !.recent = FALSE]
  /\ UNCHANGED <<intent, window, phase, loc, refunds, faults>>

Crash(p) ==
  /\ phase[p] # "idle"
  /\ Fault
  /\ Return(p)
  /\ UNCHANGED <<order, intent, window, refunds>>

Paid(p) == RecordPaidIntent(p) \/ ReadForPaid(p) \/ MarkPaid(p)

Cancel(p) == ReadForCancel(p) \/ CancelUnpaid(p) \/ AskRefund(p) \/ RecordRefund(p)

Caller(c) ==
  \/ BeginRetry(c) \/ AskCurrent(c) \/ ClaimSlot(c)
  \/ CreateIntent(c) \/ LinkIntent(c) \/ ListIntent(c) \/ Paid(c)

Consumer(k) == ReceiveSuccess(k) \/ Paid(k)

Poller(p) == ListStale(p) \/ CheckIntent(p) \/ DecidePoll(p) \/ Paid(p) \/ Cancel(p)

Rejecter(s) == BeginCancel(s) \/ Cancel(s)

Environment ==
  WindowMoves \/ SpacingPasses \/ \E i \in Intents : TreasuryMoves(i)

Next ==
  \/ \E c \in Callers : Caller(c)
  \/ \E k \in Consumers : Consumer(k)
  \/ \E p \in Pollers : Poller(p)
  \/ \E s \in Staff : Rejecter(s)
  \/ \E p \in Procs : Crash(p)
  \/ Environment

Spec == Init /\ [][Next]_vars

\* The poller's ticker keeps firing and its sweep keeps running; time passes.
FairSpec == Spec /\ WF_vars(WindowMoves) /\ \A p \in Pollers : WF_vars(Poller(p))

-----------------------------------------------------------------------------
(* Properties *)

\* Every intent the order records is one the poller's sweep asks about: the cap
\* on retries and the cap on intents checked agree (claims may race).
PollerSeesEveryIntent == Recorded = ToSet(IntentsToCheck)

Succeeded == {i \in Intents : intent[i] = "succeeded"}

\* A payment is listed as one to give back only if the customer paid twice: the same
\* success found by the event, the poller and a retry, in any order around the paid
\* transition, or again after a cancellation or refund, never lists the only payment.
\* (The converse is not so: two successes recorded before either marks the order paid
\* leave the list empty.)
ExtraMeansPaidTwice == \A i \in order.extra : i \in Succeeded /\ Succeeded # {i}

\* "A status check error never cancels: the payment may have gone through": a
\* sweep never cancels an order one of whose recorded intents had been paid when
\* the sweep began.
PaidBeforeSweepKept ==
  \A p \in Pollers : phase[p] \in {"expiring", "cancelling"} => ~loc[p].paid

\* An unpaid order does not hold its stock for ever: it is paid or cancelled.
WaitingEnds == Waiting ~> ~Waiting

NobodyCancels == [](\A s \in Staff : phase[s] = "idle")

\* A payment completed inside the window confirms the order, on whichever of the
\* order's listed intents it was made and even if the success event is lost.
PaidInTimeConfirms ==
  NobodyCancels =>
    ((window = "open" /\ Waiting /\ \E i \in ToSet(order.ids) : intent[i] = "succeeded")
     ~> order.pay = "paid")

\* "so a later refund is drawn on the right intent": refunds are drawn on intents
\* that were paid.
RefundOnPaidIntent == \A i \in refunds : intent[i] = "succeeded"

=============================================================================
