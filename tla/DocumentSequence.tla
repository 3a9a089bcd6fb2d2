---------------------------- MODULE DocumentSequence ----------------------------
(***************************************************************************)
(* The order number counter of one tenant: a row of document_sequences that *)
(* concurrent calls of GenerateNumber advance by compare-and-set, and that *)
(* the first of them creates.                                              *)
(***************************************************************************)
EXTENDS Naturals, Sequences

CONSTANTS
  Minters,  \* callers of GenerateNumber
  MaxTries  \* attempts of one call

ASSUME MaxTriesAssumption == MaxTries \in Nat \ {0}

VARIABLES
  sequence,  \* the row: whether it exists, and current_val
  mint,      \* where each caller is, the value it read, and the number it minted
  issued     \* history: the numbers minted, in order

sequenceVars == <<sequence, mint, issued>>

MintType == [step : {"idle", "look", "create", "reread", "swap", "minted", "failed"},
             tries : 0..MaxTries, seen : Nat]

NoMint == [step |-> "idle", tries |-> 0, seen |-> 0]

SequenceTypeOK ==
  /\ sequence \in [exists : BOOLEAN, val : Nat]
  /\ mint \in [Minters -> MintType]
  /\ issued \in Seq(Nat)

SequenceInit ==
  /\ sequence = [exists |-> FALSE, val |-> 0]
  /\ mint = [m \in Minters |-> NoMint]
  /\ issued = <<>>

GenerateNumber(m) ==
  /\ mint[m].step = "idle"
  /\ mint' = [mint EXCEPT ![m].step = "look"]
  /\ UNCHANGED <<sequence, issued>>

\* The caller goes to a step, holding a value it has read or minted.
MintAt(m, step, seen) ==
  mint' = [mint EXCEPT ![m] = [step |-> step, tries |-> mint[m].tries, seen |-> seen]]

TryAgain(m) ==
  LET tries == mint[m].tries + 1
  IN mint' = [mint EXCEPT ![m] = [step |-> IF tries = MaxTries THEN "failed" ELSE "look",
                                  tries |-> tries, seen |-> mint[m].seen]]

\* getOrCreate: the row, or a row of its own.
LookUp(m) ==
  /\ mint[m].step = "look"
  /\ MintAt(m, IF sequence.exists THEN "swap" ELSE "create", sequence.val)
  /\ UNCHANGED <<sequence, issued>>

\* Mutant: the default row is written over one that a concurrent call created.
Creates_Upsert == TRUE

\* One row per tenant and document type.
Creates == ~sequence.exists

CreateRow(m) ==
  /\ mint[m].step = "create"
  /\ sequence' = IF Creates THEN [exists |-> TRUE, val |-> 0] ELSE sequence
  /\ MintAt(m, IF Creates THEN "swap" ELSE "reread", 0)
  /\ UNCHANGED issued

Reread(m) ==
  /\ mint[m].step = "reread"
  /\ MintAt(m, "swap", sequence.val)
  /\ UNCHANGED <<sequence, issued>>

\* Mutant: the counter is written without comparing it.
Unmoved_Unchecked(m) == TRUE

Unmoved(m) == sequence.val = mint[m].seen

Swap(m) ==
  /\ mint[m].step = "swap"
  /\ IF Unmoved(m)
     THEN /\ sequence' = [sequence EXCEPT !.val = mint[m].seen + 1]
          /\ MintAt(m, "minted", mint[m].seen + 1)
          /\ issued' = Append(issued, mint[m].seen + 1)
     ELSE /\ TryAgain(m)
          /\ UNCHANGED <<sequence, issued>>

\* A database error ends the attempt; the write may have landed all the same.
AttemptFails(m) ==
  /\ mint[m].step \in {"look", "create", "reread", "swap"}
  /\ TryAgain(m)
  /\ \/ UNCHANGED sequence
     \/ /\ mint[m].step = "swap" /\ Unmoved(m)
        /\ sequence' = [sequence EXCEPT !.val = mint[m].seen + 1]
  /\ UNCHANGED issued

\* The caller has its number or its error.
Return(m) ==
  /\ mint[m].step \in {"minted", "failed"}
  /\ mint' = [mint EXCEPT ![m] = NoMint]
  /\ UNCHANGED <<sequence, issued>>

MintStep(m) == LookUp(m) \/ CreateRow(m) \/ Reread(m) \/ Swap(m)

SequenceNext ==
  \E m \in Minters : GenerateNumber(m) \/ MintStep(m) \/ AttemptFails(m) \/ Return(m)

SequenceSpec == SequenceInit /\ [][SequenceNext]_sequenceVars

-----------------------------------------------------------------------------

\* "an atomic, per-tenant, CAS-guarded counter": no number is minted twice, though
\* callers race for the row's creation and for each value, and a failed attempt
\* may have moved the counter.
MintedOnce == \A i, j \in DOMAIN issued : issued[i] = issued[j] => i = j

Source == INSTANCE NumberSource

\* The counter is a source of growing numbers.
NumberPromise == Source!Spec

=============================================================================
