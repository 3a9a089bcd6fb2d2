------------------------- MODULE DocumentSequenceProofs -------------------------
(***************************************************************************)
(* The counter never mints a number twice, for any number of callers and   *)
(* attempts, and is a source of growing numbers.                           *)
(***************************************************************************)
EXTENDS DocumentSequence, TLAPS

Attempting == {"idle", "look", "create", "reread", "swap"}

\* What keeps tries within its bound: a caller that has not given up has an attempt left.
AttemptsLeft == \A m \in Minters : mint[m].step \in Attempting => mint[m].tries < MaxTries

\* A caller that is about to swap has seen the row.
RowFound == \A m \in Minters : mint[m].step \in {"reread", "swap"} => sequence.exists

\* What makes MintedOnce inductive: the numbers grow, and the row holds the largest
\* number taken.  What callers have read does not matter, since the swap compares.
Growing ==
  /\ \A i, j \in DOMAIN issued : i < j => issued[i] < issued[j]
  /\ \A i \in DOMAIN issued : issued[i] <= sequence.val
  /\ ~sequence.exists => issued = <<>>

SequenceInv == SequenceTypeOK /\ AttemptsLeft /\ RowFound /\ Growing

USE MaxTriesAssumption

-----------------------------------------------------------------------------
(* Types *)

\* No caller has read or minted anything in the initial states (the row is absent).
LEMMA SequenceInitial == SequenceInit => SequenceInv
BY DEF SequenceInit, SequenceInv, SequenceTypeOK, AttemptsLeft, Attempting, RowFound,
       Growing, MintType, NoMint

\* A failed attempt of GenerateNumber keeps the caller's type, and leaves it an
\* attempt or makes it give up.
LEMMA TryAgainType ==
  ASSUME SequenceTypeOK, AttemptsLeft, NEW m \in Minters, mint[m].step \in Attempting, TryAgain(m)
  PROVE  mint' \in [Minters -> MintType] /\ AttemptsLeft'
<1> USE DEF SequenceTypeOK, AttemptsLeft, Attempting, MintType, TryAgain
<1>1. mint[m].tries + 1 \in 0..MaxTries
  OBVIOUS
<1>2. mint' \in [Minters -> MintType]
  BY <1>1
<1>3. AttemptsLeft'
  BY <1>1
<1> QED
  BY <1>2, <1>3

\* Every step of GenerateNumber keeps the types of the row, the callers and the
\* history.
LEMMA SequenceTypeStep ==
  ASSUME SequenceTypeOK, AttemptsLeft, SequenceNext
  PROVE  SequenceTypeOK' /\ AttemptsLeft'
<1> USE DEF SequenceTypeOK, AttemptsLeft, Attempting, MintType
<1> PICK m \in Minters : GenerateNumber(m) \/ MintStep(m) \/ AttemptFails(m) \/ Return(m)
  BY DEF SequenceNext
<1>1. CASE GenerateNumber(m)
  BY <1>1 DEF GenerateNumber
<1>2. CASE LookUp(m)
  <2>1. CASE sequence.exists
    BY <1>2, <2>1 DEF MintAt, LookUp
  <2>2. CASE ~sequence.exists
    BY <1>2, <2>2 DEF MintAt, LookUp
  <2> QED
    BY <2>1, <2>2
<1>3. CASE CreateRow(m)
  <2>1. CASE Creates
    BY <1>3, <2>1 DEF MintAt, CreateRow
  <2>2. CASE ~Creates
    BY <1>3, <2>2 DEF MintAt, CreateRow
  <2> QED
    BY <2>1, <2>2
<1>4. CASE Reread(m)
  BY <1>4 DEF MintAt, Reread
<1>5. CASE Swap(m)
  <2>1. CASE Unmoved(m)
    <3>1. mint[m].step = "swap" /\ mint[m].seen \in Nat /\ sequence.exists \in BOOLEAN
      BY <1>5 DEF Swap
    <3>2. /\ sequence' = [sequence EXCEPT !.val = mint[m].seen + 1]
          /\ issued' = Append(issued, mint[m].seen + 1)
      BY <1>5, <2>1 DEF Swap
    <3>3. sequence' \in [exists : BOOLEAN, val : Nat] /\ issued' \in Seq(Nat)
      <4>1. mint[m].seen + 1 \in Nat
        BY <3>1
      <4>2. sequence' \in [exists : BOOLEAN, val : Nat]
        BY <3>2, <4>1
      <4>3. issued' \in Seq(Nat)
        BY <3>2, <4>1
      <4> QED
        BY <4>2, <4>3
    <3>4. MintAt(m, "minted", mint[m].seen + 1)
      BY <1>5, <2>1 DEF Swap
    <3>5. mint' \in [Minters -> MintType] /\ AttemptsLeft'
      BY <3>1, <3>4, mint[m].seen + 1 \in Nat DEF MintAt
    <3> QED
      BY <3>3, <3>5
  <2>2. CASE ~Unmoved(m)
    BY <1>5, <2>2, TryAgainType DEF Swap
  <2> QED
    BY <2>1, <2>2
<1>6. CASE AttemptFails(m)
  <2>1. mint' \in [Minters -> MintType] /\ AttemptsLeft'
    BY <1>6, TryAgainType DEF AttemptFails
  <2>2. sequence' \in [exists : BOOLEAN, val : Nat] /\ issued' \in Seq(Nat)
    BY <1>6 DEF AttemptFails
  <2> QED
    BY <2>1, <2>2
<1>7. CASE Return(m)
  BY <1>7 DEF Return, NoMint
<1> QED
  BY <1>1, <1>2, <1>3, <1>4, <1>5, <1>6, <1>7 DEF MintStep

-----------------------------------------------------------------------------
(* The numbers *)

\* No step of GenerateNumber removes the row, and only a caller that finds it, or
\* creates it, comes to swap.
LEMMA RowStays ==
  ASSUME SequenceTypeOK, RowFound, SequenceNext
  PROVE  RowFound' /\ (sequence.exists => sequence'.exists)
<1> USE DEF SequenceTypeOK, MintType, RowFound
<1> PICK m \in Minters : GenerateNumber(m) \/ MintStep(m) \/ AttemptFails(m) \/ Return(m)
  BY DEF SequenceNext
<1>1. CASE GenerateNumber(m)
  BY <1>1 DEF GenerateNumber
<1>2. CASE LookUp(m)
  BY <1>2 DEF MintAt, LookUp
<1>3. CASE CreateRow(m)
  <2>1. sequence'.exists
    BY <1>3 DEF MintAt, CreateRow, Creates
  <2> QED
    BY <2>1
<1>4. CASE Reread(m)
  BY <1>4 DEF MintAt, Reread
<1>5. CASE Swap(m)
  BY <1>5 DEF MintAt, Swap, TryAgain
<1>6. CASE AttemptFails(m)
  <2>1. sequence'.exists = sequence.exists
    BY <1>6 DEF AttemptFails
  <2>2. \A k \in Minters : mint'[k].step \in {"reread", "swap"} => mint[k].step = mint'[k].step
    BY <1>6 DEF AttemptFails, TryAgain
  <2> QED
    BY <2>1, <2>2
<1>7. CASE Return(m)
  BY <1>7 DEF Return, NoMint
<1> QED
  BY <1>1, <1>2, <1>3, <1>4, <1>5, <1>6, <1>7 DEF MintStep

\* A step of GenerateNumber mints nothing and does not lower the counter, or it
\* mints the number after the counter's.
LEMMA SequenceAdvances ==
  ASSUME SequenceTypeOK, RowFound, Growing, SequenceNext
  PROVE  \/ /\ issued' = issued
            /\ issued # <<>> => sequence.val <= sequence'.val
         \/ /\ issued' = Append(issued, sequence.val + 1)
            /\ sequence'.val = sequence.val + 1
            /\ sequence'.exists
<1> USE DEF SequenceTypeOK, MintType
<1> PICK m \in Minters : GenerateNumber(m) \/ MintStep(m) \/ AttemptFails(m) \/ Return(m)
  BY DEF SequenceNext
<1>1. CASE GenerateNumber(m) \/ LookUp(m) \/ Reread(m) \/ Return(m)
  BY <1>1 DEF GenerateNumber, LookUp, Reread, Return
<1>2. CASE CreateRow(m)
  BY <1>2 DEF CreateRow, Creates, Growing
<1>3. CASE Swap(m)
  <2>1. CASE Unmoved(m)
    <3>1. sequence' = [sequence EXCEPT !.val = sequence.val + 1] /\ sequence.exists
      BY <1>3, <2>1 DEF Swap, Unmoved, RowFound
    <3> QED
      BY <1>3, <2>1, <3>1 DEF Swap, Unmoved
  <2>2. CASE ~Unmoved(m)
    BY <1>3, <2>2 DEF Swap
  <2> QED
    BY <2>1, <2>2
<1>4. CASE AttemptFails(m)
  BY <1>4 DEF AttemptFails, Unmoved
<1> QED
  BY <1>1, <1>2, <1>3, <1>4 DEF MintStep

\* Every step of GenerateNumber keeps the numbers growing.
LEMMA GrowingStep ==
  ASSUME SequenceInv, SequenceNext
  PROVE  Growing'
<1> USE DEF SequenceInv, SequenceTypeOK
<1>1. SequenceTypeOK' /\ RowFound' /\ (sequence.exists => sequence'.exists)
  BY SequenceTypeStep, RowStays
<1>2. CASE issued' = issued /\ (issued # <<>> => sequence.val <= sequence'.val)
  BY <1>1, <1>2 DEF Growing
<1>3. CASE /\ issued' = Append(issued, sequence.val + 1)
           /\ sequence'.val = sequence.val + 1
           /\ sequence'.exists
  <2>1. DOMAIN issued' = 1..(Len(issued) + 1) /\ DOMAIN issued = 1..Len(issued)
    BY <1>3
  <2>2. \A i \in DOMAIN issued' :
          issued'[i] = IF i = Len(issued) + 1 THEN sequence.val + 1 ELSE issued[i]
    BY <1>3, <2>1
  <2> QED
    BY <1>1, <1>3, <2>1, <2>2 DEF Growing
<1> QED
  BY <1>2, <1>3, SequenceAdvances

\* The inductive invariant is kept by every step, and by a step of anyone else.
LEMMA SequenceInvStep == SequenceInv /\ [SequenceNext]_sequenceVars => SequenceInv'
<1>1. ASSUME SequenceInv, SequenceNext PROVE SequenceInv'
  BY <1>1, SequenceTypeStep, RowStays, GrowingStep DEF SequenceInv
<1>2. ASSUME SequenceInv, UNCHANGED sequenceVars PROVE SequenceInv'
  BY <1>2 DEF SequenceInv, SequenceTypeOK, AttemptsLeft, RowFound, Growing, sequenceVars
<1> QED
  BY <1>1, <1>2

\* The counter's rows, callers and history are always well formed, and the numbers
\* grow.
THEOREM SequenceInvariant == SequenceSpec => []SequenceInv
BY SequenceInitial, SequenceInvStep, PTL DEF SequenceSpec

\* GenerateNumber never mints a number twice, whatever callers race and fail.
THEOREM MintedOnceAlways == SequenceSpec => []MintedOnce
<1>1. SequenceInv => MintedOnce
  <2> SUFFICES ASSUME SequenceInv, NEW i \in DOMAIN issued, NEW j \in DOMAIN issued,
                      issued[i] = issued[j]
               PROVE  i = j
    BY DEF MintedOnce
  <2>1. i \in Nat /\ j \in Nat /\ issued[i] \in Nat /\ issued[j] \in Nat
    BY DEF SequenceInv, SequenceTypeOK
  <2> QED
    BY <2>1 DEF SequenceInv, Growing
<1> QED
  BY <1>1, SequenceInvariant, PTL

-----------------------------------------------------------------------------
(* The abstract source *)

\* A step of GenerateNumber hands out one number larger than all before it, or
\* hands out none.
LEMMA NumberStep == SequenceInv /\ [SequenceNext]_sequenceVars => [Source!Next]_issued
<1>1. ASSUME SequenceInv, SequenceNext PROVE issued' = issued \/ Source!Next
  <2> USE DEF SequenceInv, SequenceTypeOK
  <2>1. CASE issued' = Append(issued, sequence.val + 1)
    <3>1. issued' # <<>> /\ Len(issued') = Len(issued) + 1 /\ issued'[Len(issued')] = sequence.val + 1
      BY <1>1, <2>1
    <3>2. \A i \in DOMAIN issued : issued[i] < sequence.val + 1
      BY <1>1 DEF Growing
    <3> QED
      BY <1>1, <2>1, <3>1, <3>2 DEF Source!Next, Source!HandOut
  <2> QED
    BY <1>1, <2>1, SequenceAdvances
<1> QED
  BY <1>1 DEF sequenceVars

\* The counter implements a source of growing numbers.
THEOREM NumbersGrow == SequenceSpec => NumberPromise
<1>1. SequenceInit => Source!Init
  BY DEF SequenceInit, Source!Init
<1> QED
  BY <1>1, NumberStep, SequenceInvariant, PTL DEF SequenceSpec, NumberPromise, Source!Spec

-----------------------------------------------------------------------------
(* What a failed attempt costs *)

\* The row starts at nothing, no caller has read a value the row has yet to reach, and
\* one that gave up has used all its attempts.
ReadInv ==
  /\ ~sequence.exists => sequence.val = 0
  /\ \A m \in Minters : /\ mint[m].step \in {"create", "reread", "swap"} => mint[m].seen <= sequence.val
                        /\ mint[m].step = "create" => mint[m].seen = 0
                        /\ mint[m].step = "failed" => mint[m].tries = MaxTries

\* A caller that has been trying since the counter was at some value has lost each of
\* its attempts to a number minted since.
Spent(m, since) ==
  mint[m].step # "minted" =>
    /\ since + mint[m].tries <= sequence.val
    /\ mint[m].step \in {"create", "reread", "swap"} => since + mint[m].tries <= mint[m].seen

\* The counter has not been read in the initial states.
LEMMA ReadInitial == SequenceInit => ReadInv
BY DEF SequenceInit, ReadInv, NoMint

\* The counter never goes back.
LEMMA CounterStays ==
  ASSUME SequenceInv, ReadInv, SequenceNext
  PROVE  sequence'.val \in Nat /\ sequence.val <= sequence'.val
<1> USE DEF SequenceInv, SequenceTypeOK, MintType
<1> PICK m \in Minters : GenerateNumber(m) \/ MintStep(m) \/ AttemptFails(m) \/ Return(m)
  BY DEF SequenceNext
<1>1. CASE GenerateNumber(m) \/ LookUp(m) \/ Reread(m) \/ Return(m)
  BY <1>1 DEF GenerateNumber, LookUp, Reread, Return
<1>2. CASE CreateRow(m)
  BY <1>2 DEF MintAt, CreateRow, Creates, ReadInv
<1>3. CASE Swap(m) \/ AttemptFails(m)
  BY <1>3 DEF Swap, AttemptFails, Unmoved
<1> QED
  BY <1>1, <1>2, <1>3 DEF MintStep

\* What a caller reads is a value of the row.
LEMMA ReadInvStep == SequenceInv /\ ReadInv /\ [SequenceNext]_sequenceVars => ReadInv'
<1>1. ASSUME SequenceInv, ReadInv, SequenceNext PROVE ReadInv'
  <2> USE DEF SequenceInv, SequenceTypeOK, MintType
  <2>1. sequence'.val \in Nat /\ sequence.val <= sequence'.val
    BY <1>1, CounterStays
  <2> PICK m \in Minters : GenerateNumber(m) \/ MintStep(m) \/ AttemptFails(m) \/ Return(m)
    BY <1>1 DEF SequenceNext
  <2>2. ~sequence'.exists => sequence'.val = 0
    <3>1. CASE GenerateNumber(m) \/ LookUp(m) \/ Reread(m) \/ Return(m)
      BY <1>1, <3>1 DEF GenerateNumber, LookUp, Reread, Return, ReadInv
    <3>2. CASE CreateRow(m)
      BY <1>1, <3>2 DEF CreateRow, Creates, ReadInv
    <3>3. CASE Swap(m) \/ AttemptFails(m)
      BY <1>1, <3>3 DEF Swap, AttemptFails, Unmoved, ReadInv, RowFound
    <3> QED
      BY <3>1, <3>2, <3>3 DEF MintStep
  <2>3. \A k \in Minters \ {m} : mint'[k] = mint[k]
    BY <1>1 DEF GenerateNumber, MintStep, MintAt, LookUp, CreateRow, Reread, Swap, AttemptFails, TryAgain, Return
  <2>4. /\ mint'[m].step \in {"create", "reread", "swap"} => mint'[m].seen <= sequence'.val
        /\ mint'[m].step = "create" => mint'[m].seen = 0
        /\ mint'[m].step = "failed" => mint'[m].tries = MaxTries
    <3>1. CASE GenerateNumber(m) \/ Return(m)
      BY <1>1, <3>1 DEF GenerateNumber, Return, NoMint
    <3>2. CASE LookUp(m) \/ Reread(m)
      BY <1>1, <3>2 DEF MintAt, LookUp, Reread, ReadInv
    <3>3. CASE CreateRow(m)
      BY <1>1, <2>1, <3>3 DEF MintAt, CreateRow
    <3>4. CASE Swap(m) \/ AttemptFails(m)
      BY <1>1, <3>4 DEF MintAt, Swap, AttemptFails, TryAgain
    <3> QED
      BY <3>1, <3>2, <3>3, <3>4 DEF MintStep
  <2>5. ASSUME NEW k \in Minters
        PROVE  /\ mint'[k].step \in {"create", "reread", "swap"} => mint'[k].seen <= sequence'.val
               /\ mint'[k].step = "create" => mint'[k].seen = 0
               /\ mint'[k].step = "failed" => mint'[k].tries = MaxTries
    <3>1. CASE k = m
      BY <2>4, <3>1
    <3>2. CASE k # m
      <4>1. mint'[k] = mint[k] /\ mint[k].seen \in Nat
        BY <1>1, <2>3, <3>2
      <4>2. /\ mint[k].step \in {"create", "reread", "swap"} => mint[k].seen <= sequence.val
            /\ mint[k].step = "create" => mint[k].seen = 0
            /\ mint[k].step = "failed" => mint[k].tries = MaxTries
        BY <1>1 DEF ReadInv
      <4> QED
        BY <1>1, <2>1, <4>1, <4>2
    <3> QED
      BY <3>1, <3>2
  <2> QED
    BY <2>2, <2>5 DEF ReadInv
<1>2. ReadInv /\ UNCHANGED sequenceVars => ReadInv'
  BY DEF ReadInv, sequenceVars
<1> QED
  BY <1>1, <1>2

\* Without database errors a step of a caller mints the number after the counter's,
\* or leaves the counter where it is.
LEMMA MintsNext ==
  ASSUME SequenceInv, ReadInv, NEW m \in Minters, GenerateNumber(m) \/ MintStep(m)
  PROVE  /\ \A k \in Minters \ {m} : mint'[k] = mint[k]
         /\ mint[m].step # "minted"
         /\ \/ sequence'.val = sequence.val /\ mint'[m].step # "minted"
            \/ /\ sequence'.val = sequence.val + 1
               /\ mint'[m].step = "minted" /\ mint'[m].seen = sequence'.val
<1> USE DEF SequenceInv, SequenceTypeOK, MintType
<1>1. CASE GenerateNumber(m)
  BY <1>1 DEF GenerateNumber
<1>2. CASE LookUp(m) \/ Reread(m)
  BY <1>2 DEF MintAt, LookUp, Reread
<1>3. CASE CreateRow(m)
  BY <1>3 DEF MintAt, CreateRow, Creates, ReadInv
<1>4. CASE Swap(m)
  <2>1. CASE Unmoved(m)
    BY <1>4, <2>1 DEF MintAt, Swap, Unmoved
  <2>2. CASE ~Unmoved(m)
    BY <1>4, <2>2 DEF MintAt, Swap, TryAgain
  <2> QED
    BY <2>1, <2>2
<1> QED
  BY <1>1, <1>2, <1>3, <1>4 DEF MintStep

\* Without database errors an attempt fails only because a number has been minted
\* since the caller read the counter.
LEMMA AttemptSpent ==
  ASSUME SequenceInv, ReadInv, NEW m \in Minters, NEW since \in Nat, Spent(m, since),
         GenerateNumber(m) \/ MintStep(m)
  PROVE  Spent(m, since)'
<1> USE DEF SequenceInv, SequenceTypeOK, MintType, Spent
<1>1. CASE GenerateNumber(m)
  BY <1>1 DEF GenerateNumber
<1>2. CASE LookUp(m)
  BY <1>2 DEF MintAt, LookUp
<1>3. CASE Reread(m)
  BY <1>3 DEF MintAt, Reread
<1>4. CASE CreateRow(m)
  <2>1. since + mint[m].tries <= mint[m].seen /\ since + mint[m].tries <= sequence.val
    BY <1>4 DEF MintAt, CreateRow
  <2> QED
    <3>1. mint[m].seen = 0 /\ mint[m].tries \in Nat /\ mint'[m].seen = 0 /\ mint'[m].tries = mint[m].tries
      BY <1>4 DEF MintAt, CreateRow, ReadInv
    <3>2. sequence'.val = sequence.val \/ sequence'.val = 0
      BY <1>4 DEF CreateRow
    <3> QED
      BY <2>1, <3>1, <3>2
<1>5. CASE Swap(m)
  <2>1. CASE Unmoved(m)
    BY <1>5, <2>1 DEF MintAt, Swap, Unmoved
  <2>2. CASE ~Unmoved(m)
    <3>1. since + mint[m].tries <= mint[m].seen /\ mint[m].seen < sequence.val
      <4>1. mint[m].step = "swap" /\ mint[m].seen # sequence.val /\ mint[m].seen \in Nat
        BY <1>5, <2>2 DEF Swap, Unmoved
      <4>2. mint[m].seen <= sequence.val
        BY <4>1 DEF ReadInv
      <4> QED
        BY <4>1, <4>2
    <3>2. mint'[m].tries = mint[m].tries + 1 /\ mint'[m].step \in {"failed", "look"} /\ UNCHANGED sequence
      BY <1>5, <2>2 DEF Swap, TryAgain
    <3> QED
      BY <3>1, <3>2
  <2> QED
    BY <2>1, <2>2
<1> QED
  BY <1>1, <1>2, <1>3, <1>4, <1>5 DEF MintStep

=============================================================================
