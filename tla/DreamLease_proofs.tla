------------------------- MODULE DreamLease_proofs -------------------------
(***************************************************************************)
(* Proofs about DreamLease, for any runners, attempt cap and bounds.       *)
(***************************************************************************)
EXTENDS DreamLease, FiniteSetTheorems, WellFoundedInduction, TLAPS

Began(a) == attempts[a].status # "none"

\* What the type invariant says beyond cardinalities.
Typed ==
    /\ arrived \in 0..MaxMessages /\ history \subseteq 1..arrived
    /\ night \in 1..MaxNights
    /\ attempts \in [Attempts -> Receipt]
    /\ watermark \in 0..arrived
    /\ run \in [Runners -> Run]
    /\ dreaming \subseteq Session
    /\ written \subseteq Attempts \X Runners
    /\ outlived \subseteq Attempts /\ abandoned \subseteq Attempts
    /\ faults \in 0..MaxFaults

\* One lease at a time, and only on a pending attempt.
OnePending ==
    /\ \A a, b \in Pending : a = b
    /\ \A a \in Attempts : (attempts[a].owner = Nobody) = (a \notin Pending)

\* A night's attempts are numbered without gaps, so that the next number is free.
Contiguous == \A n \in 1..MaxNights : \E k \in 0..Cap : Used(n) = 1..k

\* No attempt starts ahead of the watermark: what it covers joins what is covered.
Anchored ==
    \A a \in Attempts :
        /\ Began(a) => attempts[a].start <= watermark /\ attempts[a].end <= arrived
        /\ attempts[a].terminal => attempts[a].status = "failed"

\* What a runner remembers of the store that stays true however long it waits.
Remembers(r) ==
    /\ run[r].at \in {"idle", "progress", "read"} => run[r].retry = NoAttempt
    /\ run[r].at = "read" => run[r].snapshot <= watermark
    /\ run[r].at = "close" =>
          /\ run[r].retry \in Attempts /\ Began(run[r].retry)
          /\ Between(attempts[run[r].retry].start, attempts[run[r].retry].end) = {}
          /\ run[r].end <= arrived
    /\ run[r].at = "begin" =>
          /\ run[r].end <= arrived
          /\ run[r].retry # NoAttempt =>
                /\ run[r].retry \in Attempts /\ Began(run[r].retry)
                /\ run[r].start = attempts[run[r].retry].start
                /\ run[r].end = attempts[run[r].retry].end
    /\ run[r].at \in {"check", "launch", "running", "ended", "count", "commit", "giveup"} =>
          run[r].attempt \in Attempts

\* The inductive invariant.  WatermarkCovers alone is not: an attempt that settles moves
\* the watermark over all of its interval, so no interval may start ahead of it; and what a
\* runner read before it waited must still hold when it acts on it.
DInv ==
    /\ Typed /\ OnePending /\ Contiguous /\ Anchored /\ WatermarkCovers
    /\ \A r \in Runners : Remembers(r)

USE DreamAssumption

-----------------------------------------------------------------------------
(* Helpers.                                                                  *)

\* A finite nonempty set of numbers has a maximum, and Max is it.
LEMMA MaxIsReached ==
    ASSUME NEW S \in SUBSET Nat, IsFiniteSet(S), S # {}
    PROVE  Max(S) \in S /\ \A y \in S : Max(S) >= y
  <1> DEFINE Above(x) == {y \in S : y > x}
             Tops == {Above(x) : x \in S}
  <1>1. Tops \subseteq FiniteSubsetsOf(S) /\ Tops # {}
    <2>1. ASSUME NEW x \in S PROVE Above(x) \in FiniteSubsetsOf(S)
      <3>1. Above(x) \in SUBSET S
        OBVIOUS
      <3>2. IsFiniteSet(Above(x))
        <4> HIDE DEF Above
        <4> QED BY <3>1, FS_Subset
      <3> HIDE DEF Above
      <3> QED BY <3>1, <3>2 DEF FiniteSubsetsOf
    <2> HIDE DEF Above
    <2> QED BY <2>1
  <1>2. PICK U \in Tops : \A V \in Tops : <<V, U>> \notin StrictSubsetOrdering(S)
    <2> HIDE DEF Tops
    <2> QED BY <1>1, WFMin, FS_StrictSubsetOrderingWellFounded
  <1>3. PICK x \in S : U = Above(x)
    OBVIOUS
  <1>4. \A y \in S : x >= y
    <2> SUFFICES ASSUME NEW y \in S, y > x PROVE FALSE
      OBVIOUS
    <2>1. x \in Nat /\ y \in Nat
      OBVIOUS
    <2>2. Above(y) \subseteq Above(x)
      <3>1. ASSUME NEW z \in S, z > y PROVE z > x
        <4>1. z \in Nat
          OBVIOUS
        <4> QED BY <2>1, <3>1, <4>1
      <3> QED BY <3>1
    <2>3. y \in Above(x) /\ y \notin Above(y)
      BY <2>1
    <2>4. Above(x) \in SUBSET S /\ Above(y) \in SUBSET S /\ Above(y) \in Tops
      OBVIOUS
    <2>5. <<Above(y), Above(x)>> \in StrictSubsetOrdering(S)
      <3> HIDE DEF Above, Tops
      <3> QED BY <2>2, <2>3, <2>4 DEF StrictSubsetOrdering
    <2> QED BY <1>2, <1>3, <2>4, <2>5
  <1> QED BY <1>4 DEF Max

\* The end of the history that was read lies between its start and the newest message.
LEMMA NewWatermarkBounds ==
    ASSUME Typed, NEW low \in 0..arrived
    PROVE  NewWatermark(low) \in 0..arrived
  <1>a. arrived \in Nat /\ \A m \in history : m \in 1..arrived
    BY DEF Typed
  <1>1. Lines(low) \in SUBSET Nat /\ \A m \in Lines(low) : m \in 0..arrived
    BY <1>a DEF Lines, Between
  <1>2. IsFiniteSet(Lines(low))
    BY <1>1, FS_BoundedSetOfNaturals DEF Typed
  <1>3. CASE Lines(low) = {}
    BY <1>3 DEF NewWatermark
  <1>4. CASE Lines(low) # {}
    BY <1>1, <1>2, <1>4, MaxIsReached DEF NewWatermark
  <1> QED BY <1>3, <1>4

\* The next number of a night follows the numbers in use.
LEMMA NextNumberFree ==
    ASSUME Typed, Contiguous, NEW n \in 1..MaxNights
    PROVE  /\ NextNumber(n) \in Nat
           /\ NextNumber(n) <= Cap =>
                 /\ NextNumber(n) \in 1..Cap
                 /\ attempts[<<n, NextNumber(n)>>].status = "none"
                 /\ Used(n) = 1..(NextNumber(n) - 1)
  <1>1. PICK k \in 0..Cap : Used(n) = 1..k
    BY DEF Contiguous
  <1>3. NextNumber(n) = k + 1
    <2>1. CASE k = 0
      BY <1>1, <2>1 DEF NextNumber
    <2>2. CASE k # 0
      <3>1. IsFiniteSet(1..k) /\ 1..k \in SUBSET Nat /\ 1..k # {}
        <4>1. k \in Nat /\ 1 \in 1..k
          BY <2>2
        <4>2. IsFiniteSet(1..k)
          BY <4>1, FS_Interval
        <4> QED BY <4>1, <4>2
      <3>2. Max(1..k) \in 1..k /\ \A y \in 1..k : Max(1..k) >= y
        BY <3>1, MaxIsReached
      <3>3. k \in 1..k
        BY <2>2
      <3>4. Max(1..k) = k
        BY <3>2, <3>3
      <3> QED BY <1>1, <3>1, <3>4 DEF NextNumber
    <2> QED BY <2>1, <2>2
  <1>4. k + 1 \notin Used(n)
    BY <1>1
  <1> QED BY <1>1, <1>3, <1>4 DEF Used

-----------------------------------------------------------------------------
(* What a step may do to the store and the history: the invariant follows    *)
(* from these four forms alone.                                              *)

\* The receipts are left alone; a message may arrive or be removed.
Still ==
    /\ UNCHANGED storeVars
    /\ \/ UNCHANGED <<arrived, history>>
       \/ arrived < MaxMessages /\ arrived' = arrived + 1 /\ history' = history \cup {arrived + 1}
       \/ arrived' = arrived /\ history' \subseteq history

\* The pending receipt is claimed, marked, settled or failed.
Touched ==
    /\ UNCHANGED <<arrived, history>>
    /\ \E a \in Pending, receipt \in Receipt :
          /\ attempts' = [attempts EXCEPT ![a] = receipt]
          /\ receipt.start = attempts[a].start /\ receipt.end = attempts[a].end
          /\ receipt.status # "none"
          /\ receipt.terminal => receipt.status = "failed"
          /\ (receipt.owner = Nobody) = (receipt.status # "pending")
          /\ \/ watermark' = watermark
             \/ Settled(receipt) /\ watermark' = Later(watermark, receipt.end)

\* A receipt is begun on an interval that starts at or below the watermark.
Created ==
    /\ UNCHANGED <<arrived, history, watermark>>
    /\ Pending = {}
    /\ \E n \in 1..MaxNights, receipt \in Receipt :
          /\ NextNumber(n) <= Cap
          /\ attempts' = [attempts EXCEPT ![<<n, NextNumber(n)>>] = receipt]
          /\ receipt.status = "pending" /\ receipt.owner # Nobody /\ ~receipt.terminal
          /\ receipt.start <= watermark /\ receipt.end <= arrived

\* The failed receipts of a night are closed, one of them with an interval left empty.
ClosedNight ==
    /\ UNCHANGED <<arrived, history>>
    /\ \E a \in Attempts :
          /\ Began(a)
          /\ Between(attempts[a].start, attempts[a].end) = {}
          /\ attempts' = [b \in Attempts |->
                IF b[1] = a[1] /\ attempts[b].status = "failed"
                THEN [attempts[b] EXCEPT !.terminal = TRUE] ELSE attempts[b]]
          /\ watermark' = Later(watermark, attempts[a].end)

StoreMove == Still \/ Touched \/ Created \/ ClosedNight

\* What the four forms keep: progress, the interval of every receipt, and a history that
\* only grows at its end.
Kept ==
    /\ watermark' >= watermark
    /\ arrived' >= arrived
    /\ \A m \in history' : m \in history \/ m > arrived
    /\ \A a \in Attempts :
          /\ Began(a) => /\ Began(a)'
                         /\ attempts'[a].start = attempts[a].start
                         /\ attempts'[a].end = attempts[a].end
          /\ Settled(attempts[a]) => attempts'[a] = attempts[a]

StoreTyped ==
    /\ arrived \in 0..MaxMessages /\ history \subseteq 1..arrived
    /\ attempts \in [Attempts -> Receipt]
    /\ watermark \in 0..arrived

StoreInv == OnePending /\ Contiguous /\ Anchored /\ WatermarkCovers

\* The types of what a receipt holds.
LEMMA ReceiptTypes ==
    ASSUME StoreTyped, NEW a \in Attempts
    PROVE  /\ attempts[a] \in Receipt
           /\ attempts[a].start \in Nat /\ attempts[a].end \in Nat
           /\ attempts[a].status \in Status /\ attempts[a].terminal \in BOOLEAN
  BY DEF StoreTyped, Receipt

\* The store keeps its types.
LEMMA MovesAreTyped ==
    ASSUME StoreTyped, Contiguous, Anchored, Typed, StoreMove
    PROVE  StoreTyped'
  <1> USE DEF StoreTyped
  <1>1. CASE Still
    <2>1. arrived \in Nat /\ \A m \in history : m \in 1..arrived
      OBVIOUS
    <2>2. arrived' \in 0..MaxMessages /\ arrived <= arrived'
      BY <1>1, <2>1 DEF Still
    <2>3. ASSUME NEW m \in history' PROVE m \in 1..arrived'
      <3>1. m \in history \/ (m = arrived + 1 /\ arrived' = arrived + 1)
        BY <1>1 DEF Still
      <3>2. arrived' \in Nat
        BY <2>2
      <3>3. CASE m \in history
        <4>1. m \in Nat /\ 1 <= m /\ m <= arrived
          BY <2>1, <3>3
        <4> QED BY <2>1, <2>2, <3>2, <4>1
      <3>4. CASE m = arrived + 1 /\ arrived' = arrived + 1
        BY <2>1, <3>4
      <3> QED BY <3>1, <3>3, <3>4
    <2>4. attempts' = attempts /\ watermark' = watermark
      BY <1>1 DEF Still, storeVars
    <2> QED BY <2>1, <2>2, <2>3, <2>4
  <1>2. CASE Touched
    BY <1>2, ReceiptTypes DEF Touched, Pending, Later, Anchored, Began
  <1>3. CASE Created
    <2>1. PICK n \in 1..MaxNights, receipt \in Receipt :
             attempts' = [attempts EXCEPT ![<<n, NextNumber(n)>>] = receipt]
      BY <1>3 DEF Created
    <2> QED BY <1>3, <2>1 DEF Created
  <1>4. CASE ClosedNight
    <2>1. PICK a \in Attempts :
             /\ Began(a)
             /\ attempts' = [b \in Attempts |->
                   IF b[1] = a[1] /\ attempts[b].status = "failed"
                   THEN [attempts[b] EXCEPT !.terminal = TRUE] ELSE attempts[b]]
             /\ watermark' = Later(watermark, attempts[a].end)
      BY <1>4 DEF ClosedNight
    <2>2. watermark' \in 0..arrived
      BY <2>1, ReceiptTypes DEF Later, Anchored
    <2>3. \A b \in Attempts : [attempts[b] EXCEPT !.terminal = TRUE] \in Receipt
      BY ReceiptTypes DEF Receipt
    <2> QED BY <1>4, <2>1, <2>2, <2>3 DEF ClosedNight
  <1> QED BY <1>1, <1>2, <1>3, <1>4 DEF StoreMove

\* Each form keeps what Kept says: only a pending receipt is touched, only an unused one
\* created, and closing a night changes nothing about one that was closed.
LEMMA MovesKeep ==
    ASSUME StoreTyped, StoreInv, Typed, StoreMove
    PROVE  Kept
  <1> USE DEF StoreInv
  <1>t. \A a \in Attempts : attempts[a] \in Receipt /\ attempts[a].terminal \in BOOLEAN
    BY ReceiptTypes
  <1>w. watermark \in Nat /\ arrived \in Nat /\ \A a \in Attempts : attempts[a].end \in Nat
    BY ReceiptTypes DEF StoreTyped
  <1>1. CASE Still
    BY <1>1, <1>w DEF Still, storeVars, Kept, Began
  <1>2. CASE Touched
    <2>1. PICK a \in Pending, receipt \in Receipt :
          /\ attempts' = [attempts EXCEPT ![a] = receipt]
          /\ receipt.start = attempts[a].start /\ receipt.end = attempts[a].end
          /\ receipt.status # "none"
          /\ watermark' = watermark \/ watermark' = Later(watermark, receipt.end)
      BY <1>2 DEF Touched
    <2>2. attempts[a].status = "pending" /\ ~attempts[a].terminal /\ a \in Attempts
      BY DEF Pending, Anchored
    <2>3. ~Settled(attempts[a])
      BY <2>2 DEF Settled
    <2>4. watermark' >= watermark
      BY <2>1, <2>2, <1>w DEF Later
    <2>5. \A b \in Attempts : b # a => attempts'[b] = attempts[b]
      BY <2>1 DEF StoreTyped
    <2>6. attempts'[a] = receipt
      BY <2>1, <2>2 DEF StoreTyped
    <2>7. arrived' >= arrived /\ \A m \in history' : m \in history
      BY <1>2, <1>w DEF Touched
    <2> QED BY <2>1, <2>2, <2>3, <2>4, <2>5, <2>6, <2>7 DEF Kept, Began
  <1>3. CASE Created
    <2>1. PICK n \in 1..MaxNights, receipt \in Receipt :
          /\ NextNumber(n) <= Cap
          /\ attempts' = [attempts EXCEPT ![<<n, NextNumber(n)>>] = receipt]
      BY <1>3 DEF Created
    <2> DEFINE c == <<n, NextNumber(n)>>
    <2>2. attempts[c].status = "none" /\ c \in Attempts
      BY <2>1, NextNumberFree DEF Attempts
    <2>3. ~Settled(attempts[c]) /\ ~Began(c)
      BY <2>2 DEF Settled, Anchored, Began
    <2>4. \A b \in Attempts : b # c => attempts'[b] = attempts[b]
      BY <2>1 DEF StoreTyped
    <2> HIDE DEF c
    <2> QED BY <1>3, <1>w, <2>3, <2>4 DEF Kept, Began, Created
  <1>4. CASE ClosedNight
    <2>1. PICK a \in Attempts :
             /\ attempts' = [b \in Attempts |->
                   IF b[1] = a[1] /\ attempts[b].status = "failed"
                   THEN [attempts[b] EXCEPT !.terminal = TRUE] ELSE attempts[b]]
             /\ watermark' = Later(watermark, attempts[a].end)
      BY <1>4 DEF ClosedNight
    <2>2. watermark' >= watermark
      BY <2>1, <1>w DEF Later
    <2>3. ASSUME NEW b \in Attempts
          PROVE  /\ attempts'[b].status = attempts[b].status
                 /\ attempts'[b].start = attempts[b].start
                 /\ attempts'[b].end = attempts[b].end
      BY <2>1, <1>t DEF Receipt
    <2>4. ASSUME NEW b \in Attempts, Settled(attempts[b])
          PROVE  attempts'[b] = attempts[b]
      <3>1. CASE attempts[b].status = "failed"
        <4>1. attempts[b].terminal = TRUE
          BY <2>4, <3>1, <1>t DEF Settled
        <4>2. [attempts[b] EXCEPT !.terminal = TRUE] = attempts[b]
          BY <4>1, <1>t DEF Receipt
        <4> QED BY <2>1, <4>2
      <3>2. CASE attempts[b].status # "failed"
        BY <2>1, <3>2
      <3> QED BY <3>1, <3>2
    <2>5. UNCHANGED <<arrived, history>>
      BY <1>4 DEF ClosedNight
    <2> QED BY <1>w, <2>2, <2>3, <2>4, <2>5 DEF Kept, Began
  <1> QED BY <1>1, <1>2, <1>3, <1>4 DEF StoreMove

\* At most one receipt is pending, and it has the owner.
LEMMA MovesKeepLease ==
    ASSUME StoreTyped, StoreInv, Typed, StoreMove
    PROVE  OnePending'
  <1> USE DEF StoreInv, OnePending, Pending
  <1>1. CASE Still
    BY <1>1 DEF Still, storeVars
  <1>2. CASE Touched
    <2>1. PICK a \in Pending, receipt \in Receipt :
          /\ attempts' = [attempts EXCEPT ![a] = receipt]
          /\ (receipt.owner = Nobody) = (receipt.status # "pending")
      BY ONLY <1>2 DEF Touched, Pending
    <2>2. a \in Attempts /\ attempts'[a] = receipt
      BY <2>1 DEF StoreTyped
    <2>3. \A b \in Attempts : b # a => attempts'[b] = attempts[b]
      BY <2>1 DEF StoreTyped
    <2> QED BY <2>1, <2>2, <2>3
  <1>3. CASE Created
    <2>1. PICK n \in 1..MaxNights, receipt \in Receipt :
          /\ NextNumber(n) <= Cap
          /\ attempts' = [attempts EXCEPT ![<<n, NextNumber(n)>>] = receipt]
          /\ receipt.status = "pending" /\ receipt.owner # Nobody
      BY <1>3 DEF Created
    <2> DEFINE c == <<n, NextNumber(n)>>
    <2>2. c \in Attempts
      BY <2>1, NextNumberFree DEF Attempts
    <2>3. attempts'[c] = receipt /\ \A b \in Attempts : b # c => attempts'[b] = attempts[b]
      BY <2>1, <2>2 DEF StoreTyped
    <2> HIDE DEF c
    <2> QED BY <1>3, <2>1, <2>2, <2>3 DEF Created
  <1>4. CASE ClosedNight
    <2>1. \A b \in Attempts :
             attempts'[b].status = attempts[b].status /\ attempts'[b].owner = attempts[b].owner
      BY <1>4, ReceiptTypes DEF ClosedNight, Receipt
    <2> QED BY <2>1
  <1> QED BY <1>1, <1>2, <1>3, <1>4 DEF StoreMove

\* The numbers of a night stay without gaps: a receipt is only begun at the next one.
LEMMA MovesKeepNumbers ==
    ASSUME StoreTyped, StoreInv, Typed, StoreMove
    PROVE  Contiguous'
  <1> USE DEF StoreInv
  <1>1. CASE ~Created
    <2>1. \A a \in Attempts : Began(a)' = Began(a)
      <3>1. CASE Still
        BY <3>1 DEF Still, storeVars, Began
      <3>2. CASE Touched
        BY <3>2, MovesKeep DEF Touched, Pending, Began, Kept, StoreTyped
      <3>3. CASE ClosedNight
        BY <3>3, ReceiptTypes DEF ClosedNight, Began, Receipt
      <3> QED BY <1>1, <3>1, <3>2, <3>3 DEF StoreMove
    <2>2. \A n \in 1..MaxNights : Used(n)' = Used(n)
      BY <2>1 DEF Used, Began, Attempts
    <2> QED BY <2>2 DEF Contiguous
  <1>2. CASE Created
    <2>1. PICK n \in 1..MaxNights, receipt \in Receipt :
          /\ NextNumber(n) <= Cap
          /\ attempts' = [attempts EXCEPT ![<<n, NextNumber(n)>>] = receipt]
          /\ receipt.status = "pending"
      BY <1>2 DEF Created
    <2> DEFINE c == <<n, NextNumber(n)>>
    <2>2. /\ NextNumber(n) \in 1..Cap /\ Used(n) = 1..(NextNumber(n) - 1)
          /\ c \in Attempts
      BY <2>1, NextNumberFree DEF Attempts
    <2>3. attempts'[c] = receipt /\ \A b \in Attempts : b # c => attempts'[b] = attempts[b]
      BY <2>1, <2>2 DEF StoreTyped
    <2>4. ASSUME NEW k \in 1..MaxNights, k # n PROVE Used(k)' = Used(k)
      <3>1. \A i \in 1..Cap : <<k, i>> \in Attempts /\ <<k, i>> # c
        BY <2>4 DEF Attempts
      <3> HIDE DEF c
      <3> QED BY <2>3, <3>1 DEF Used
    <2>5. Used(n)' = 1..NextNumber(n)
      <3>1. \A i \in 1..Cap : <<n, i>> \in Attempts /\ (<<n, i>> = c <=> i = NextNumber(n))
        BY DEF Attempts
      <3>2. Used(n)' = Used(n) \cup {NextNumber(n)}
        <4> HIDE DEF c
        <4> QED BY <2>1, <2>2, <2>3, <3>1 DEF Used
      <3> QED BY <2>2, <3>2
    <2>6. \A k \in 1..MaxNights : k # n => \E i \in 0..Cap : Used(k)' = 1..i
      BY <2>4 DEF Contiguous
    <2>7. \E i \in 0..Cap : Used(n)' = 1..i
      BY <2>2, <2>5
    <2> QED BY <2>6, <2>7 DEF Contiguous
  <1> QED BY <1>1, <1>2

\* Intervals stay anchored at or below the watermark.
LEMMA MovesKeepAnchors ==
    ASSUME StoreTyped, StoreInv, Typed, StoreMove, StoreTyped'
    PROVE  Anchored'
  <1> USE DEF StoreInv
  <1>k. Kept
    BY MovesKeep
  <1>t. /\ watermark \in Int /\ watermark' \in Int /\ arrived \in Int /\ arrived' \in Int
        /\ \A a \in Attempts : attempts[a].start \in Nat /\ attempts[a].end \in Nat
    BY ReceiptTypes DEF StoreTyped
  <1>1. CASE ~Created
    <2>1. \A a \in Attempts :
             /\ Began(a)' => Began(a)
             /\ attempts'[a].terminal => attempts'[a].status = "failed"
      <3>1. CASE Still
        BY <3>1 DEF Still, storeVars, Began, Anchored
      <3>2. CASE Touched
        BY <3>2 DEF Touched, Pending, Began, Anchored, StoreTyped
      <3>3. CASE ClosedNight
        <4>1. ASSUME NEW b \in Attempts
              PROVE  /\ attempts'[b].status = attempts[b].status
                     /\ \/ attempts[b].status = "failed"
                        \/ attempts'[b] = attempts[b]
          BY <3>3, ReceiptTypes DEF ClosedNight, Receipt
        <4> QED BY <4>1 DEF Began, Anchored
      <3> QED BY <1>1, <3>1, <3>2, <3>3 DEF StoreMove
    <2> QED BY <1>k, <1>t, <2>1 DEF Anchored, Kept, Began
  <1>2. CASE Created
    <2>1. PICK n \in 1..MaxNights, receipt \in Receipt :
          /\ NextNumber(n) <= Cap
          /\ attempts' = [attempts EXCEPT ![<<n, NextNumber(n)>>] = receipt]
          /\ ~receipt.terminal
          /\ receipt.start <= watermark /\ receipt.end <= arrived
      BY <1>2 DEF Created
    <2> DEFINE c == <<n, NextNumber(n)>>
    <2>2. c \in Attempts
      BY <2>1, NextNumberFree DEF Attempts
    <2>3. attempts'[c] = receipt /\ \A b \in Attempts : b # c => attempts'[b] = attempts[b]
      BY <2>1, <2>2 DEF StoreTyped
    <2>4. watermark' = watermark /\ arrived' = arrived
      BY <1>2 DEF Created
    <2> HIDE DEF c
    <2> QED BY <2>1, <2>2, <2>3, <2>4 DEF Anchored, Began
  <1> QED BY <1>1, <1>2

\* The watermark only passes what a settled attempt covers, or what is gone.
LEMMA MovesKeepCover ==
    ASSUME StoreTyped, StoreInv, Typed, StoreMove, StoreTyped'
    PROVE  WatermarkCovers'
  <1> USE DEF StoreInv
  <1>k. Kept
    BY MovesKeep
  <1>t. /\ watermark \in Nat /\ watermark' \in Nat /\ arrived \in Nat
        /\ \A a \in Attempts : attempts[a].start \in Nat /\ attempts[a].end \in Nat
        /\ \A m \in history : m \in Nat
    BY ReceiptTypes DEF StoreTyped
  <1> SUFFICES ASSUME NEW m \in history', m <= watermark'
               PROVE  \E a \in Attempts : /\ Settled(attempts'[a])
                                          /\ attempts'[a].start < m /\ m <= attempts'[a].end
    BY DEF WatermarkCovers, Settled
  <1>1. CASE m \in history /\ m <= watermark
    <2>1. PICK a \in Attempts : Settled(attempts[a]) /\ attempts[a].start < m /\ m <= attempts[a].end
      BY <1>1 DEF WatermarkCovers
    <2> QED BY <1>k, <2>1 DEF Kept
  <1>2. CASE ~(m \in history /\ m <= watermark)
    <2>1. CASE Still
      BY <1>2, <1>t, <2>1 DEF Still, storeVars, StoreTyped
    <2>2. CASE Touched
      <3>1. PICK a \in Pending, receipt \in Receipt :
            /\ attempts' = [attempts EXCEPT ![a] = receipt]
            /\ receipt.start = attempts[a].start /\ receipt.end = attempts[a].end
            /\ \/ watermark' = watermark
               \/ Settled(receipt) /\ watermark' = Later(watermark, receipt.end)
        BY <2>2 DEF Touched
      <3>2. m \in history /\ m > watermark
        BY <1>2, <1>t, <2>2 DEF Touched
      <3>3. Settled(receipt) /\ m <= receipt.end
        BY <1>t, <3>1, <3>2 DEF Later
      <3>4. a \in Attempts /\ attempts'[a] = receipt /\ receipt.start <= watermark
        BY <3>1 DEF Pending, StoreTyped, Anchored, Began
      <3>5. receipt.start < m
        <4>1. receipt.start \in Nat
          BY <1>t, <3>1, <3>4
        <4> QED BY <1>t, <3>2, <3>4, <4>1
      <3> QED BY <3>3, <3>4, <3>5
    <2>3. CASE Created
      BY <1>2, <2>3 DEF Created
    <2>4. CASE ClosedNight
      <3>1. PICK a \in Attempts :
               /\ Began(a)
               /\ Between(attempts[a].start, attempts[a].end) = {}
               /\ watermark' = Later(watermark, attempts[a].end)
        BY <2>4 DEF ClosedNight
      <3>2. m \in history /\ m > watermark
        BY <1>2, <1>t, <2>4 DEF ClosedNight
      <3>3. attempts[a].start < m /\ m <= attempts[a].end
        BY <1>t, <3>1, <3>2 DEF Later, Anchored
      <3> QED BY <3>1, <3>2, <3>3 DEF Between
    <2> QED BY <2>1, <2>2, <2>3, <2>4 DEF StoreMove
  <1> QED BY <1>1, <1>2

-----------------------------------------------------------------------------
(* Every step of the system is one of the four forms.                        *)

\* The steps that touch no receipt.
QuietRun(r) ==
    \/ CheckWrites(r) \/ NothingPending(r) \/ ReadProgress(r) \/ ReadInterval(r)
    \/ Launch(r) \/ LaunchFails(r) \/ Ends(r) \/ CountWrites(r) \/ LeaseLost(r)
    \/ Interrupted(r) \/ Crash(r)

\* Closing an attempt that its runner still holds touches the pending receipt.
LEMMA ClosingTouches ==
    ASSUME DInv, NEW r \in Runners, NEW a \in Attempts, Holds(r, a),
           NEW status \in {"completed", "failed"}, NEW terminal \in BOOLEAN,
           Closed(a, status, terminal), UNCHANGED <<arrived, history>>,
           terminal => status = "failed",
           \/ watermark' = watermark
           \/ (terminal \/ status = "completed") /\ watermark' = Later(watermark, attempts[a].end)
    PROVE  Touched
  <1> DEFINE receipt == [attempts[a] EXCEPT !.status = status, !.terminal = terminal,
                                            !.owner = Nobody, !.expired = FALSE]
  <1>1. a \in Pending
    BY DEF Holds, Pending
  <1>2. attempts[a] \in Receipt
    BY DEF DInv, Typed
  <1>3. /\ receipt \in Receipt
        /\ receipt.start = attempts[a].start /\ receipt.end = attempts[a].end
        /\ receipt.status = status /\ receipt.terminal = terminal /\ receipt.owner = Nobody
    BY <1>2 DEF Receipt, Status
  <1>4. attempts' = [attempts EXCEPT ![a] = receipt]
    BY DEF Closed
  <1> HIDE DEF receipt
  <1> QED BY <1>1, <1>3, <1>4 DEF Touched, Settled

\* Every step makes one of the four moves.
LEMMA StepMoves ==
    ASSUME DInv, DreamNext
    PROVE  StoreMove
  <1>1. ASSUME NEW r \in Runners, QuietRun(r) PROVE Still
    BY <1>1 DEF QuietRun, CheckWrites, NothingPending, ReadProgress, ReadInterval, Launch,
                LaunchFails, Ends, CountWrites, LeaseLost, Interrupted, Crash,
                outsideVars, Still, storeVars
  <1>2. ASSUME NEW r \in Runners, Claim(r) PROVE Touched
    <2>1. PICK a \in Pending :
             attempts' = [attempts EXCEPT ![a].owner = r, ![a].expired = FALSE]
      BY <1>2 DEF Claim
    <2> DEFINE receipt == [attempts[a] EXCEPT !.owner = r, !.expired = FALSE]
    <2>2. attempts[a] \in Receipt /\ attempts[a].status = "pending" /\ ~attempts[a].terminal
      BY DEF DInv, Typed, Pending, Anchored
    <2>3. /\ receipt \in Receipt
          /\ receipt.start = attempts[a].start /\ receipt.end = attempts[a].end
          /\ receipt.status = "pending" /\ ~receipt.terminal /\ receipt.owner = r
      BY <2>2 DEF Receipt
    <2>4. attempts' = [attempts EXCEPT ![a] = receipt]
      BY <2>1
    <2>5. UNCHANGED <<arrived, history>> /\ watermark' = watermark
      BY <1>2 DEF Claim, outsideVars
    <2> HIDE DEF receipt
    <2> QED BY <2>3, <2>4, <2>5 DEF Touched
  <1>3. ASSUME NEW r \in Runners, Begin(r) PROVE Still \/ Created
    <2>1. CASE Still
      BY <2>1
    <2>2. CASE ~Still
      <3> DEFINE n == NightOf(r)
      <3>1. /\ Fresh(r) /\ Pending = {} /\ NextNumber(n) <= Cap
            /\ attempts' = [attempts EXCEPT ![<<n, NextNumber(n)>>] = NewReceipt(r)]
            /\ UNCHANGED <<arrived, history, watermark>>
        BY <1>3, <2>2 DEF Begin, Still, storeVars, outsideVars
      <3>2. n \in 1..MaxNights
        BY <1>3 DEF NightOf, DInv, Typed, Remembers, Begin, Attempts
      <3>3. Begun \in Nat
        <4>1. IsFiniteSet(1..MaxNights) /\ IsFiniteSet(1..Cap)
          BY FS_Interval
        <4>2. IsFiniteSet(Attempts)
          BY <4>1, FS_Product DEF Attempts
        <4> QED BY <4>2, FS_Subset, FS_CardinalityType DEF Begun
      <3>4. run[r].start \in Nat /\ run[r].end \in Nat
        BY DEF DInv, Typed, Run
      <3>5. /\ NewReceipt(r) \in Receipt
            /\ NewReceipt(r).status = "pending" /\ ~NewReceipt(r).terminal
            /\ NewReceipt(r).owner = r
            /\ NewReceipt(r).start = run[r].start /\ NewReceipt(r).end = run[r].end
        BY <3>3, <3>4 DEF NewReceipt, Receipt, Status
      <3>6. run[r].start <= watermark /\ run[r].end <= arrived
        BY <1>3, <3>1, <3>4 DEF Fresh, DInv, Typed, Remembers, Begin, Anchored
      <3> HIDE DEF n
      <3> QED BY <3>1, <3>2, <3>5, <3>6 DEF Created
    <2> QED BY <2>1, <2>2
  <1>4. ASSUME NEW r \in Runners, CloseEmptyRetry(r) PROVE Still \/ ClosedNight
    <2>1. run[r].retry \in Attempts /\ Began(run[r].retry)
          /\ Between(attempts[run[r].retry].start, attempts[run[r].retry].end) = {}
      BY <1>4 DEF CloseEmptyRetry, DInv, Remembers
    <2> QED BY <1>4, <2>1 DEF CloseEmptyRetry, Still, ClosedNight, storeVars, outsideVars
  <1>5. ASSUME NEW r \in Runners, MarkEnded(r) PROVE Still \/ Touched
    <2> DEFINE a == run[r].attempt
    <2>1. CASE ~Holds(r, a)
      BY <1>5, <2>1 DEF MarkEnded, Still, storeVars, outsideVars
    <2>2. CASE Holds(r, a)
      <3> DEFINE receipt == [attempts[a] EXCEPT !.ended = TRUE]
      <3>1. a \in Attempts
        BY <1>5 DEF MarkEnded, DInv, Remembers
      <3>2. attempts[a] \in Receipt /\ attempts[a].status = "pending" /\ ~attempts[a].terminal
            /\ attempts[a].owner = r
        BY <2>2, <3>1 DEF DInv, Typed, Holds, Anchored
      <3>3. /\ receipt \in Receipt
            /\ receipt.start = attempts[a].start /\ receipt.end = attempts[a].end
            /\ receipt.status = "pending" /\ ~receipt.terminal /\ receipt.owner = r
        BY <3>2 DEF Receipt
      <3>4. attempts' = [attempts EXCEPT ![a] = receipt]
        BY <1>5, <2>2 DEF MarkEnded
      <3>5. UNCHANGED <<arrived, history>> /\ watermark' = watermark /\ a \in Pending
        BY <1>5, <3>1, <3>2 DEF MarkEnded, outsideVars, Pending
      <3> HIDE DEF receipt
      <3> QED BY <3>3, <3>4, <3>5 DEF Touched
    <2> QED BY <2>1, <2>2
  <1>6. ASSUME NEW r \in Runners, Commit(r) PROVE Touched
    <2>1. run[r].attempt \in Attempts
      BY <1>6 DEF Commit, DInv, Remembers
    <2> QED BY <1>6, <2>1, ClosingTouches DEF Commit, outsideVars
  <1>7. ASSUME NEW r \in Runners, Fail(r) PROVE Touched
    <2>1. run[r].attempt \in Attempts
      BY <1>7 DEF Fail, DInv, Remembers
    <2>2. attempts[run[r].attempt].start <= watermark
      BY <1>7, <2>1 DEF Fail, Holds, DInv, Anchored, Began
    <2>3. attempts[run[r].attempt].start \in Nat /\ watermark \in Nat
      BY <2>1 DEF DInv, Typed, Receipt
    <2>4. watermark' = watermark
      BY <1>7, <2>2, <2>3 DEF Fail, Later
    <2> QED BY <1>7, <2>1, <2>4, ClosingTouches DEF Fail, outsideVars
  <1>8. ASSUME NEW r \in Runners, FailForGood(r) PROVE Touched
    <2>1. run[r].attempt \in Attempts
      BY <1>8 DEF FailForGood, DInv, Remembers
    <2> QED BY <1>8, <2>1, ClosingTouches DEF FailForGood, outsideVars
  <1>9. ASSUME NEW a \in Attempts, LeaseExpires(a) PROVE Touched
    <2> DEFINE receipt == [attempts[a] EXCEPT !.expired = TRUE]
    <2>1. attempts[a] \in Receipt /\ attempts[a].status = "pending" /\ ~attempts[a].terminal
          /\ a \in Pending /\ attempts[a].owner # Nobody
      BY <1>9 DEF LeaseExpires, DInv, Typed, Anchored, OnePending, Pending
    <2>2. /\ receipt \in Receipt
          /\ receipt.start = attempts[a].start /\ receipt.end = attempts[a].end
          /\ receipt.status = "pending" /\ ~receipt.terminal /\ receipt.owner # Nobody
      BY <2>1 DEF Receipt
    <2>3. attempts' = [attempts EXCEPT ![a] = receipt]
      BY <1>9 DEF LeaseExpires
    <2>4. UNCHANGED <<arrived, history>> /\ watermark' = watermark
      BY <1>9 DEF LeaseExpires, outsideVars
    <2> HIDE DEF receipt
    <2> QED BY <2>1, <2>2, <2>3, <2>4 DEF Touched
  <1>10. CASE Writes \/ Arrives \/ NightTurns \/ \E m \in history : Forgotten(m)
    BY <1>10 DEF Writes, Arrives, NightTurns, Forgotten, Still, StoreMove, storeVars, outsideVars
  <1>11. ASSUME NEW r \in Runners, RunStep(r) PROVE StoreMove
    <2>1. \/ QuietRun(r) \/ Claim(r) \/ Begin(r) \/ CloseEmptyRetry(r)
          \/ MarkEnded(r) \/ Commit(r) \/ Fail(r) \/ FailForGood(r)
      BY <1>11 DEF RunStep, QuietRun
    <2> QED BY <2>1, <1>1, <1>2, <1>3, <1>4, <1>5, <1>6, <1>7, <1>8 DEF StoreMove
  <1>12. ASSUME NEW r \in Runners, Interrupted(r) \/ Crash(r) PROVE StoreMove
    BY <1>1, <1>12 DEF QuietRun, StoreMove
  <1>13. CASE \E a \in Attempts : LeaseExpires(a)
    BY <1>9, <1>13 DEF StoreMove
  <1>14. CASE \E r \in Runners : RunStep(r)
    BY <1>11, <1>14
  <1>15. CASE \E r \in Runners : Interrupted(r) \/ Crash(r)
    BY <1>12, <1>15
  <1> QED BY <1>10, <1>13, <1>14, <1>15 DEF DreamNext, StoreMove

-----------------------------------------------------------------------------
(* The runners.                                                              *)

\* The rest of the state keeps its types.
RestTyped ==
    /\ night \in 1..MaxNights
    /\ run \in [Runners -> Run]
    /\ dreaming \subseteq Session
    /\ written \subseteq Attempts \X Runners
    /\ outlived \subseteq Attempts /\ abandoned \subseteq Attempts
    /\ faults \in 0..MaxFaults

\* What a run's fields are, and what it is when the runner is idle.
LEMMA RunTypes ==
    ASSUME Typed, NEW r \in Runners
    PROVE  /\ run[r] \in Run /\ IdleRun \in Run
           /\ run[r].attempt \in Attempts \cup {NoAttempt}
           /\ run[r].retry \in Attempts \cup {NoAttempt}
           /\ run[r].snapshot \in Nat /\ run[r].start \in Nat /\ run[r].end \in Nat
           /\ run[r].failed \in BOOLEAN
  BY DEF Typed, Run, IdleRun, Stage

\* A step of a runner keeps the types of what all runners do.
LEMMA RunStepsAreTyped ==
    ASSUME DInv, NEW r \in Runners, RunStep(r)
    PROVE  run' \in [Runners -> Run]
  <1> USE DEF DInv
  <1>t. /\ run \in [Runners -> Run] /\ run[r] \in Run /\ IdleRun \in Run
        /\ run[r].attempt \in Attempts \cup {NoAttempt}
        /\ watermark \in Nat /\ arrived \in Nat
        /\ run[r].snapshot \in Nat /\ run[r].start \in Nat /\ run[r].end \in Nat
    BY RunTypes DEF Typed
  <1>g. ASSUME NEW at \in Stage, Goes(r, at) PROVE run' \in [Runners -> Run]
    <2>1. [run[r] EXCEPT !.at = at] \in Run
      BY <1>t, <1>g DEF Run
    <2> QED BY <1>t, <1>g, <2>1 DEF Goes
  <1>i. ASSUME Returns(r) PROVE run' \in [Runners -> Run]
    BY <1>t, <1>i DEF Returns
  <1>1. CASE Claim(r)
    <2>1. PICK a \in Pending :
             run' = [run EXCEPT ![r] = [IdleRun EXCEPT !.at = "check", !.attempt = a]]
      BY <1>1 DEF Claim
    <2>2. [IdleRun EXCEPT !.at = "check", !.attempt = a] \in Run
      BY <1>t DEF Run, Stage, Pending
    <2> QED BY <1>t, <2>1, <2>2
  <1>2. CASE CheckWrites(r) \/ NothingPending(r) \/ Launch(r) \/ CountWrites(r)
    BY <1>2, <1>g DEF CheckWrites, NothingPending, Launch, CountWrites, Stage
  <1>3. CASE ReadProgress(r)
    <2>1. [run[r] EXCEPT !.at = "read", !.snapshot = watermark] \in Run
      BY <1>t DEF Run, Stage
    <2> QED BY <1>3, <1>t, <2>1 DEF ReadProgress
  <1>4. CASE ReadInterval(r)
    <2>1. run[r].snapshot \in 0..arrived
      <3>1. run[r].snapshot <= watermark
        BY <1>4 DEF ReadInterval, Remembers
      <3>2. watermark <= arrived
        BY <1>t DEF Typed
      <3> QED BY <1>t, <3>1, <3>2
    <2>2. NewWatermark(run[r].snapshot) \in Nat
      BY <2>1, NewWatermarkBounds DEF Typed
    <2>3. CASE \E a \in Attempts :
            /\ Newest(a)
            /\ LET old == attempts[a]
                   rest == Later(run[r].snapshot, old.end)
               IN run' = [run EXCEPT ![r] =
                    IF Between(old.start, old.end) # {}
                    THEN [@ EXCEPT !.at = "begin", !.retry = a,
                                   !.start = old.start, !.end = old.end]
                    ELSE [@ EXCEPT !.at = "close", !.retry = a,
                                   !.start = rest, !.end = NewWatermark(rest)]]
      <3>1. PICK a \in Attempts :
            /\ Newest(a)
            /\ \/ run' = [run EXCEPT ![r] = [@ EXCEPT !.at = "begin", !.retry = a,
                                   !.start = attempts[a].start, !.end = attempts[a].end]]
               \/ run' = [run EXCEPT ![r] = [@ EXCEPT !.at = "close", !.retry = a,
                                   !.start = Later(run[r].snapshot, attempts[a].end),
                                   !.end = NewWatermark(Later(run[r].snapshot, attempts[a].end))]]
        BY <2>3
      <3>2. /\ attempts[a].start \in Nat /\ attempts[a].end \in Nat
            /\ attempts[a].end <= arrived
        BY <3>1 DEF Newest, Retryable, Anchored, Began, Typed, Receipt
      <3>3. Later(run[r].snapshot, attempts[a].end) \in 0..arrived
        BY <2>1, <3>2 DEF Later
      <3>4. NewWatermark(Later(run[r].snapshot, attempts[a].end)) \in Nat
        BY <3>3, NewWatermarkBounds DEF Typed
      <3>5. [run[r] EXCEPT !.at = "begin", !.retry = a, !.start = attempts[a].start,
                           !.end = attempts[a].end] \in Run
        BY <1>t, <3>2 DEF Run, Stage
      <3>6. [run[r] EXCEPT !.at = "close", !.retry = a,
                           !.start = Later(run[r].snapshot, attempts[a].end),
                           !.end = NewWatermark(Later(run[r].snapshot, attempts[a].end))] \in Run
        <4>1. ASSUME NEW start \in Nat, NEW end \in Nat
              PROVE  [run[r] EXCEPT !.at = "close", !.retry = a, !.start = start, !.end = end] \in Run
          BY <1>t DEF Run, Stage
        <4>2. Later(run[r].snapshot, attempts[a].end) \in Nat
          BY <1>t, <3>3
        <4> QED BY <3>4, <4>1, <4>2
      <3> QED BY <1>t, <3>1, <3>5, <3>6
    <2>4. CASE run' = [run EXCEPT ![r] =
                    IF Lines(run[r].snapshot) = {} THEN IdleRun
                    ELSE [@ EXCEPT !.at = "begin", !.start = run[r].snapshot,
                                   !.end = NewWatermark(run[r].snapshot)]]
      <3>1. [run[r] EXCEPT !.at = "begin", !.start = run[r].snapshot,
                           !.end = NewWatermark(run[r].snapshot)] \in Run
        BY <1>t, <2>2 DEF Run, Stage
      <3> QED BY <1>t, <2>4, <3>1
    <2> QED BY <1>4, <2>3, <2>4 DEF ReadInterval
  <1>5. CASE CloseEmptyRetry(r)
    <2>1. [run[r] EXCEPT !.at = "begin", !.retry = NoAttempt, !.snapshot = run[r].start] \in Run
      BY <1>t DEF Run, Stage
    <2> QED BY <1>5, <1>i, <1>t, <2>1 DEF CloseEmptyRetry
  <1>6. CASE Begin(r)
    <2>1. CASE Returns(r)
      BY <2>1, <1>i
    <2>2. CASE ~Returns(r)
      <3> DEFINE a == <<NightOf(r), NextNumber(NightOf(r))>>
      <3>1. NextNumber(NightOf(r)) <= Cap
            /\ run' = [run EXCEPT ![r] = [IdleRun EXCEPT !.at = "launch", !.attempt = a]]
        BY <1>6, <2>2 DEF Begin
      <3>2. NightOf(r) \in 1..MaxNights
        BY <1>6, <1>t DEF NightOf, Typed, Remembers, Begin, Attempts
      <3>3. a \in Attempts
        BY <3>1, <3>2, NextNumberFree DEF Attempts
      <3> HIDE DEF a
      <3>4. [IdleRun EXCEPT !.at = "launch", !.attempt = a] \in Run
        BY <1>t, <3>3 DEF Run, Stage
      <3> QED BY <1>t, <3>1, <3>4
    <2> QED BY <2>1, <2>2
  <1>7. CASE LaunchFails(r) \/ Ends(r)
    <2>1. [run[r] EXCEPT !.at = "count", !.failed = TRUE] \in Run
      BY <1>t DEF Run, Stage
    <2> QED BY <1>7, <1>g, <1>t, <2>1 DEF LaunchFails, Ends, Stage
  <1>8. CASE MarkEnded(r)
    BY <1>8, <1>g, <1>i DEF MarkEnded, Stage
  <1>9. CASE LeaseLost(r) \/ Commit(r) \/ Fail(r) \/ FailForGood(r)
    BY <1>9, <1>i DEF LeaseLost, Commit, Fail, FailForGood
  <1> QED BY <1>1, <1>2, <1>3, <1>4, <1>5, <1>6, <1>7, <1>8, <1>9 DEF RunStep

\* The sessions a runner leaves behind are still sessions.
LEMMA LeftTypes ==
    ASSUME Typed, NEW r \in Runners
    PROVE  /\ Own(r) \subseteq dreaming
           /\ {[d EXCEPT !.left = TRUE] : d \in Own(r)} \subseteq Session
           /\ {d.attempt : d \in Own(r)} \subseteq Attempts
  <1>1. ASSUME NEW d \in Session PROVE [d EXCEPT !.left = TRUE] \in Session /\ d.attempt \in Attempts
    BY DEF Session
  <1>2. Own(r) \subseteq dreaming /\ dreaming \subseteq Session
    BY DEF Own, Typed
  <1> QED BY <1>1, <1>2

\* ... and so a teardown keeps the types.
LEMMA TeardownTypes ==
    ASSUME Typed, NEW r \in Runners, Gone(r) \/ Left(r)
    PROVE  dreaming' \subseteq Session /\ abandoned' \subseteq Attempts
  BY LeftTypes DEF Gone, Left, NameKilled, Typed

\* Every step keeps the types.
LEMMA StepIsTyped ==
    ASSUME DInv, DreamNext
    PROVE  Typed'
  <1> USE DEF DInv
  <1>1. StoreTyped'
    <2>1. StoreTyped
      BY DEF Typed, StoreTyped
    <2> QED BY <2>1, StepMoves, MovesAreTyped
  <1>2. RestTyped'
    <2>1. ASSUME NEW r \in Runners, RunStep(r) PROVE RestTyped'
      <3>1. run' \in [Runners -> Run]
        BY <2>1, RunStepsAreTyped
      <3>2. UNCHANGED <<night, written, outlived>>
        BY <2>1 DEF RunStep, Claim, CheckWrites, NothingPending, ReadProgress, ReadInterval,
                    CloseEmptyRetry, Begin, Launch, LaunchFails, Ends, MarkEnded, CountWrites,
                    LeaseLost, Commit, Fail, FailForGood, outsideVars, sessionVars
      <3>3. dreaming' \subseteq Session /\ abandoned' \subseteq Attempts /\ faults' \in 0..MaxFaults
        <4>1. CASE Launch(r)
          <5>1. run[r].attempt \in Attempts
            BY <4>1 DEF Launch, Remembers
          <5>2. PICK t \in Transports :
                   dreaming' \subseteq dreaming \cup
                     {[attempt |-> run[r].attempt, by |-> r, over |-> t, left |-> FALSE]}
            BY <4>1 DEF Launch, NameKilled
          <5>3. [attempt |-> run[r].attempt, by |-> r, over |-> t, left |-> FALSE] \in Session
            BY <5>1 DEF Session
          <5>4. UNCHANGED <<abandoned, faults>>
            BY <4>1 DEF Launch
          <5> QED BY <5>2, <5>3, <5>4 DEF Typed
        <4>2. CASE Ends(r)
          <5>1. dreaming' \subseteq Session /\ abandoned' \subseteq Attempts
            BY <4>2, TeardownTypes DEF Ends
          <5>2. faults' \in 0..MaxFaults
            BY <4>2 DEF Ends, Typed
          <5> QED BY <5>1, <5>2
        <4>3. CASE ~Launch(r) /\ ~Ends(r)
          <5>1. UNCHANGED <<dreaming, abandoned, faults>>
            BY <2>1, <4>3 DEF RunStep, Claim, CheckWrites, NothingPending, ReadProgress,
                    ReadInterval, CloseEmptyRetry, Begin, LaunchFails, MarkEnded, CountWrites,
                    LeaseLost, Commit, Fail, FailForGood, sessionVars
          <5> QED BY <5>1 DEF Typed
        <4> QED BY <4>1, <4>2, <4>3
      <3> QED BY <3>1, <3>2, <3>3 DEF Typed, RestTyped
    <2>2. CASE Writes
      <3>1. PICK d \in dreaming : written' = written \cup {<<d.attempt, d.by>>}
        BY <2>2 DEF Writes
      <3>2. d.attempt \in Attempts /\ d.by \in Runners
        BY <3>1 DEF Typed, Session
      <3>3. UNCHANGED <<night, run, dreaming, outlived, abandoned, faults>>
        BY <2>2 DEF Writes, outsideVars
      <3> QED BY <3>1, <3>2, <3>3 DEF Typed, RestTyped
    <2>3. ASSUME NEW a \in Attempts, LeaseExpires(a) PROVE RestTyped'
      <3>1. UNCHANGED <<night, run, dreaming, written, abandoned>>
        BY <2>3 DEF LeaseExpires, outsideVars
      <3>2. outlived' \subseteq Attempts /\ faults' \in 0..MaxFaults
        BY <2>3 DEF LeaseExpires, Typed
      <3> QED BY <3>1, <3>2 DEF Typed, RestTyped
    <2>4. ASSUME NEW r \in Runners, Interrupted(r) \/ Crash(r) PROVE RestTyped'
      <3>1. UNCHANGED <<night, written>> /\ faults' \in 0..MaxFaults
        BY <2>4 DEF Interrupted, Crash, outsideVars, Typed
      <3>2. run' \in [Runners -> Run]
        <4>1. IdleRun \in Run /\ [IdleRun EXCEPT !.at = "dead"] \in Run
          BY DEF IdleRun, Run, Stage
        <4> QED BY <2>4, <4>1 DEF Interrupted, Crash, Returns, Typed
      <3>3. dreaming' \subseteq Session /\ abandoned' \subseteq Attempts
        <4>1. CASE Interrupted(r)
          BY <4>1, TeardownTypes DEF Interrupted, Typed
        <4>2. CASE Crash(r)
          BY <4>2, LeftTypes DEF Crash, Typed
        <4> QED BY <2>4, <4>1, <4>2
      <3>4. outlived' \subseteq Attempts
        BY <2>4, LeftTypes DEF Interrupted, Crash, Typed
      <3> QED BY <3>1, <3>2, <3>3, <3>4 DEF Typed, RestTyped
    <2>5. CASE Arrives \/ NightTurns \/ \E m \in history : Forgotten(m)
      <3>1. UNCHANGED <<run, dreaming, written, outlived, abandoned>>
        BY <2>5 DEF Arrives, NightTurns, Forgotten, sessionVars
      <3>2. night' \in 1..MaxNights /\ faults' \in 0..MaxFaults
        BY <2>5 DEF Arrives, NightTurns, Forgotten, Typed
      <3> QED BY <3>1, <3>2 DEF Typed, RestTyped
    <2>6. CASE \E r \in Runners : RunStep(r)
      BY <2>1, <2>6
    <2>7. CASE \E r \in Runners : Interrupted(r) \/ Crash(r)
      BY <2>4, <2>7
    <2>8. CASE \E a \in Attempts : LeaseExpires(a)
      BY <2>3, <2>8
    <2> QED BY <2>2, <2>5, <2>6, <2>7, <2>8 DEF DreamNext
  <1> QED BY <1>1, <1>2 DEF Typed, StoreTyped, RestTyped

\* A runner that does nothing still remembers what is true.
LEMMA OthersRemember ==
    ASSUME DInv, Kept, Typed', NEW q \in Runners, run'[q] = run[q]
    PROVE  Remembers(q)'
  <1> DEFINE a == run[q].retry
  <1>t. /\ run[q].snapshot \in Nat /\ run[q].end \in Nat
        /\ watermark \in Nat /\ watermark' \in Nat /\ arrived \in Nat /\ arrived' \in Nat
    BY RunTypes DEF DInv, Typed
  <1>k. /\ watermark' >= watermark /\ arrived' >= arrived
        /\ \A m \in history' : m \in history \/ m > arrived
        /\ a \in Attempts /\ Began(a) =>
              /\ attempts'[a].status # "none"
              /\ attempts'[a].start = attempts[a].start /\ attempts'[a].end = attempts[a].end
    BY DEF Kept, Began
  <1>1. /\ run[q].at \in {"idle", "progress", "read"} => a = NoAttempt
        /\ run[q].at = "read" => run[q].snapshot <= watermark'
    BY <1>t, <1>k DEF DInv, Remembers
  <1>2. run[q].at = "close" =>
          /\ a \in Attempts /\ attempts'[a].status # "none"
          /\ {m \in history' : attempts'[a].start < m /\ m <= attempts'[a].end} = {}
          /\ run[q].end <= arrived'
    <2> SUFFICES ASSUME run[q].at = "close"
                 PROVE  /\ a \in Attempts /\ attempts'[a].status # "none"
                        /\ {m \in history' : attempts'[a].start < m /\ m <= attempts'[a].end} = {}
                        /\ run[q].end <= arrived'
      OBVIOUS
    <2>1. /\ a \in Attempts /\ Began(a) /\ run[q].end <= arrived
          /\ Between(attempts[a].start, attempts[a].end) = {}
      BY DEF DInv, Remembers
    <2>2. attempts[a].end <= arrived /\ attempts[a].end \in Nat
      BY <2>1 DEF DInv, Anchored, Typed, Receipt
    <2>3. ASSUME NEW m \in history', attempts[a].start < m, m <= attempts[a].end PROVE FALSE
      <3>1. m \in Nat
        BY DEF Typed
      <3>2. m \in history
        BY <1>t, <1>k, <2>2, <2>3, <3>1
      <3> QED BY <2>1, <2>3, <3>2 DEF Between
    <2>4. {m \in history' : attempts'[a].start < m /\ m <= attempts'[a].end} = {}
      BY <1>k, <2>1, <2>3
    <2> QED BY <1>k, <1>t, <2>1, <2>4
  <1>3. run[q].at = "begin" =>
          /\ run[q].end <= arrived'
          /\ a # NoAttempt =>
                /\ a \in Attempts /\ attempts'[a].status # "none"
                /\ run[q].start = attempts'[a].start
                /\ run[q].end = attempts'[a].end
    BY <1>k, <1>t DEF DInv, Remembers
  <1>4. run[q].at \in {"check", "launch", "running", "ended", "count", "commit", "giveup"} =>
          run[q].attempt \in Attempts
    BY DEF DInv, Remembers
  <1> QED BY <1>1, <1>2, <1>3, <1>4 DEF Remembers, Between, Began

Working == {"check", "launch", "running", "ended", "count", "commit", "giveup"}

\* A runner that reads the interval of a dream remembers it as it is in the store.
LEMMA ReaderRemembers ==
    ASSUME DInv, Kept, Typed', NEW r \in Runners, ReadInterval(r)
    PROVE  Remembers(r)'
  <1> USE DEF DInv
  <1>t. /\ run \in [Runners -> Run] /\ run[r] \in Run
        /\ run[r].snapshot \in Nat /\ watermark \in Nat /\ arrived \in Nat
        /\ run[r].at = "read" /\ UNCHANGED <<attempts, watermark, arrived, history>>
    <2>1. run \in [Runners -> Run] /\ watermark \in Nat /\ arrived \in Nat
      BY DEF Typed
    <2>2. run[r] \in Run /\ run[r].snapshot \in Nat
      BY RunTypes
    <2>3. run[r].at = "read" /\ UNCHANGED <<attempts, watermark, arrived, history>>
      BY DEF ReadInterval, storeVars, outsideVars
    <2> QED BY <2>1, <2>2, <2>3
  <1>u. run[r].retry \in Attempts \cup {NoAttempt}
    BY RunTypes
  <1>s. run[r].snapshot \in 0..arrived
    <2>1. run[r].snapshot <= watermark /\ watermark <= arrived
      BY <1>t DEF Remembers, Typed
    <2> QED BY <1>t, <2>1
  <1>1. ASSUME NEW a \in Attempts, Newest(a),
               \/ run' = [run EXCEPT ![r] = [@ EXCEPT !.at = "begin", !.retry = a,
                                   !.start = attempts[a].start, !.end = attempts[a].end]]
               \/ /\ Between(attempts[a].start, attempts[a].end) = {}
                  /\ run' = [run EXCEPT ![r] = [@ EXCEPT !.at = "close", !.retry = a,
                                   !.start = Later(run[r].snapshot, attempts[a].end),
                                   !.end = NewWatermark(Later(run[r].snapshot, attempts[a].end))]]
        PROVE  Remembers(r)'
    <2>1. /\ Began(a) /\ attempts[a].end \in Nat /\ attempts[a].end <= arrived
      BY <1>1 DEF Newest, Retryable, Anchored, Began, Typed, Receipt
    <2>2. Later(run[r].snapshot, attempts[a].end) \in 0..arrived
      BY <1>s, <2>1 DEF Later
    <2>3. NewWatermark(Later(run[r].snapshot, attempts[a].end)) \in 0..arrived
      BY <2>2, NewWatermarkBounds DEF Typed
    <2>4. CASE run' = [run EXCEPT ![r] = [@ EXCEPT !.at = "begin", !.retry = a,
                                   !.start = attempts[a].start, !.end = attempts[a].end]]
      <3>1. /\ run'[r].at = "begin" /\ run'[r].retry = a
            /\ run'[r].start = attempts[a].start /\ run'[r].end = attempts[a].end
        BY <1>t, <2>4 DEF Run
      <3> QED BY <1>t, <2>1, <3>1 DEF Remembers, Began
    <2>5. CASE /\ Between(attempts[a].start, attempts[a].end) = {}
               /\ run' = [run EXCEPT ![r] = [@ EXCEPT !.at = "close", !.retry = a,
                                   !.start = Later(run[r].snapshot, attempts[a].end),
                                   !.end = NewWatermark(Later(run[r].snapshot, attempts[a].end))]]
      <3>1. /\ run'[r].at = "close" /\ run'[r].retry = a
            /\ run'[r].end = NewWatermark(Later(run[r].snapshot, attempts[a].end))
        BY <1>t, <2>5 DEF Run
      <3>2. run'[r].end <= arrived
        BY <1>t, <2>3, <3>1
      <3>3. {m \in history' : attempts'[a].start < m /\ m <= attempts'[a].end} = {}
        BY <1>t, <2>5 DEF Between
      <3> QED BY <1>t, <2>1, <3>1, <3>2, <3>3 DEF Remembers, Began, Between
    <2> QED BY <1>1, <2>4, <2>5
  <1>2. ASSUME \/ run' = [run EXCEPT ![r] = IdleRun]
               \/ run' = [run EXCEPT ![r] = [@ EXCEPT !.at = "begin", !.start = run[r].snapshot,
                                                      !.end = NewWatermark(run[r].snapshot)]]
        PROVE  Remembers(r)'
    <2>1. NewWatermark(run[r].snapshot) \in 0..arrived
      BY <1>s, NewWatermarkBounds DEF Typed
    <2>2. CASE run' = [run EXCEPT ![r] = IdleRun]
      BY <1>t, <2>2 DEF Remembers, IdleRun
    <2>3. CASE run' = [run EXCEPT ![r] = [@ EXCEPT !.at = "begin", !.start = run[r].snapshot,
                                                   !.end = NewWatermark(run[r].snapshot)]]
      <3>1. /\ run'[r].at = "begin" /\ run'[r].retry = run[r].retry
            /\ run'[r].end = NewWatermark(run[r].snapshot)
        BY <1>t, <2>3 DEF Run
      <3>2. run'[r].end <= arrived'
        BY <1>t, <2>1, <3>1
      <3>3. run[r].retry = NoAttempt
        BY <1>t DEF Remembers
      <3> QED BY <3>1, <3>2, <3>3 DEF Remembers
    <2> QED BY <1>2, <2>2, <2>3
  <1> QED BY <1>1, <1>2 DEF ReadInterval


\* Whatever a runner does, it remembers what is true.
LEMMA RunnersRemember ==
    ASSUME DInv, Kept, Typed', NEW r \in Runners, RunStep(r)
    PROVE  Remembers(r)'
  <1> USE DEF DInv
  <1>t. /\ run \in [Runners -> Run] /\ run[r] \in Run /\ Remembers(r)
        /\ watermark \in Nat /\ arrived \in Nat
    <2>1. run \in [Runners -> Run] /\ watermark \in Nat /\ arrived \in Nat
      BY DEF Typed
    <2> QED BY <2>1, RunTypes
  <1>g. ASSUME NEW at \in Working, Goes(r, at), run[r].attempt \in Attempts PROVE Remembers(r)'
    <2>1. run'[r].at = at /\ run'[r].attempt = run[r].attempt
      BY <1>t, <1>g DEF Goes, Run
    <2> QED BY <1>g, <2>1 DEF Remembers, Working
  <1>i. ASSUME Returns(r) PROVE Remembers(r)'
    BY <1>t, <1>i DEF Returns, Remembers, IdleRun
  <1>a. ASSUME NEW a \in Attempts, NEW at \in Working,
               run' = [run EXCEPT ![r] = [IdleRun EXCEPT !.at = at, !.attempt = a]]
        PROVE  Remembers(r)'
    <2>1. run'[r].at = at /\ run'[r].attempt = a
      BY <1>t, <1>a DEF IdleRun
    <2> QED BY <1>a, <2>1 DEF Remembers, Working
  <1>f. ASSUME run' = [run EXCEPT ![r].at = "count", ![r].failed = TRUE],
               run[r].attempt \in Attempts
        PROVE  Remembers(r)'
    <2>1. run'[r].at = "count" /\ run'[r].attempt = run[r].attempt
      BY <1>t, <1>f DEF Run
    <2> QED BY <1>f, <2>1 DEF Remembers
  <1>1. CASE Claim(r)
    BY <1>1, <1>a DEF Claim, Pending, Working
  <1>2. CASE CheckWrites(r) \/ Launch(r) \/ CountWrites(r)
    <2>1. run[r].attempt \in Attempts
      BY <1>2, <1>t DEF CheckWrites, Launch, CountWrites, Remembers
    <2> QED BY <1>2, <1>g, <2>1 DEF CheckWrites, Launch, CountWrites, Working
  <1>3. CASE NothingPending(r)
    <2>1. run'[r].at = "progress" /\ run'[r].retry = run[r].retry /\ run[r].at = "idle"
      BY <1>3, <1>t DEF NothingPending, Goes, Run
    <2> QED BY <1>t, <2>1 DEF Remembers
  <1>4. CASE ReadProgress(r)
    <2>1. /\ run'[r].at = "read" /\ run'[r].retry = run[r].retry /\ run[r].at = "progress"
          /\ run'[r].snapshot = watermark /\ watermark' = watermark
      BY <1>4, <1>t DEF ReadProgress, Run, storeVars
    <2> QED BY <1>t, <2>1 DEF Remembers
  <1>5. CASE ReadInterval(r)
    BY <1>5, ReaderRemembers
  <1>6. CASE CloseEmptyRetry(r)
    <2>1. CASE run' = [run EXCEPT ![r] = [@ EXCEPT !.at = "begin", !.retry = NoAttempt,
                                                   !.snapshot = run[r].start]]
      <3>1. run'[r].at = "begin" /\ run'[r].retry = NoAttempt /\ run'[r].end = run[r].end
        BY <1>t, <2>1 DEF Run
      <3>2. run[r].end <= arrived /\ arrived' = arrived
        BY <1>6, <1>t DEF CloseEmptyRetry, Remembers, outsideVars
      <3> QED BY <3>1, <3>2 DEF Remembers
    <2>2. CASE Returns(r)
      BY <2>2, <1>i
    <2> QED BY <1>6, <2>1, <2>2 DEF CloseEmptyRetry, Returns
  <1>7. CASE Begin(r)
    <2>1. CASE Returns(r)
      BY <2>1, <1>i
    <2>2. CASE ~Returns(r)
      <3> DEFINE a == <<NightOf(r), NextNumber(NightOf(r))>>
      <3>1. NextNumber(NightOf(r)) <= Cap
            /\ run' = [run EXCEPT ![r] = [IdleRun EXCEPT !.at = "launch", !.attempt = a]]
        BY <1>7, <2>2 DEF Begin
      <3>2. NightOf(r) \in 1..MaxNights
        BY <1>7, <1>t DEF NightOf, Typed, Remembers, Begin, Attempts
      <3>3. a \in Attempts
        BY <3>1, <3>2, NextNumberFree DEF Attempts
      <3> HIDE DEF a
      <3> QED BY <1>a, <3>1, <3>3 DEF Working
    <2> QED BY <2>1, <2>2
  <1>8. CASE LaunchFails(r) \/ Ends(r)
    <2>1. run[r].attempt \in Attempts
      BY <1>8, <1>t DEF LaunchFails, Ends, Remembers
    <2> QED BY <1>8, <1>f, <1>g, <2>1 DEF LaunchFails, Ends, Working
  <1>9. CASE MarkEnded(r)
    <2>1. run[r].attempt \in Attempts
      BY <1>9, <1>t DEF MarkEnded, Remembers
    <2> QED BY <1>9, <1>i, <1>g, <2>1 DEF MarkEnded, Working
  <1>10. CASE LeaseLost(r) \/ Commit(r) \/ Fail(r) \/ FailForGood(r)
    BY <1>10, <1>i DEF LeaseLost, Commit, Fail, FailForGood
  <1> QED BY <1>1, <1>2, <1>3, <1>4, <1>5, <1>6, <1>7, <1>8, <1>9, <1>10 DEF RunStep

\* In every step, every runner remembers what is true.
LEMMA AllRemember ==
    ASSUME DInv, Kept, Typed', DreamNext, NEW q \in Runners
    PROVE  Remembers(q)'
  <1>t. run \in [Runners -> Run]
    BY DEF DInv, Typed
  <1>1. ASSUME NEW r \in Runners, RunStep(r) PROVE Remembers(q)'
    <2>1. CASE q = r
      BY <1>1, <2>1, RunnersRemember
    <2>2. CASE q # r
      <3>1. run'[q] = run[q]
        BY <1>t, <1>1, <2>2 DEF RunStep, Claim, CheckWrites, NothingPending, ReadProgress,
             ReadInterval, CloseEmptyRetry, Begin, Launch, LaunchFails, Ends, MarkEnded,
             CountWrites, LeaseLost, Commit, Fail, FailForGood, Goes, Returns
      <3> QED BY <3>1, OthersRemember
    <2> QED BY <2>1, <2>2
  <1>2. ASSUME NEW r \in Runners, Interrupted(r) \/ Crash(r) PROVE Remembers(q)'
    <2>1. CASE q = r
      <3>1. run'[q].at \in {"idle", "dead"} /\ run'[q].retry = NoAttempt
        BY <1>t, <1>2, <2>1 DEF Interrupted, Crash, Returns, IdleRun
      <3> QED BY <3>1 DEF Remembers
    <2>2. CASE q # r
      <3>1. run'[q] = run[q]
        BY <1>t, <1>2, <2>2 DEF Interrupted, Crash, Returns
      <3> QED BY <3>1, OthersRemember
    <2> QED BY <2>1, <2>2
  <1>3. CASE \/ Writes \/ Arrives \/ NightTurns
             \/ \E a \in Attempts : LeaseExpires(a)
             \/ \E m \in history : Forgotten(m)
    <2>1. run' = run
      BY <1>3 DEF Writes, Arrives, NightTurns, LeaseExpires, Forgotten
    <2> QED BY <2>1, OthersRemember
  <1> QED BY <1>1, <1>2, <1>3 DEF DreamNext

-----------------------------------------------------------------------------
(* The theorems.                                                             *)

\* Before the first dream there is nothing to remember or to skip.
LEMMA InvariantAtStart == DreamInit => DInv
  <1> SUFFICES ASSUME DreamInit PROVE DInv
    OBVIOUS
  <1> USE DEF DreamInit
  <1>1. Typed
    <2>1. NoReceipt \in Receipt /\ IdleRun \in Run
      BY DEF NoReceipt, Receipt, Status, IdleRun, Run, Stage
    <2>2. 0 \in 0..MaxMessages /\ 1 \in 1..MaxNights /\ 0 \in 0..MaxFaults /\ 0 \in 0..0
      OBVIOUS
    <2> QED BY <2>1, <2>2 DEF Typed
  <1>2. \A a \in Attempts : attempts[a] = NoReceipt
    OBVIOUS
  <1>3. OnePending /\ Anchored
    BY <1>2 DEF OnePending, Anchored, Pending, NoReceipt, Began
  <1>4. Contiguous
    <2>1. ASSUME NEW n \in 1..MaxNights PROVE Used(n) = 1..0
      BY <1>2 DEF Used, NoReceipt, Attempts
    <2>2. 0 \in 0..Cap
      OBVIOUS
    <2> QED BY <2>1, <2>2 DEF Contiguous
  <1>5. WatermarkCovers
    BY DEF WatermarkCovers
  <1>6. \A r \in Runners : Remembers(r)
    BY DEF Remembers, IdleRun
  <1> QED BY <1>1, <1>3, <1>4, <1>5, <1>6 DEF DInv

\* The receipts, as the four forms need them.
LEMMA StoreOfInvariant ==
    ASSUME DInv
    PROVE  StoreTyped /\ StoreInv /\ Typed
  BY DEF DInv, Typed, StoreTyped, StoreInv

\* Every step keeps the invariant.
LEMMA InvariantKept ==
    ASSUME DInv, DreamNext
    PROVE  DInv' /\ Kept
  <1>1. StoreTyped /\ StoreInv /\ Typed /\ StoreMove
    BY StoreOfInvariant, StepMoves
  <1>2. Typed' /\ Kept
    BY <1>1, StepIsTyped, MovesKeep
  <1>3. StoreTyped'
    BY <1>2 DEF Typed, StoreTyped
  <1>4. OnePending' /\ Contiguous' /\ Anchored' /\ WatermarkCovers'
    BY <1>1, <1>3, MovesKeepLease, MovesKeepNumbers, MovesKeepAnchors, MovesKeepCover
  <1>5. \A r \in Runners : Remembers(r)'
    BY <1>2, AllRemember
  <1> QED BY <1>2, <1>4, <1>5 DEF DInv

\* A step that changes nothing keeps it too.
LEMMA InvariantStutters == DInv /\ UNCHANGED dreamVars => DInv'
  <1> SUFFICES ASSUME DInv, UNCHANGED dreamVars PROVE DInv'
    OBVIOUS
  <1>1. UNCHANGED <<arrived, history, night, attempts, watermark, run, dreaming, written,
                    outlived, abandoned, faults>>
    BY DEF dreamVars, outsideVars, storeVars, sessionVars
  <1> QED BY <1>1 DEF DInv, Typed, OnePending, Contiguous, Anchored, WatermarkCovers, Remembers,
                      Pending, Began, Between, Used, Settled

\* DInv holds in every state the receipts can reach.
LEMMA DreamInvariant == DreamSafety => []DInv
  <1>1. DInv /\ [DreamNext]_dreamVars => DInv'
    BY InvariantKept, InvariantStutters
  <1> QED BY InvariantAtStart, <1>1, PTL DEF DreamSafety

\* The types of the receipts of dream_runner.py: at most one attempt is pending, and only
\* a pending attempt has the owner of a lease.
THEOREM DreamTypes == DreamSafety => []DreamTypeOK
  <1>1. DInv => DreamTypeOK
    <2> SUFFICES ASSUME DInv PROVE DreamTypeOK
      OBVIOUS
    <2>1. Cardinality(Pending) <= 1
      <3>1. CASE Pending = {}
        BY <3>1, FS_EmptySet
      <3>2. CASE Pending # {}
        <4>1. PICK a \in Pending : Pending = {a}
          BY <3>2 DEF DInv, OnePending
        <4>2. Cardinality({a}) = 1
          BY FS_Singleton
        <4> QED BY <4>1, <4>2
      <3> QED BY <3>1, <3>2
    <2> QED BY <2>1 DEF DInv, Typed, OnePending, DreamTypeOK
  <1> QED BY <1>1, DreamInvariant, PTL

\* No history is skipped, however attempts fail, are retried or taken over: the watermark
\* that _commit_reflection_outcome and _close_empty_retry_interval move covers settled
\* intervals only.
THEOREM HistoryNotSkipped == DreamSafety => []WatermarkCovers
  <1>1. DInv => WatermarkCovers
    BY DEF DInv
  <1> QED BY <1>1, DreamInvariant, PTL

\* Progress is never taken back, whichever runner wakes up with a lease it lost: the
\* watermark does not fall, and a settled attempt is not touched again.
THEOREM ProgressIsKept == DreamSafety => ProgressKept
  <1> DEFINE Forward == /\ watermark' >= watermark
                        /\ \A a \in Attempts : Settled(attempts[a]) => attempts'[a] = attempts[a]
  <1>1. DInv /\ DreamNext => Forward
    BY InvariantKept DEF Kept
  <1>2. DInv /\ [DreamNext]_dreamVars => [Forward]_dreamVars
    BY <1>1
  <1>3. DreamSafety => [][Forward]_dreamVars
    BY <1>2, DreamInvariant, PTL DEF DreamSafety
  <1> QED BY <1>3 DEF ProgressKept

-----------------------------------------------------------------------------
(* No interval is dreamt twice.                                              *)

\* The attempts with a session that nobody waits for, or somebody who stalls.
Unattended == outlived \cup abandoned

\* Runner r works on attempt a, which nothing left unattended.
WorksOn(r, a) == run[r].at \in Working /\ run[r].attempt = a /\ a \notin Unattended

\* The interval a runner is about to begin with is not empty.
ReadsAhead(r) ==
    run[r].at \in {"close", "begin"} =>
        /\ run[r].start <= run[r].end
        /\ run[r].at = "begin" /\ run[r].retry = NoAttempt => run[r].start < run[r].end

\* While no lease runs out beside its owner and no owner leaves its session behind, the
\* runner at an attempt has its lease, and it alone has a session for it: nobody else has
\* written, and before the launch and after giving up nothing is written at all.
Attended(r) ==
    \A a \in Attempts : WorksOn(r, a) =>
        /\ Holds(r, a) /\ ~attempts[a].expired
        /\ run[r].at \in {"launch", "giveup"} => ~WrittenUnder(a)
        /\ run[r].at = "running" => \A q \in Runners : <<a, q>> \in written => q = r

SessionAttended ==
    \A d \in dreaming : d.attempt \notin Unattended =>
        ~d.left /\ run[d.by].at = "running" /\ run[d.by].attempt = d.attempt

\* An attempt with a session, or one left unattended, has its receipt on disk.
SessionsBegun ==
    /\ \A a \in Unattended : Began(a)
    /\ \A d \in dreaming : Began(d.attempt)

\* What was written, and which attempts can have the same interval.
WritesSettled ==
    /\ \A v \in written : Began(v[1])
    /\ \A v, w \in written : v # w /\ v[1] = w[1] => v[1] \in Unattended
    /\ \A a \in Attempts : attempts[a].status = "failed" /\ a \notin Unattended => ~WrittenUnder(a)
    /\ \A a \in Attempts : attempts[a].status = "completed" => attempts[a].end <= watermark
    /\ \A a, b \in Attempts :
         /\ a # b /\ Began(a) /\ Began(b)
         /\ attempts[a].start = attempts[b].start /\ attempts[a].end = attempts[b].end
         => attempts[a].status = "failed" \/ attempts[b].status = "failed"

OnceInv ==
    /\ SessionAttended /\ SessionsBegun /\ WritesSettled
    /\ \A r \in Runners : ReadsAhead(r) /\ Attended(r)

\* What follows the watermark that was read ends above it.
LEMMA NewWatermarkAhead ==
    ASSUME Typed, NEW low \in 0..arrived
    PROVE  /\ NewWatermark(low) >= low
           /\ Lines(low) # {} => NewWatermark(low) > low
  <1>a. arrived \in Nat /\ \A m \in history : m \in 1..arrived
    BY DEF Typed
  <1>1. Lines(low) \in SUBSET Nat /\ \A m \in Lines(low) : low < m
    BY <1>a DEF Lines, Between
  <1>2. IsFiniteSet(Lines(low))
    <2>1. \A m \in Lines(low) : m \in 0..arrived
      BY <1>a DEF Lines, Between
    <2> QED BY <1>1, <2>1, FS_BoundedSetOfNaturals DEF Typed
  <1>3. CASE Lines(low) = {}
    BY <1>3 DEF NewWatermark
  <1>4. CASE Lines(low) # {}
    <2>1. NewWatermark(low) \in Lines(low)
      BY <1>1, <1>2, <1>4, MaxIsReached DEF NewWatermark
    <2> QED BY <1>1, <2>1
  <1> QED BY <1>3, <1>4

-----------------------------------------------------------------------------
(* The receipts and what was written.                                        *)

\* A step of the store that gives no attempt an interval it shares with one that is not
\* failed, and fails none that has written.
LEMMA WritesKeptSettled ==
    ASSUME DInv, DInv', Kept, WritesSettled, written' = written, Unattended \subseteq Unattended',
           \A a \in Attempts : attempts[a].status = "failed" => attempts'[a].status = "failed",
           \A a \in Attempts : attempts'[a].status = "failed" /\ attempts[a].status # "failed"
                                 /\ a \notin Unattended => ~WrittenUnder(a),
           \A a \in Attempts : attempts'[a].status = "completed" /\ attempts[a].status # "completed"
                                 => attempts'[a].end <= watermark',
           \A a, b \in Attempts :
                /\ Began(a) /\ ~Began(b) /\ Began(b)'
                /\ attempts'[a].start = attempts'[b].start /\ attempts'[a].end = attempts'[b].end
                => attempts[a].status = "failed",
           \A a, b \in Attempts : ~Began(a) /\ Began(a)' /\ ~Began(b) /\ Began(b)' => a = b
    PROVE  WritesSettled'
  <1>t. /\ watermark \in Nat /\ watermark' \in Nat /\ watermark' >= watermark
        /\ \A a \in Attempts : attempts[a].end \in Nat
    BY ReceiptTypes, StoreOfInvariant DEF DInv, Typed, Kept
  <1>k. \A a \in Attempts : Began(a) => /\ Began(a)'
                                        /\ attempts'[a].start = attempts[a].start
                                        /\ attempts'[a].end = attempts[a].end
    BY DEF Kept
  <1>w. \A a : WrittenUnder(a)' <=> WrittenUnder(a)
    BY DEF WrittenUnder
  <1>1. \A v \in written' : Began(v[1])'
    <2> TAKE v \in written'
    <2>1. v \in written /\ v[1] \in Attempts
      BY DEF DInv, Typed
    <2> QED BY <1>k, <2>1 DEF WritesSettled
  <1>2. \A v, w \in written' : v # w /\ v[1] = w[1] => v[1] \in Unattended'
    BY DEF WritesSettled
  <1>3. ASSUME NEW a \in Attempts, attempts'[a].status = "failed", a \notin Unattended'
        PROVE  ~WrittenUnder(a)'
    BY <1>3, <1>w DEF WritesSettled
  <1>4. ASSUME NEW a \in Attempts, attempts'[a].status = "completed"
        PROVE  attempts'[a].end <= watermark'
    <2>1. CASE attempts[a].status = "completed"
      <3>1. attempts[a].end <= watermark /\ attempts'[a].end = attempts[a].end
        BY <2>1, <1>k DEF WritesSettled, Began
      <3> QED BY <3>1, <1>t
    <2> QED BY <2>1, <1>4
  <1>5. ASSUME NEW a \in Attempts, NEW b \in Attempts, a # b, Began(a)', Began(b)',
               attempts'[a].start = attempts'[b].start, attempts'[a].end = attempts'[b].end
        PROVE  attempts'[a].status = "failed" \/ attempts'[b].status = "failed"
    <2>1. CASE Began(a) /\ Began(b)
      <3>1. attempts[a].status = "failed" \/ attempts[b].status = "failed"
        BY <1>5, <1>k, <2>1 DEF WritesSettled
      <3> QED BY <3>1
    <2>2. CASE Began(a) /\ ~Began(b)
      BY <1>5, <2>2
    <2>3. CASE ~Began(a) /\ Began(b)
      BY <1>5, <2>3
    <2>4. CASE ~Began(a) /\ ~Began(b)
      BY <1>5, <2>4
    <2> QED BY <2>1, <2>2, <2>3, <2>4
  <1> QED BY <1>1, <1>2, <1>3, <1>4, <1>5 DEF WritesSettled

\* The pending attempt is claimed, marked or settled.
LEMMA ReceiptSettles ==
    ASSUME DInv, DInv', Kept, WritesSettled, written' = written, Unattended \subseteq Unattended',
           NEW a \in Pending, NEW receipt, attempts' = [attempts EXCEPT ![a] = receipt],
           receipt.status \in {"pending", "completed", "failed"},
           receipt.status = "failed" /\ a \notin Unattended => ~WrittenUnder(a),
           receipt.status = "completed" => attempts'[a].end <= watermark'
    PROVE  WritesSettled'
  <1>1. a \in Attempts /\ attempts[a].status = "pending"
    BY DEF Pending
  <1>2. attempts'[a] = receipt /\ \A b \in Attempts : b # a => attempts'[b] = attempts[b]
    BY <1>1 DEF DInv, Typed
  <1>3. \A b \in Attempts : Began(b)' => Began(b)
    BY <1>1, <1>2 DEF Began
  <1> QED BY <1>1, <1>2, <1>3, WritesKeptSettled

\* Where the receipts stay as they are, in status and in their intervals.
LEMMA ReceiptsStay ==
    ASSUME DInv, DInv', Kept, WritesSettled, written' = written, Unattended \subseteq Unattended',
           \A a \in Attempts : attempts'[a].status = attempts[a].status
    PROVE  WritesSettled'
  BY WritesKeptSettled DEF Began

-----------------------------------------------------------------------------
(* The runners.                                                              *)

\* A runner that does nothing keeps its lease, as long as nobody else touches it.
LEMMA OthersAttended ==
    ASSUME DInv, NEW q \in Runners, Attended(q), run'[q] = run[q],
           written' = written, Unattended \subseteq Unattended',
           \A a \in Attempts : WorksOn(q, a) /\ Holds(q, a) /\ ~attempts[a].expired
                                 => Holds(q, a)' /\ (~attempts'[a].expired \/ a \in Unattended')
    PROVE  Attended(q)'
  <1> SUFFICES ASSUME NEW a \in Attempts, WorksOn(q, a)'
               PROVE  /\ Holds(q, a)' /\ ~attempts'[a].expired
                      /\ run'[q].at \in {"launch", "giveup"} => ~WrittenUnder(a)'
                      /\ run'[q].at = "running" => \A p \in Runners : <<a, p>> \in written' => p = q
    BY DEF Attended
  <1>1. WorksOn(q, a) /\ a \notin Unattended'
    BY DEF WorksOn
  <1>2. WrittenUnder(a)' <=> WrittenUnder(a)
    BY DEF WrittenUnder
  <1> QED BY <1>1, <1>2 DEF Attended

\* No session is for an attempt that was never begun.
OnlyBegun ==
    \A d \in dreaming' :
        \/ \E c \in dreaming : d.attempt = c.attempt
        \/ d.attempt \in Attempts /\ Began(d.attempt)

\* Receipts stay on disk.
LEMMA BegunStay ==
    ASSUME DInv, Kept, SessionsBegun, OnlyBegun,
           \A a \in Unattended' : a \in Unattended \/ (a \in Attempts /\ Began(a))
    PROVE  SessionsBegun'
  <1>1. \A a \in Attempts : Began(a) => Began(a)'
    BY DEF Kept
  <1>2. Unattended \subseteq Attempts /\ \A c \in dreaming : c.attempt \in Attempts
    BY DEF DInv, Typed, Session, Unattended
  <1>3. \A a \in Unattended' : Began(a)'
    BY <1>1, <1>2 DEF SessionsBegun
  <1>4. ASSUME NEW d \in dreaming' PROVE d.attempt \in Attempts /\ Began(d.attempt)
    BY <1>2, <1>4 DEF OnlyBegun, SessionsBegun
  <1> QED BY <1>1, <1>3, <1>4 DEF SessionsBegun

\* Sessions of other runners stay attended while r moves: r's own are gone, or they are
\* unattended by now.
LEMMA SessionStays ==
    ASSUME DInv, SessionAttended, NEW r \in Runners, NEW e, run' = [run EXCEPT ![r] = e],
           Unattended \subseteq Unattended',
           \A d \in dreaming' : d \in dreaming \/ d.attempt \in Unattended',
           run[r].at = "running" => dreaming' \cap Own(r) = {}
    PROVE  SessionAttended'
  <1>t. run \in [Runners -> Run] /\ \A d \in dreaming : d.by \in Runners
    BY DEF DInv, Typed, Session
  <1>1. SUFFICES ASSUME NEW d \in dreaming', d.attempt \notin Unattended'
                 PROVE  /\ ~d.left /\ run'[d.by].at = "running"
                        /\ run'[d.by].attempt = d.attempt
    BY DEF SessionAttended
  <1>2. /\ d \in dreaming /\ d.by \in Runners
        /\ ~d.left /\ run[d.by].at = "running" /\ run[d.by].attempt = d.attempt
    BY <1>1, <1>t DEF SessionAttended
  <1>3. d.by # r
    BY <1>1, <1>2 DEF Own
  <1>4. run'[d.by] = run[d.by]
    BY <1>2, <1>3, <1>t
  <1> QED BY <1>2, <1>4

\* What a teardown does to the sessions: those of the runner are gone, or they are left,
\* and then their attempts are unattended.
LEMMA TeardownLeaves ==
    ASSUME DInv, NEW r \in Runners, Gone(r) \/ Left(r), UNCHANGED outlived
    PROVE  /\ Unattended \subseteq Unattended'
           /\ \A a \in Unattended' : a \in Unattended \/ \E d \in dreaming : a = d.attempt
           /\ \A d \in dreaming' : \/ d \in dreaming
                                   \/ d.attempt \in Unattended' /\ \E c \in dreaming : d.attempt = c.attempt
           /\ dreaming' \cap Own(r) = {}
  <1>t. \A d \in dreaming : d \in Session
    BY DEF DInv, Typed
  <1>1. CASE Gone(r)
    <2>1. dreaming' \subseteq dreaming /\ Unattended' = Unattended
      BY <1>1 DEF Gone, NameKilled, Unattended
    <2>2. dreaming' \cap Own(r) = {}
      BY <1>1 DEF Gone, NameKilled, OverTmux
    <2> QED BY <2>1, <2>2
  <1>2. CASE Left(r)
    <2>1. ASSUME NEW d \in Own(r)
          PROVE  /\ [d EXCEPT !.left = TRUE].attempt = d.attempt
                 /\ [d EXCEPT !.left = TRUE].left
      BY <1>t DEF Own, Session
    <2>2. \A d \in dreaming' :
             \/ d \in dreaming /\ d \notin Own(r)
             \/ d.left /\ \E c \in Own(r) : d.attempt = c.attempt
      BY <1>2, <2>1 DEF Left
    <2>3. \A c \in Own(r) : c \in dreaming /\ ~c.left /\ c.attempt \in Unattended'
      BY <1>2 DEF Left, Own, Unattended
    <2>4. \A a \in Unattended' : a \in Unattended \/ \E d \in Own(r) : a = d.attempt
      BY <1>2 DEF Left, Unattended
    <2>5. Unattended \subseteq Unattended'
      BY <1>2 DEF Left, Unattended
    <2> QED BY <2>2, <2>3, <2>4, <2>5
  <1> QED BY <1>1, <1>2

\* Where a runner changes no attempt and no session, its own part of the invariant is
\* what is left to show.
LEMMA OneRunnerMoves ==
    ASSUME DInv, DInv', Kept, OnceInv, NEW r \in Runners, NEW e, run' = [run EXCEPT ![r] = e],
           UNCHANGED <<attempts, dreaming, written, Unattended>>,
           run[r].at # "running", ReadsAhead(r)', Attended(r)'
    PROVE  OnceInv'
  <1>1. run \in [Runners -> Run] /\ \A q \in Runners : q # r => run'[q] = run[q]
    BY DEF DInv, Typed
  <1>2. SessionAttended'
    BY SessionStays DEF OnceInv
  <1>3. WritesSettled'
    BY ReceiptsStay DEF OnceInv
  <1>4. ASSUME NEW q \in Runners PROVE ReadsAhead(q)' /\ Attended(q)'
    <2>1. CASE q # r
      <3>1. run'[q] = run[q]
        BY <1>1, <2>1
      <3>2. Attended(q)'
        BY <3>1, OthersAttended DEF OnceInv, Holds
      <3> QED BY <3>1, <3>2 DEF OnceInv, ReadsAhead
    <2> QED BY <2>1
  <1>5. SessionsBegun'
    BY BegunStay DEF OnceInv, OnlyBegun
  <1> QED BY <1>2, <1>3, <1>4, <1>5 DEF OnceInv

\* Where only one runner moves, and what it changes leaves the others their leases.
LEMMA OneRunnerSettles ==
    ASSUME DInv, DInv', Kept, OnceInv, NEW r \in Runners, NEW e, run' = [run EXCEPT ![r] = e],
           written' = written, Unattended \subseteq Unattended',
           \A a \in Unattended' : a \in Unattended \/ (a \in Attempts /\ Began(a)),
           OnlyBegun,
           \A q \in Runners, a \in Attempts :
                q # r /\ WorksOn(q, a) /\ Holds(q, a) /\ ~attempts[a].expired
                    => Holds(q, a)' /\ ~attempts'[a].expired,
           SessionAttended', WritesSettled', ReadsAhead(r)', Attended(r)'
    PROVE  OnceInv'
  <1>1. \A q \in Runners : q # r => run'[q] = run[q]
    BY DEF DInv, Typed
  <1>2. ASSUME NEW q \in Runners PROVE ReadsAhead(q)' /\ Attended(q)'
    <2>1. CASE q # r
      <3>1. run'[q] = run[q]
        BY <1>1, <2>1
      <3>2. Attended(q)'
        BY <2>1, <3>1, OthersAttended DEF OnceInv
      <3> QED BY <3>1, <3>2 DEF OnceInv, ReadsAhead
    <2> QED BY <2>1
  <1>3. SessionsBegun'
    BY BegunStay DEF OnceInv
  <1> QED BY <1>2, <1>3 DEF OnceInv

\* A runner that goes on to another stage of the same attempt.
LEMMA StageAttended ==
    ASSUME DInv, NEW r \in Runners, Attended(r), run[r].at \in Working,
           run'[r].attempt = run[r].attempt,
           UNCHANGED <<attempts, written>>, Unattended \subseteq Unattended',
           run'[r].at \in {"launch", "giveup"} => ~WrittenUnder(run[r].attempt),
           run'[r].at = "running" => run[r].at = "launch"
    PROVE  Attended(r)'
  <1> SUFFICES ASSUME NEW a \in Attempts, WorksOn(r, a)'
               PROVE  /\ Holds(r, a)' /\ ~attempts'[a].expired
                      /\ run'[r].at \in {"launch", "giveup"} => ~WrittenUnder(a)'
                      /\ run'[r].at = "running" => \A p \in Runners : <<a, p>> \in written' => p = r
    BY DEF Attended
  <1>1. a = run[r].attempt /\ WorksOn(r, a)
    BY DEF WorksOn
  <1>2. WrittenUnder(a)' <=> WrittenUnder(a)
    BY DEF WrittenUnder
  <1>3. run'[r].at = "running" => ~WrittenUnder(a)
    BY <1>1 DEF Attended
  <1> QED BY <1>1, <1>2, <1>3 DEF Attended, Holds, WrittenUnder

\* A runner with nothing in hand.
LEMMA IdleAttended ==
    ASSUME NEW r \in Runners, run'[r].at \notin Working PROVE Attended(r)'
  BY DEF Attended, WorksOn

\* The steps of a runner that leave the receipts and the session alone.
LEMMA QuietStepsOnce ==
    ASSUME DInv, DInv', Kept, OnceInv, NEW r \in Runners,
           \/ CheckWrites(r) \/ NothingPending(r) \/ ReadProgress(r) \/ LaunchFails(r)
           \/ CountWrites(r) \/ LeaseLost(r)
    PROVE  OnceInv'
  <1>t. run \in [Runners -> Run] /\ run[r] \in Run /\ Attended(r)
    BY DEF DInv, Typed, OnceInv
  <1>i. IdleRun.at = "idle"
    BY DEF IdleRun
  <1>u. UNCHANGED <<attempts, dreaming, written, Unattended>>
    BY DEF CheckWrites, NothingPending, ReadProgress, LaunchFails, CountWrites, LeaseLost,
       storeVars, sessionVars, Unattended
  <1>1. CASE CheckWrites(r) \/ LaunchFails(r) \/ CountWrites(r)
    <2>1. PICK e : /\ run' = [run EXCEPT ![r] = e] /\ run'[r] = e /\ e.attempt = run[r].attempt
                   /\ e.at \in {"launch", "giveup"} => ~WrittenUnder(run[r].attempt)
                   /\ e.at \in {"launch", "giveup", "count", "commit"}
                   /\ run[r].at \in {"check", "launch", "count"}
      <3>1. CASE CheckWrites(r)
        <4>1. PICK at \in {"launch", "giveup", "commit"} :
                /\ Goes(r, at) /\ run[r].at = "check"
                /\ at \in {"launch", "giveup"} => ~WrittenUnder(run[r].attempt)
          BY <3>1 DEF CheckWrites
        <4>2. run' = [run EXCEPT ![r] = [run[r] EXCEPT !.at = at]]
          BY <4>1 DEF Goes
        <4> QED BY <4>1, <4>2, <1>t DEF Run
      <3>2. CASE LaunchFails(r)
        <4>1. run[r].at = "launch" /\ run' = [run EXCEPT ![r] = [run[r] EXCEPT !.at = "count", !.failed = TRUE]]
          BY <3>2 DEF LaunchFails
        <4> QED BY <4>1, <1>t DEF Run
      <3>3. CASE CountWrites(r)
        <4>1. PICK at \in {"giveup", "commit"} :
                /\ Goes(r, at) /\ run[r].at = "count"
                /\ at = "giveup" => ~WrittenUnder(run[r].attempt)
          BY <3>3 DEF CountWrites
        <4>2. run' = [run EXCEPT ![r] = [run[r] EXCEPT !.at = at]]
          BY <4>1 DEF Goes
        <4> QED BY <4>1, <4>2, <1>t DEF Run
      <3> QED BY <1>1, <3>1, <3>2, <3>3
    <2>2. Attended(r)'
      BY <1>t, <1>u, <2>1, StageAttended DEF Working
    <2>3. ReadsAhead(r)'
      BY <2>1 DEF ReadsAhead
    <2> QED BY <1>u, <2>1, <2>2, <2>3, OneRunnerMoves
  <1>2. CASE NothingPending(r) \/ ReadProgress(r) \/ LeaseLost(r)
    <2>1. PICK e : /\ run' = [run EXCEPT ![r] = e] /\ run'[r] = e
                   /\ e.at \in {"idle", "progress", "read"}
                   /\ run[r].at \in {"idle", "progress", "commit", "giveup"}
      <3>1. CASE NothingPending(r)
        <4>1. run[r].at = "idle" /\ run' = [run EXCEPT ![r] = [run[r] EXCEPT !.at = "progress"]]
          BY <3>1 DEF NothingPending, Goes
        <4> QED BY <4>1, <1>t DEF Run
      <3>2. CASE ReadProgress(r)
        <4>1. run[r].at = "progress" /\ run' = [run EXCEPT ![r] = [run[r] EXCEPT !.at = "read", !.snapshot = watermark]]
          BY <3>2 DEF ReadProgress
        <4> QED BY <4>1, <1>t DEF Run
      <3>3. CASE LeaseLost(r)
        BY <3>3, <1>t, <1>i DEF LeaseLost, Returns
      <3> QED BY <1>2, <3>1, <3>2, <3>3
    <2>2. Attended(r)'
      BY <2>1, IdleAttended DEF Working
    <2>3. ReadsAhead(r)'
      BY <2>1 DEF ReadsAhead
    <2> QED BY <1>u, <2>1, <2>2, <2>3, OneRunnerMoves
  <1> QED BY <1>1, <1>2

\* What is read to begin with has an end above its start.
LEMMA ReadIntervalOnce ==
    ASSUME DInv, DInv', Kept, OnceInv, NEW r \in Runners, ReadInterval(r)
    PROVE  OnceInv'
  <1>t. /\ run \in [Runners -> Run] /\ run[r] \in Run /\ run[r].at = "read" /\ Typed
        /\ run[r].retry = NoAttempt /\ run[r].snapshot \in 0..arrived
        /\ watermark \in Nat /\ arrived \in Nat
        /\ UNCHANGED <<attempts, dreaming, written, Unattended>>
    <2>1. run[r].at = "read" /\ UNCHANGED <<attempts, dreaming, written, Unattended>>
      BY DEF ReadInterval, storeVars, sessionVars, Unattended
    <2>2. run \in [Runners -> Run] /\ Typed /\ watermark \in 0..arrived /\ arrived \in Nat
      BY DEF DInv, Typed
    <2>3. run[r].retry = NoAttempt /\ run[r].snapshot <= watermark
      BY <2>1 DEF DInv, Remembers
    <2>4. run[r].snapshot \in Nat
      BY <2>2, RunTypes
    <2> QED BY <2>1, <2>2, <2>3, <2>4
  <1>1. PICK e : /\ run' = [run EXCEPT ![r] = e] /\ run'[r] = e
                 /\ e.at \in {"idle", "close", "begin"}
                 /\ e.at \in {"close", "begin"} => e.start <= e.end
                 /\ e.at = "begin" /\ e.retry = NoAttempt => e.start < e.end
    <2>1. ASSUME NEW a \in Attempts, Newest(a),
                 run' = [run EXCEPT ![r] = [run[r] EXCEPT !.at = "begin", !.retry = a,
                               !.start = attempts[a].start, !.end = attempts[a].end]],
                 Between(attempts[a].start, attempts[a].end) # {}
          PROVE  \E e : /\ run' = [run EXCEPT ![r] = e] /\ run'[r] = e /\ e.at = "begin"
                        /\ e.start <= e.end /\ e.retry # NoAttempt
      <3>1. PICK s \in Nat, t \in Nat : s = attempts[a].start /\ t = attempts[a].end
        BY <1>t, ReceiptTypes, StoreOfInvariant
      <3>2. s <= t
        <4>1. PICK m \in history : s < m /\ m <= t
          BY <2>1, <3>1 DEF Between
        <4>2. m \in Nat
          BY <1>t DEF Typed
        <4> QED BY <3>1, <4>1, <4>2
      <3>3. a # NoAttempt
        BY DEF Attempts, NoAttempt
      <3>4. PICK e : e = [run[r] EXCEPT !.at = "begin", !.retry = a, !.start = s, !.end = t]
        OBVIOUS
      <3>5. e.at = "begin" /\ e.start = s /\ e.end = t /\ e.retry = a
        BY <3>4, <1>t DEF Run
      <3> QED BY <2>1, <3>1, <3>2, <3>3, <3>4, <3>5, <1>t
    <2>2. ASSUME NEW a \in Attempts, Newest(a), NEW rest, rest = Later(run[r].snapshot, attempts[a].end),
                 run' = [run EXCEPT ![r] = [run[r] EXCEPT !.at = "close", !.retry = a,
                               !.start = rest, !.end = NewWatermark(rest)]]
          PROVE  \E e : /\ run' = [run EXCEPT ![r] = e] /\ run'[r] = e /\ e.at = "close"
                        /\ e.start <= e.end
      <3>1. attempts[a].end \in Nat /\ attempts[a].end <= arrived
        BY <2>2, ReceiptTypes, StoreOfInvariant DEF Newest, Retryable, DInv, Anchored, Began
      <3>2. rest \in 0..arrived
        BY <2>2, <3>1, <1>t DEF Later
      <3>3. NewWatermark(rest) >= rest /\ NewWatermark(rest) \in 0..arrived /\ rest \in Nat
        BY <3>2, <1>t, NewWatermarkAhead, NewWatermarkBounds
      <3>4. PICK e : e = [run[r] EXCEPT !.at = "close", !.retry = a, !.start = rest, !.end = NewWatermark(rest)]
        OBVIOUS
      <3>5. e.at = "close" /\ e.start = rest /\ e.end = NewWatermark(rest)
        BY <3>4, <1>t DEF Run
      <3>6. e.start <= e.end
        BY <3>3, <3>5, <1>t
      <3> QED BY <2>2, <3>4, <3>5, <3>6, <1>t
    <2>3. ASSUME NEW low, low = run[r].snapshot, Lines(low) # {},
                 run' = [run EXCEPT ![r] = [run[r] EXCEPT !.at = "begin", !.start = low,
                                                          !.end = NewWatermark(low)]]
          PROVE  \E e : /\ run' = [run EXCEPT ![r] = e] /\ run'[r] = e /\ e.at = "begin"
                        /\ e.start <= e.end /\ e.start < e.end
      <3>1. NewWatermark(low) > low /\ NewWatermark(low) \in 0..arrived /\ low \in Nat
        BY <2>3, <1>t, NewWatermarkAhead, NewWatermarkBounds
      <3>2. PICK e : e = [run[r] EXCEPT !.at = "begin", !.start = low, !.end = NewWatermark(low)]
        OBVIOUS
      <3>3. e.at = "begin" /\ e.start = low /\ e.end = NewWatermark(low)
        BY <3>2, <1>t DEF Run
      <3>4. e.start <= e.end /\ e.start < e.end
        BY <3>1, <3>3, <1>t
      <3> QED BY <2>3, <3>2, <3>3, <3>4, <1>t
    <2>4. IdleRun.at = "idle"
      BY DEF IdleRun
    <2> QED BY <1>t, <2>1, <2>2, <2>3, <2>4 DEF ReadInterval
  <1>2. Attended(r)'
    BY <1>1, IdleAttended DEF Working
  <1>3. ReadsAhead(r)'
    BY <1>1 DEF ReadsAhead
  <1> QED BY <1>1, <1>2, <1>3, <1>t, OneRunnerMoves

-----------------------------------------------------------------------------
(* The runner and its lease.                                                 *)

\* A claim takes a lease from nobody who works under it.
LEMMA ClaimOnce ==
    ASSUME DInv, DInv', Kept, OnceInv, NEW r \in Runners, Claim(r)
    PROVE  OnceInv'
  <1>t. run \in [Runners -> Run] /\ attempts \in [Attempts -> Receipt] /\ run[r].at = "idle"
    BY DEF DInv, Typed, Claim
  <1>1. PICK a \in Pending :
           /\ Claimable(r, a)
           /\ attempts' = [attempts EXCEPT ![a].owner = r, ![a].expired = FALSE]
           /\ run' = [run EXCEPT ![r] = [IdleRun EXCEPT !.at = "check", !.attempt = a]]
    BY DEF Claim
  <1>u. UNCHANGED <<watermark, dreaming, written, Unattended>>
    BY DEF Claim, sessionVars, Unattended
  <1>2. a \in Attempts /\ attempts[a].status = "pending" /\ attempts[a] \in Receipt
    BY <1>t DEF Pending
  <1>3. PICK receipt : receipt = [attempts[a] EXCEPT !.owner = r, !.expired = FALSE]
    OBVIOUS
  <1>4. receipt.status = "pending" /\ receipt.owner = r /\ receipt.expired = FALSE
    BY <1>2, <1>3 DEF Receipt
  <1>5. attempts' = [attempts EXCEPT ![a] = receipt] /\ attempts'[a] = receipt
    BY <1>1, <1>2, <1>3, <1>t
  <1>6. run'[r].at = "check" /\ run'[r].attempt = a
    BY <1>1, <1>t DEF IdleRun
  <1>7. WritesSettled'
    BY <1>4, <1>5, <1>u, ReceiptSettles DEF OnceInv
  <1>8. SessionAttended'
    BY <1>1, <1>t, <1>u, SessionStays DEF OnceInv
  <1>9. Attended(r)'
    BY <1>4, <1>5, <1>6 DEF Attended, WorksOn, Holds
  <1>10. ReadsAhead(r)'
    BY <1>6 DEF ReadsAhead
  <1>11. ASSUME NEW q \in Runners, NEW b \in Attempts, q # r, WorksOn(q, b), Holds(q, b),
                ~attempts[b].expired
         PROVE  FALSE
    <2>1. b = a
      BY <1>11 DEF DInv, OnePending, Holds, Pending
    <2> QED BY <1>1, <1>11, <2>1 DEF Claimable, Holds, WorksOn, Working
  <1> QED BY <1>1, <1>u, <1>7, <1>8, <1>9, <1>10, <1>11, OneRunnerSettles DEF OnlyBegun

\* While one runner holds the lease, no other has one.
LEMMA NobodyElseHolds ==
    ASSUME DInv, NEW r \in Runners, NEW a \in Attempts, Holds(r, a),
           NEW q \in Runners, NEW b \in Attempts, Holds(q, b)
    PROVE  q = r /\ b = a
  BY DEF DInv, OnePending, Holds, Pending

\* Marking the end of a session keeps the lease, or drops a run that has none.
LEMMA MarkEndedOnce ==
    ASSUME DInv, DInv', Kept, OnceInv, NEW r \in Runners, MarkEnded(r)
    PROVE  OnceInv'
  <1>t. /\ run \in [Runners -> Run] /\ run[r] \in Run /\ attempts \in [Attempts -> Receipt]
        /\ run[r].at = "ended" /\ run[r].attempt \in Attempts
    BY DEF DInv, Typed, MarkEnded, Remembers
  <1>u. UNCHANGED <<watermark, dreaming, written, Unattended>>
    BY DEF MarkEnded, sessionVars, Unattended
  <1>a. PICK a \in Attempts : a = run[r].attempt
    BY <1>t
  <1>1. CASE Holds(r, a)
    <2>1. /\ attempts' = [attempts EXCEPT ![a].ended = TRUE]
          /\ run' = [run EXCEPT ![r] = [run[r] EXCEPT !.at = "count"]]
      BY <1>1, <1>a, <1>t DEF MarkEnded, Goes
    <2>2. attempts[a] \in Receipt /\ a \in Pending
      BY <1>1, <1>t DEF Holds, Pending
    <2>3. PICK receipt : receipt = [attempts[a] EXCEPT !.ended = TRUE]
      OBVIOUS
    <2>4. /\ receipt.status = "pending" /\ receipt.owner = attempts[a].owner
          /\ receipt.expired = attempts[a].expired
      BY <2>2, <2>3 DEF Receipt, Pending
    <2>5. attempts' = [attempts EXCEPT ![a] = receipt] /\ attempts'[a] = receipt
      BY <2>1, <2>3, <1>t
    <2>6. run'[r].at = "count" /\ run'[r].attempt = a
      BY <2>1, <1>t, <1>a DEF Run
    <2>7. WritesSettled'
      BY <2>2, <2>4, <2>5, <1>u, ReceiptSettles DEF OnceInv
    <2>8. SessionAttended'
      BY <2>1, <1>t, <1>u, SessionStays DEF OnceInv
    <2>9. Attended(r)'
      <3>1. ASSUME NEW b \in Attempts, WorksOn(r, b)'
            PROVE  b = a /\ Holds(r, b)' /\ ~attempts'[b].expired
        <4>1. b = a /\ WorksOn(r, a)
          BY <3>1, <2>6, <1>t, <1>a, <1>u DEF WorksOn, Working
        <4>2. Holds(r, a) /\ ~attempts[a].expired
          BY <4>1 DEF OnceInv, Attended
        <4> QED BY <4>1, <4>2, <2>4, <2>5 DEF Holds
      <3> QED BY <3>1, <2>6 DEF Attended
    <2>10. ReadsAhead(r)'
      BY <2>6 DEF ReadsAhead
    <2>11. \A q \in Runners, b \in Attempts : q # r => ~Holds(q, b)
      BY <1>1, NobodyElseHolds
    <2> QED BY <2>1, <1>u, <2>7, <2>8, <2>9, <2>10, <2>11, OneRunnerSettles DEF OnlyBegun
  <1>2. CASE ~Holds(r, a)
    <2>1. attempts' = attempts /\ run' = [run EXCEPT ![r] = IdleRun]
      BY <1>2, <1>a DEF MarkEnded, Returns
    <2>2. run'[r].at = "idle"
      BY <2>1, <1>t DEF IdleRun
    <2>3. Attended(r)' /\ ReadsAhead(r)'
      BY <2>2, IdleAttended DEF Working, ReadsAhead
    <2> QED BY <2>1, <2>3, <1>u, <1>t, OneRunnerMoves
  <1> QED BY <1>1, <1>2

\* Settling or failing an attempt: what is committed lies at or below the watermark, and
\* what is given up has written nothing.
LEMMA SettleOnce ==
    ASSUME DInv, DInv', Kept, OnceInv, NEW r \in Runners, Commit(r) \/ Fail(r) \/ FailForGood(r)
    PROVE  OnceInv'
  <1>t. /\ run \in [Runners -> Run] /\ run[r] \in Run /\ attempts \in [Attempts -> Receipt]
        /\ run[r].at \in {"commit", "giveup"} /\ run[r].attempt \in Attempts
        /\ watermark \in Nat
    <2>1. run \in [Runners -> Run] /\ attempts \in [Attempts -> Receipt] /\ watermark \in Nat
      BY DEF DInv, Typed
    <2>2. run[r].at \in {"commit", "giveup"}
      BY DEF Commit, Fail, FailForGood
    <2> QED BY <2>1, <2>2 DEF DInv, Remembers
  <1>u. UNCHANGED <<dreaming, written, Unattended>> /\ run' = [run EXCEPT ![r] = IdleRun]
    BY DEF Commit, Fail, FailForGood, sessionVars, Returns, Unattended
  <1>a. PICK a \in Attempts : a = run[r].attempt
    BY <1>t
  <1>h. Holds(r, a) /\ a \in Pending
    BY <1>a DEF Commit, Fail, FailForGood, Holds, Pending
  <1>1. PICK status \in {"completed", "failed"}, terminal \in BOOLEAN :
          /\ Closed(a, status, terminal)
          /\ status = "completed" => watermark' = Later(watermark, attempts[a].end)
          /\ status = "failed" => run[r].at = "giveup"
    <2>1. CASE Commit(r)
      BY <2>1, <1>a DEF Commit
    <2>2. CASE Fail(r)
      BY <2>2, <1>a DEF Fail
    <2>3. CASE FailForGood(r)
      BY <2>3, <1>a DEF FailForGood
    <2> QED BY <2>1, <2>2, <2>3
  <1>2. PICK receipt : receipt = [attempts[a] EXCEPT !.status = status, !.terminal = terminal,
                                                     !.owner = Nobody, !.expired = FALSE]
    OBVIOUS
  <1>3. attempts[a] \in Receipt /\ attempts[a].end \in Nat
    BY <1>t DEF Receipt
  <1>4. receipt.status = status /\ receipt.end = attempts[a].end
    BY <1>2, <1>3 DEF Receipt
  <1>5. attempts' = [attempts EXCEPT ![a] = receipt] /\ attempts'[a] = receipt
    BY <1>1, <1>2, <1>t DEF Closed
  <1>6. receipt.status = "failed" /\ a \notin Unattended => ~WrittenUnder(a)
    <2> SUFFICES ASSUME run[r].at = "giveup", a \notin Unattended PROVE ~WrittenUnder(a)
      BY <1>1, <1>4
    <2>1. WorksOn(r, a)
      BY <1>a DEF WorksOn, Working
    <2> QED BY <2>1 DEF OnceInv, Attended
  <1>7. receipt.status = "completed" => attempts'[a].end <= watermark'
    <2> SUFFICES ASSUME receipt.status = "completed" PROVE attempts[a].end <= watermark'
      BY <1>4, <1>5
    <2>1. watermark' = Later(watermark, attempts[a].end)
      BY <1>1, <1>4
    <2> QED BY <2>1, <1>3, <1>t DEF Later
  <1>8. WritesSettled'
    BY <1>h, <1>u, <1>4, <1>5, <1>6, <1>7, ReceiptSettles DEF OnceInv
  <1>9. run'[r].at = "idle"
    BY <1>t, <1>u DEF IdleRun
  <1>10. Attended(r)' /\ ReadsAhead(r)'
    BY <1>9, IdleAttended DEF Working, ReadsAhead
  <1>11. SessionAttended'
    BY <1>t, <1>u, SessionStays DEF OnceInv
  <1>12. \A q \in Runners, b \in Attempts : q # r => ~Holds(q, b)
    BY <1>h, NobodyElseHolds
  <1> QED BY <1>u, <1>8, <1>10, <1>11, <1>12, OneRunnerSettles DEF OnlyBegun

\* Closing a night's failed attempts changes no status and no lease.
LEMMA CloseEmptyRetryOnce ==
    ASSUME DInv, DInv', Kept, OnceInv, NEW r \in Runners, CloseEmptyRetry(r)
    PROVE  OnceInv'
  <1>t. /\ run \in [Runners -> Run] /\ run[r] \in Run /\ attempts \in [Attempts -> Receipt]
        /\ run[r].at = "close" /\ run[r].start \in Nat /\ run[r].end \in Nat
        /\ run[r].start <= run[r].end
    <2>1. run \in [Runners -> Run] /\ attempts \in [Attempts -> Receipt]
      BY DEF DInv, Typed
    <2>2. run[r].at = "close"
      BY DEF CloseEmptyRetry
    <2> QED BY <2>1, <2>2 DEF Run, OnceInv, ReadsAhead
  <1>u. UNCHANGED <<dreaming, written, Unattended>>
    BY DEF CloseEmptyRetry, sessionVars, Unattended
  <1>1. ASSUME NEW b \in Attempts
        PROVE  /\ attempts'[b].status = attempts[b].status
               /\ attempts'[b].owner = attempts[b].owner
               /\ attempts'[b].expired = attempts[b].expired
    <2>1. attempts[b] \in Receipt
      BY <1>t
    <2>2. attempts'[b] \in {attempts[b], [attempts[b] EXCEPT !.terminal = TRUE]}
      BY DEF CloseEmptyRetry, storeVars
    <2> QED BY <2>1, <2>2 DEF Receipt
  <1>2. PICK e : /\ run' = [run EXCEPT ![r] = e] /\ run'[r] = e
                 /\ e.at \in {"idle", "begin"}
                 /\ e.at = "begin" => e.start < e.end
    <2>1. CASE run' = [run EXCEPT ![r] = IdleRun]
      <3>1. PICK e : e = IdleRun
        OBVIOUS
      <3>2. e.at = "idle" /\ run' = [run EXCEPT ![r] = e] /\ run'[r] = e
        BY <3>1, <2>1, <1>t DEF IdleRun
      <3> QED BY <3>2
    <2>2. CASE /\ run[r].end # run[r].start
               /\ run' = [run EXCEPT ![r] = [run[r] EXCEPT !.at = "begin", !.retry = NoAttempt,
                                                           !.snapshot = run[r].start]]
      <3>1. PICK e : e = [run[r] EXCEPT !.at = "begin", !.retry = NoAttempt,
                                        !.snapshot = run[r].start]
        OBVIOUS
      <3>2. e.at = "begin" /\ e.start = run[r].start /\ e.end = run[r].end
        BY <3>1, <1>t DEF Run
      <3>3. e.start < e.end
        BY <3>2, <2>2, <1>t
      <3>4. run' = [run EXCEPT ![r] = e] /\ run'[r] = e
        BY <3>1, <2>2, <1>t
      <3> QED BY <3>2, <3>3, <3>4
    <2> QED BY <2>1, <2>2 DEF CloseEmptyRetry, Returns
  <1>3. Attended(r)'
    BY <1>2, IdleAttended DEF Working
  <1>4. ReadsAhead(r)'
    <2>1. run'[r].at = "begin" => run'[r].start < run'[r].end
      BY <1>2
    <2>2. run'[r].start \in Nat /\ run'[r].end \in Nat
      BY DEF DInv, Typed, Run
    <2> QED BY <1>2, <2>1, <2>2 DEF ReadsAhead
  <1>5. WritesSettled'
    BY <1>1, <1>u, ReceiptsStay DEF OnceInv
  <1>6. SessionAttended'
    BY <1>2, <1>t, <1>u, SessionStays DEF OnceInv
  <1>7. \A q \in Runners, b \in Attempts :
           q # r /\ WorksOn(q, b) /\ Holds(q, b) /\ ~attempts[b].expired
               => Holds(q, b)' /\ ~attempts'[b].expired
    BY <1>1 DEF Holds
  <1> QED BY <1>2, <1>u, <1>3, <1>4, <1>5, <1>6, <1>7, OneRunnerSettles DEF OnlyBegun

\* A new attempt's interval ends above the watermark, so that no completed attempt has it.
LEMMA BeginOnce ==
    ASSUME DInv, DInv', Kept, OnceInv, NEW r \in Runners, Begin(r)
    PROVE  OnceInv'
  <1>t. /\ run \in [Runners -> Run] /\ run[r] \in Run /\ attempts \in [Attempts -> Receipt]
        /\ run[r].at = "begin" /\ run[r].start \in Nat /\ run[r].end \in Nat
        /\ watermark \in Nat
    <2>1. /\ run \in [Runners -> Run] /\ attempts \in [Attempts -> Receipt]
          /\ watermark \in Nat
      BY DEF DInv, Typed
    <2>2. run[r].at = "begin"
      BY DEF Begin
    <2> QED BY <2>1, <2>2 DEF Run
  <1>u. UNCHANGED <<watermark, dreaming, written, Unattended>>
    BY DEF Begin, sessionVars, Unattended
  <1>1. CASE Returns(r) /\ attempts' = attempts
    <2>1. run' = [run EXCEPT ![r] = IdleRun] /\ run'[r].at = "idle"
      BY <1>1, <1>t DEF Returns, IdleRun
    <2>2. Attended(r)' /\ ReadsAhead(r)'
      BY <2>1, IdleAttended DEF Working, ReadsAhead
    <2> QED BY <1>t, <1>u, <1>1, <2>1, <2>2, OneRunnerMoves
  <1>2. CASE ~(Returns(r) /\ attempts' = attempts)
    <2>n. NightOf(r) \in 1..MaxNights
      BY <1>t DEF NightOf, DInv, Typed, Remembers, Attempts
    <2>a. PICK a : a = <<NightOf(r), NextNumber(NightOf(r))>>
      OBVIOUS
    <2>1. /\ Fresh(r) /\ Pending = {} /\ NextNumber(NightOf(r)) <= Cap
          /\ attempts' = [attempts EXCEPT ![a] = NewReceipt(r)]
          /\ run' = [run EXCEPT ![r] = [IdleRun EXCEPT !.at = "launch", !.attempt = a]]
      BY <1>2, <2>a DEF Begin
    <2>2. a \in Attempts /\ ~Began(a)
      BY <2>n, <2>a, <2>1, NextNumberFree DEF Attempts, Began, DInv
    <2>3. run'[r].at = "launch" /\ run'[r].attempt = a
      BY <2>1, <1>t DEF IdleRun
    <2>4. /\ attempts'[a].status = "pending" /\ attempts'[a].owner = r
          /\ attempts'[a].expired = FALSE /\ attempts'[a].end = run[r].end
      BY <2>1, <2>2, <1>t DEF NewReceipt
    <2>5. \A b \in Attempts : b # a => attempts'[b] = attempts[b]
      BY <2>1, <1>t
    <2>6. run[r].end > watermark
      <3>1. CASE run[r].retry = NoAttempt
        <4>1. watermark = run[r].start /\ run[r].start < run[r].end
          BY <3>1, <2>1, <1>t DEF Fresh, OnceInv, ReadsAhead
        <4> QED BY <4>1, <1>t
      <3>2. CASE run[r].retry # NoAttempt
        BY <3>2, <2>1 DEF Fresh
      <3> QED BY <3>1, <3>2
    <2>7. WritesSettled'
      <3>1. ASSUME NEW b \in Attempts, Began(b), attempts'[b].end = attempts'[a].end
            PROVE  attempts[b].status = "failed"
        <4>1. b # a
          BY <3>1, <2>2
        <4>2. attempts[b].end = run[r].end /\ attempts[b].end \in Nat
          BY <3>1, <4>1, <2>4, <2>5, <1>t
        <4>3. attempts[b].status # "completed"
          <5> SUFFICES ASSUME attempts[b].status = "completed" PROVE FALSE
            OBVIOUS
          <5>1. attempts[b].end <= watermark
            BY DEF OnceInv, WritesSettled
          <5> QED BY <5>1, <4>2, <2>6, <1>t
        <4>4. attempts[b].status # "pending"
          BY <2>1 DEF Pending
        <4>5. attempts[b].status \in Status
          BY <1>t DEF Receipt
        <4> QED BY <3>1, <4>3, <4>4, <4>5 DEF Began, Status
      <3>2. \A b \in Attempts : ~Began(b) /\ Began(b)' => b = a
        BY <2>5 DEF Began
      <3>3. \A b \in Attempts : attempts'[b].status = "failed" => attempts[b].status = "failed"
        BY <2>4, <2>5
      <3>4. \A b \in Attempts : attempts[b].status = "failed" => attempts'[b].status = "failed"
        BY <2>2, <2>5 DEF Began
      <3>5. \A b \in Attempts : attempts'[b].status = "completed" => attempts[b].status = "completed"
        BY <2>4, <2>5
      <3> QED BY <3>1, <3>2, <3>3, <3>4, <3>5, <1>u, WritesKeptSettled DEF OnceInv
    <2>8. ~WrittenUnder(a)
      BY <2>2 DEF OnceInv, WritesSettled, WrittenUnder
    <2>9. Attended(r)'
      BY <1>u, <2>3, <2>4, <2>8 DEF Attended, WorksOn, Holds, WrittenUnder
    <2>10. ReadsAhead(r)'
      BY <2>3 DEF ReadsAhead
    <2>11. SessionAttended'
      BY <2>1, <1>t, <1>u, SessionStays DEF OnceInv
    <2>12. \A q \in Runners, b \in Attempts : ~Holds(q, b)
      BY <2>1 DEF Pending, Holds
    <2> QED BY <2>1, <1>u, <2>7, <2>9, <2>10, <2>11, <2>12, OneRunnerSettles DEF OnlyBegun
  <1> QED BY <1>1, <1>2

-----------------------------------------------------------------------------
(* The session.                                                              *)

\* A session is launched under an attempt that wrote nothing.
LEMMA LaunchOnce ==
    ASSUME DInv, DInv', Kept, OnceInv, NEW r \in Runners, Launch(r)
    PROVE  OnceInv'
  <1>t. /\ run \in [Runners -> Run] /\ run[r] \in Run
        /\ run[r].at = "launch" /\ run[r].attempt \in Attempts /\ Attended(r)
    BY DEF DInv, Typed, Launch, Remembers, OnceInv
  <1>u. UNCHANGED <<attempts, watermark, written, Unattended>>
    BY DEF Launch, storeVars, Unattended
  <1>1. PICK t \in Transports :
           /\ run' = [run EXCEPT ![r] = [run[r] EXCEPT !.at = "running"]]
           /\ dreaming' \subseteq dreaming \cup
                {[attempt |-> run[r].attempt, by |-> r, over |-> t, left |-> FALSE]}
    BY DEF Launch, Goes, NameKilled
  <1>2. run'[r].at = "running" /\ run'[r].attempt = run[r].attempt
    BY <1>1, <1>t DEF Run
  <1>3. \A d \in dreaming' :
           d \in dreaming \/ (d.attempt = run[r].attempt /\ d.by = r /\ ~d.left)
    BY <1>1
  <1>4. Began(run[r].attempt)
    <2>1. CASE run[r].attempt \in Unattended
      BY <2>1 DEF OnceInv, SessionsBegun
    <2>2. CASE run[r].attempt \notin Unattended
      <3>1. Holds(r, run[r].attempt)
        BY <1>t, <2>2 DEF Attended, WorksOn, Working
      <3> QED BY <3>1 DEF Holds, Began
    <2> QED BY <2>1, <2>2
  <1>5. Attended(r)'
    BY <1>t, <1>u, <1>2, StageAttended DEF Working
  <1>6. ReadsAhead(r)'
    BY <1>2 DEF ReadsAhead
  <1>7. SessionAttended'
    <2> SUFFICES ASSUME NEW d \in dreaming', d.attempt \notin Unattended
                 PROVE  /\ ~d.left /\ run'[d.by].at = "running"
                        /\ run'[d.by].attempt = d.attempt
      BY <1>u DEF SessionAttended
    <2>1. CASE d \in dreaming
      <3>1. /\ ~d.left /\ run[d.by].at = "running" /\ run[d.by].attempt = d.attempt
            /\ d.by \in Runners
        BY <2>1 DEF OnceInv, SessionAttended, DInv, Typed, Session
      <3>2. run'[d.by] = run[d.by]
        BY <3>1, <1>t, <1>1
      <3> QED BY <3>1, <3>2
    <2>2. CASE d \notin dreaming
      BY <2>2, <1>2, <1>3
    <2> QED BY <2>1, <2>2
  <1>8. WritesSettled'
    BY <1>u, ReceiptsStay DEF OnceInv
  <1>9. OnlyBegun
    BY <1>t, <1>3, <1>4 DEF OnlyBegun
  <1>10. \A q \in Runners, b \in Attempts :
           Holds(q, b) /\ ~attempts[b].expired => Holds(q, b)' /\ ~attempts'[b].expired
    BY <1>u DEF Holds
  <1> QED BY <1>1, <1>5, <1>6, <1>7, <1>8, <1>9, <1>10, <1>u, OneRunnerSettles

\* When its runner is done with it, a session is gone or unattended.
LEMMA EndsOnce ==
    ASSUME DInv, DInv', Kept, OnceInv, NEW r \in Runners, Ends(r)
    PROVE  OnceInv'
  <1>t. run \in [Runners -> Run] /\ run[r] \in Run /\ run[r].at = "running" /\ Attended(r)
    BY DEF DInv, Typed, Ends, OnceInv
  <1>u. /\ UNCHANGED <<attempts, watermark, written>>
        /\ (Gone(r) \/ Left(r)) /\ UNCHANGED outlived
    BY DEF Ends, storeVars
  <1>g. /\ Unattended \subseteq Unattended'
        /\ \A a \in Unattended' : a \in Unattended \/ \E d \in dreaming : a = d.attempt
        /\ \A d \in dreaming' : \/ d \in dreaming
                                \/ d.attempt \in Unattended' /\ \E c \in dreaming : d.attempt = c.attempt
        /\ dreaming' \cap Own(r) = {}
    BY <1>u, TeardownLeaves
  <1>1. PICK e : /\ run' = [run EXCEPT ![r] = e] /\ run'[r] = e
                 /\ e.at \in {"ended", "count"} /\ e.attempt = run[r].attempt
    <2>1. CASE run' = [run EXCEPT ![r] = [run[r] EXCEPT !.at = "ended"]]
      <3>1. PICK e : e = [run[r] EXCEPT !.at = "ended"]
        OBVIOUS
      <3>2. e.at = "ended" /\ e.attempt = run[r].attempt
        BY <3>1, <1>t DEF Run
      <3>3. run' = [run EXCEPT ![r] = e] /\ run'[r] = e
        BY <3>1, <2>1, <1>t
      <3> QED BY <3>2, <3>3
    <2>2. CASE run' = [run EXCEPT ![r] = [run[r] EXCEPT !.at = "count", !.failed = TRUE]]
      <3>1. PICK e : e = [run[r] EXCEPT !.at = "count", !.failed = TRUE]
        OBVIOUS
      <3>2. e.at = "count" /\ e.attempt = run[r].attempt
        BY <3>1, <1>t DEF Run
      <3>3. run' = [run EXCEPT ![r] = e] /\ run'[r] = e
        BY <3>1, <2>2, <1>t
      <3> QED BY <3>2, <3>3
    <2> QED BY <2>1, <2>2 DEF Ends, Goes
  <1>2. Attended(r)'
    BY <1>t, <1>u, <1>g, <1>1, StageAttended DEF Working
  <1>3. ReadsAhead(r)'
    BY <1>1 DEF ReadsAhead
  <1>4. SessionAttended'
    BY <1>g, <1>1, SessionStays DEF OnceInv
  <1>5. WritesSettled'
    BY <1>u, <1>g, ReceiptsStay DEF OnceInv
  <1>6. \A q \in Runners, b \in Attempts :
           Holds(q, b) /\ ~attempts[b].expired => Holds(q, b)' /\ ~attempts'[b].expired
    BY <1>u DEF Holds
  <1>7. OnlyBegun /\ \A a \in Unattended' : a \in Unattended \/ (a \in Attempts /\ Began(a))
    <2>1. \A c \in dreaming : c.attempt \in Attempts /\ Began(c.attempt)
      BY DEF OnceInv, SessionsBegun, DInv, Typed, Session
    <2> QED BY <1>g, <2>1 DEF OnlyBegun
  <1> QED BY <1>1, <1>2, <1>3, <1>4, <1>5, <1>6, <1>7, <1>u, <1>g, OneRunnerSettles

\* A session that is attended is the only one that writes under its attempt.
LEMMA WritesOnce ==
    ASSUME DInv, DInv', Kept, OnceInv, Writes
    PROVE  OnceInv'
  <1>t. dreaming \subseteq Session /\ written \subseteq Attempts \X Runners
    BY DEF DInv, Typed
  <1>d. PICK d \in dreaming : written' = written \cup {<<d.attempt, d.by>>}
    BY DEF Writes
  <1>a. PICK a \in Attempts, p \in Runners : a = d.attempt /\ p = d.by
    BY <1>t DEF Session
  <1>u. /\ UNCHANGED <<attempts, watermark, run, dreaming, Unattended>>
        /\ written' = written \cup {<<a, p>>}
    BY <1>a, <1>d DEF Writes, storeVars, Unattended
  <1>b. Began(a)
    BY <1>a DEF OnceInv, SessionsBegun
  <1>1. ASSUME a \notin Unattended
        PROVE  /\ Holds(p, a) /\ run[p].at = "running"
               /\ \A q \in Runners : <<a, q>> \in written => q = p
    <2>1. run[p].at = "running" /\ run[p].attempt = a
      BY <1>1, <1>a DEF OnceInv, SessionAttended
    <2>2. WorksOn(p, a)
      BY <1>1, <2>1 DEF WorksOn, Working
    <2> QED BY <2>1, <2>2 DEF OnceInv, Attended
  <1>2. WritesSettled'
    <2>1. \A v \in written' : Began(v[1])'
      BY <1>u, <1>b DEF OnceInv, WritesSettled, Began
    <2>2. ASSUME NEW v \in written', NEW w \in written', v # w, v[1] = w[1], v[1] \notin Unattended
          PROVE  FALSE
      <3>1. PICK q1 \in Runners, q2 \in Runners, b \in Attempts : v = <<b, q1>> /\ w = <<b, q2>>
        BY <1>t, <1>u, <2>2
      <3>2. CASE v \in written /\ w \in written
        BY <2>2, <3>2 DEF OnceInv, WritesSettled
      <3>3. CASE v \notin written \/ w \notin written
        <4>1. b = a
          BY <1>u, <3>1, <3>3
        <4>2. q1 = p /\ q2 = p
          BY <1>1, <1>u, <2>2, <3>1, <4>1
        <4> QED BY <2>2, <3>1, <4>2
      <3> QED BY <3>2, <3>3
    <2>3. ASSUME NEW b \in Attempts, attempts[b].status = "failed", b \notin Unattended
          PROVE  ~WrittenUnder(b)'
      <3>1. b # a
        BY <1>1, <2>3 DEF Holds
      <3>2. ~WrittenUnder(b)
        BY <2>3 DEF OnceInv, WritesSettled
      <3> QED BY <3>1, <3>2, <1>u DEF WrittenUnder
    <2> QED BY <1>u, <2>1, <2>2, <2>3 DEF OnceInv, WritesSettled, Began
  <1>3. ASSUME NEW q \in Runners PROVE Attended(q)'
    <2> SUFFICES ASSUME NEW b \in Attempts, WorksOn(q, b)
                 PROVE  /\ Holds(q, b) /\ ~attempts[b].expired
                        /\ run[q].at \in {"launch", "giveup"} => ~WrittenUnder(b)'
                        /\ run[q].at = "running" => \A o \in Runners : <<b, o>> \in written' => o = q
      BY <1>u DEF Attended, WorksOn, Holds
    <2>1. /\ Holds(q, b) /\ ~attempts[b].expired
          /\ run[q].at \in {"launch", "giveup"} => ~WrittenUnder(b)
          /\ run[q].at = "running" => \A o \in Runners : <<b, o>> \in written => o = q
      BY DEF OnceInv, Attended
    <2>2. CASE b # a
      BY <1>u, <2>1, <2>2 DEF WrittenUnder
    <2>3. CASE b = a
      <3>1. a \notin Unattended
        BY <2>3 DEF WorksOn
      <3>2. q = p /\ run[q].at = "running"
        BY <1>1, <2>1, <2>3, <3>1, NobodyElseHolds
      <3> QED BY <1>u, <2>1, <2>3, <3>2
    <2> QED BY <2>2, <2>3
  <1>4. \A q \in Runners : ReadsAhead(q)'
    BY <1>u DEF OnceInv, ReadsAhead
  <1>5. SessionAttended' /\ SessionsBegun'
    BY <1>u DEF OnceInv, SessionAttended, SessionsBegun, Began
  <1> QED BY <1>2, <1>3, <1>4, <1>5 DEF OnceInv

-----------------------------------------------------------------------------
(* The world.                                                                *)

\* A lease that runs out beside its owner marks the attempt as left unattended.
LEMMA LeaseExpiresOnce ==
    ASSUME DInv, DInv', Kept, OnceInv, NEW a \in Attempts, LeaseExpires(a)
    PROVE  OnceInv'
  <1>t. /\ run \in [Runners -> Run] /\ attempts \in [Attempts -> Receipt]
        /\ attempts[a] \in Receipt /\ attempts[a].status = "pending"
    BY DEF DInv, Typed, LeaseExpires
  <1>u. UNCHANGED <<run, dreaming, written>> /\ attempts' = [attempts EXCEPT ![a].expired = TRUE]
    BY DEF LeaseExpires
  <1>o. /\ Unattended \subseteq Unattended' /\ \A b \in Unattended' : b \in Unattended \/ b = a
        /\ Busy(attempts[a].owner) => a \in Unattended'
    BY DEF LeaseExpires, Unattended
  <1>1. \A b \in Attempts : /\ attempts'[b].status = attempts[b].status
                            /\ attempts'[b].owner = attempts[b].owner
                            /\ b # a => attempts'[b] = attempts[b]
    <2>1. /\ [attempts[a] EXCEPT !.expired = TRUE].status = attempts[a].status
          /\ [attempts[a] EXCEPT !.expired = TRUE].owner = attempts[a].owner
      BY <1>t DEF Receipt
    <2> QED BY <2>1, <1>t, <1>u
  <1>2. SessionAttended'
    BY <1>u, <1>o DEF OnceInv, SessionAttended
  <1>3. SessionsBegun'
    <2>1. Began(a)
      BY <1>t DEF Began
    <2> QED BY <2>1, <1>u, <1>o, BegunStay DEF OnceInv, OnlyBegun
  <1>4. WritesSettled'
    BY <1>1, <1>u, <1>o, ReceiptsStay DEF OnceInv
  <1>5. ASSUME NEW q \in Runners PROVE ReadsAhead(q)' /\ Attended(q)'
    <2>1. ASSUME NEW b \in Attempts, WorksOn(q, b), Holds(q, b), ~attempts[b].expired
          PROVE  Holds(q, b)' /\ (~attempts'[b].expired \/ b \in Unattended')
      <3>1. Holds(q, b)'
        BY <2>1, <1>1 DEF Holds
      <3>2. CASE b = a
        BY <2>1, <3>1, <3>2, <1>o DEF Busy, WorksOn, Working, Holds
      <3>3. CASE b # a
        BY <2>1, <3>1, <3>3, <1>1
      <3> QED BY <3>2, <3>3
    <2>2. Attended(q)'
      BY <2>1, <1>u, <1>o, OthersAttended DEF OnceInv
    <2> QED BY <2>2, <1>u DEF OnceInv, ReadsAhead
  <1> QED BY <1>2, <1>3, <1>4, <1>5 DEF OnceInv

\* A run that is cancelled takes its session with it or leaves it, and so does a daemon
\* that dies; what is left is unattended.
LEMMA StopsOnce ==
    ASSUME DInv, DInv', Kept, OnceInv, NEW r \in Runners, Interrupted(r) \/ Crash(r)
    PROVE  OnceInv'
  <1>t. run \in [Runners -> Run] /\ \A d \in dreaming : d \in Session
    BY DEF DInv, Typed
  <1>u. UNCHANGED <<attempts, watermark, written>>
    BY DEF Interrupted, Crash, storeVars
  <1>1. PICK e : run' = [run EXCEPT ![r] = e] /\ run'[r] = e /\ e.at \in {"idle", "dead"}
    <2>1. CASE Interrupted(r)
      <3>1. PICK e : e = IdleRun
        OBVIOUS
      <3>2. e.at = "idle" /\ run' = [run EXCEPT ![r] = e] /\ run'[r] = e
        BY <3>1, <2>1, <1>t DEF IdleRun, Interrupted, Returns
      <3> QED BY <3>2
    <2>2. CASE Crash(r)
      <3>1. PICK e : e = [IdleRun EXCEPT !.at = "dead"]
        OBVIOUS
      <3>2. e.at = "dead" /\ run' = [run EXCEPT ![r] = e]
        BY <3>1, <2>2 DEF Crash, IdleRun
      <3> QED BY <3>2, <1>t
    <2> QED BY <2>1, <2>2
  <1>2. /\ Unattended \subseteq Unattended'
        /\ \A a \in Unattended' : a \in Unattended \/ \E d \in dreaming : a = d.attempt
        /\ \A d \in dreaming' : \/ d \in dreaming
                                \/ d.attempt \in Unattended' /\ \E c \in dreaming : d.attempt = c.attempt
        /\ run[r].at = "running" => dreaming' \cap Own(r) = {}
    <2>1. CASE Interrupted(r) /\ run[r].at = "running"
      BY <2>1, TeardownLeaves DEF Interrupted
    <2>2. CASE Interrupted(r) /\ run[r].at # "running"
      BY <2>2 DEF Interrupted, Unattended
    <2>3. CASE Crash(r)
      <3>1. CASE dreaming' = {d \in dreaming : d.by # r} /\ UNCHANGED outlived
        BY <2>3, <3>1 DEF Crash, Unattended, Own
      <3>2. CASE /\ dreaming' = (dreaming \ Own(r)) \cup {[d EXCEPT !.left = TRUE] : d \in Own(r)}
                 /\ outlived' = outlived \cup {d.attempt : d \in Own(r)}
        <4>1. ASSUME NEW d \in Own(r)
              PROVE  /\ [d EXCEPT !.left = TRUE].attempt = d.attempt
                     /\ [d EXCEPT !.left = TRUE].left
          BY <1>t DEF Own, Session
        <4>2. \A d \in dreaming' :
                 \/ d \in dreaming /\ d \notin Own(r)
                 \/ d.left /\ \E c \in Own(r) : d.attempt = c.attempt
          BY <3>2, <4>1
        <4>3. \A c \in Own(r) : c \in dreaming /\ ~c.left /\ c.attempt \in Unattended'
          BY <2>3, <3>2 DEF Own, Unattended
        <4>4. /\ \A a \in Unattended' : a \in Unattended \/ \E d \in Own(r) : a = d.attempt
              /\ Unattended \subseteq Unattended'
          BY <2>3, <3>2 DEF Crash, Unattended
        <4> QED BY <4>2, <4>3, <4>4
      <3> QED BY <2>3, <3>1, <3>2 DEF Crash
    <2> QED BY <2>1, <2>2, <2>3
  <1>3. OnlyBegun /\ \A a \in Unattended' : a \in Unattended \/ (a \in Attempts /\ Began(a))
    <2>1. \A c \in dreaming : c.attempt \in Attempts /\ Began(c.attempt)
      BY <1>t DEF OnceInv, SessionsBegun, Session
    <2> QED BY <1>2, <2>1 DEF OnlyBegun
  <1>4. SessionAttended'
    BY <1>1, <1>2, SessionStays DEF OnceInv
  <1>5. Attended(r)' /\ ReadsAhead(r)'
    BY <1>1, IdleAttended DEF Working, ReadsAhead
  <1>6. WritesSettled'
    BY <1>u, <1>2, ReceiptsStay DEF OnceInv
  <1>7. \A q \in Runners, b \in Attempts :
           Holds(q, b) /\ ~attempts[b].expired => Holds(q, b)' /\ ~attempts'[b].expired
    BY <1>u DEF Holds
  <1> QED BY <1>1, <1>2, <1>3, <1>4, <1>5, <1>6, <1>7, <1>u, OneRunnerSettles

\* Messages and nights come and go without the receipts.
LEMMA OutsideOnce ==
    ASSUME OnceInv, UNCHANGED <<attempts, watermark, run, dreaming, written, Unattended>>
    PROVE  OnceInv'
  BY DEF OnceInv, SessionAttended, SessionsBegun, WritesSettled, ReadsAhead, Attended,
         WorksOn, Working, Holds, WrittenUnder, Began

\* Every step keeps it.
LEMMA OnceKept ==
    ASSUME DInv, OnceInv, [DreamNext]_dreamVars
    PROVE  OnceInv'
  <1>1. CASE DreamNext
    <2>k. DInv' /\ Kept
      BY <1>1, InvariantKept
    <2>1. ASSUME NEW r \in Runners, RunStep(r) PROVE OnceInv'
      <3>1. CASE \/ CheckWrites(r) \/ NothingPending(r) \/ ReadProgress(r) \/ LaunchFails(r)
                 \/ CountWrites(r) \/ LeaseLost(r)
        BY <3>1, <2>k, QuietStepsOnce
      <3>2. CASE Commit(r) \/ Fail(r) \/ FailForGood(r)
        BY <3>2, <2>k, SettleOnce
      <3>3. CASE Claim(r)
        BY <3>3, <2>k, ClaimOnce
      <3>4. CASE ReadInterval(r)
        BY <3>4, <2>k, ReadIntervalOnce
      <3>5. CASE CloseEmptyRetry(r)
        BY <3>5, <2>k, CloseEmptyRetryOnce
      <3>6. CASE Begin(r)
        BY <3>6, <2>k, BeginOnce
      <3>7. CASE Launch(r)
        BY <3>7, <2>k, LaunchOnce
      <3>8. CASE Ends(r)
        BY <3>8, <2>k, EndsOnce
      <3>9. CASE MarkEnded(r)
        BY <3>9, <2>k, MarkEndedOnce
      <3> QED BY <2>1, <3>1, <3>2, <3>3, <3>4, <3>5, <3>6, <3>7, <3>8, <3>9 DEF RunStep
    <2>2. CASE Writes
      BY <2>2, <2>k, WritesOnce
    <2>3. ASSUME NEW a \in Attempts, LeaseExpires(a) PROVE OnceInv'
      BY <2>3, <2>k, LeaseExpiresOnce
    <2>4. ASSUME NEW r \in Runners, Interrupted(r) \/ Crash(r) PROVE OnceInv'
      BY <2>4, <2>k, StopsOnce
    <2>5. CASE Arrives \/ NightTurns \/ \E m \in history : Forgotten(m)
      BY <2>5, OutsideOnce DEF Arrives, NightTurns, Forgotten, storeVars, sessionVars, Unattended
    <2> QED BY <1>1, <2>1, <2>2, <2>3, <2>4, <2>5 DEF DreamNext
  <1>2. CASE UNCHANGED dreamVars
    BY <1>2, OutsideOnce DEF dreamVars, storeVars, sessionVars, Unattended
  <1> QED BY <1>1, <1>2

\* Before the first dream nothing is written.
LEMMA OnceAtStart == DreamInit => OnceInv
  BY DEF DreamInit, Unattended, OnceInv, SessionAttended, SessionsBegun, WritesSettled, ReadsAhead,
         Attended, WorksOn, Working, Began, IdleRun, NoReceipt

\* No two sessions write memories of one interval, over the SDK or over tmux, unless one of
\* them was left unattended, by a crash or a stall of its owner or by a teardown that gave up
\* on it: what _claim_pending_reflection_attempt,
\* _begin_reflection_attempt and the writes that are counted before an attempt fails are for.
THEOREM DreamtOnceHolds == DreamSafety => []DreamtOnce
  <1>1. DInv /\ OnceInv => DreamtOnce
    <2> SUFFICES ASSUME DInv, OnceInv, NEW v \in written, NEW w \in written, v # w,
                        attempts[v[1]].start = attempts[w[1]].start,
                        attempts[v[1]].end = attempts[w[1]].end,
                        v[1] \notin Unattended, w[1] \notin Unattended
                 PROVE  FALSE
      BY DEF DreamtOnce, SameInterval, Unattended
    <2>1. PICK a \in Attempts, b \in Attempts, p \in Runners, q \in Runners :
             v = <<a, p>> /\ w = <<b, q>>
      BY DEF DInv, Typed
    <2>2. Began(a) /\ Began(b) /\ WrittenUnder(a) /\ WrittenUnder(b)
      BY <2>1 DEF OnceInv, WritesSettled, WrittenUnder
    <2>3. a # b
      BY <2>1 DEF OnceInv, WritesSettled
    <2>4. attempts[a].status = "failed" \/ attempts[b].status = "failed"
      BY <2>1, <2>2, <2>3 DEF OnceInv, WritesSettled
    <2> QED BY <2>1, <2>2, <2>4 DEF OnceInv, WritesSettled
  <1>2. DInv /\ OnceInv /\ [DreamNext]_dreamVars => OnceInv'
    BY OnceKept
  <1>3. DreamSafety => []OnceInv
    BY OnceAtStart, DreamInvariant, <1>2, PTL DEF DreamSafety
  <1> QED BY <1>1, <1>3, DreamInvariant, PTL

=============================================================================
