--------------------------- MODULE WorkQueueProofs ---------------------------
(***************************************************************************)
(* What the workqueue operations keep true of a queue.  Used by the proofs *)
(* about the drivers that own one.                                         *)
(***************************************************************************)
EXTENDS WorkQueue, SequenceTheorems, TLAPS

\* queue_work leaves a queue on which w is pending, once.
LEMMA QueueWorkKeepsType ==
  ASSUME NEW w \in Works, QueueTypeOK, QueueWork(w), running' = running
  PROVE  /\ QueueTypeOK' /\ IsPending(w)'
         /\ \A v : IsPending(v)' => IsPending(v) \/ v = w
<1>1. CASE IsPending(w)
  BY <1>1 DEF QueueTypeOK, QueueWork, IsPending
<1>2. CASE ~IsPending(w)
  <2>1. pending' = Append(pending, w)
    BY <1>2 DEF QueueWork
  <2>2. /\ pending' \in Seq(Works)
        /\ Len(pending') = Len(pending) + 1
        /\ \A i \in 1..Len(pending) : pending'[i] = pending[i]
        /\ pending'[Len(pending) + 1] = w
    BY <2>1, AppendProperties DEF QueueTypeOK
  <2>3. Len(pending) \in Nat
    BY LenProperties DEF QueueTypeOK
  <2>4. \A i \in 1..Len(pending) : pending[i] # w
    BY <1>2 DEF IsPending
  <2>5. \A i, j \in 1..Len(pending') : pending'[i] = pending'[j] => i = j
    BY <2>2, <2>3, <2>4 DEF QueueTypeOK
  <2> QED
    BY <2>2, <2>3, <2>5 DEF QueueTypeOK, IsPending
<1> QED
  BY <1>1, <1>2

\* cancel_work_sync leaves a queue on which w is not pending, and adds nothing.
LEMMA GrabPendingKeepsType ==
  ASSUME NEW w, QueueTypeOK, GrabPending(w), running' = running
  PROVE  /\ QueueTypeOK' /\ ~IsPending(w)'
         /\ \A v : IsPending(v)' => IsPending(v)
<1>1. CASE ~IsPending(w) /\ UNCHANGED pending
  BY <1>1 DEF QueueTypeOK, IsPending
<1>2. ASSUME NEW i \in 1..Len(pending), pending[i] = w,
             pending' = SubSeq(pending, 1, i - 1)
                          \o SubSeq(pending, i + 1, Len(pending))
      PROVE  /\ QueueTypeOK' /\ ~IsPending(w)'
             /\ \A v : IsPending(v)' => IsPending(v)
  <2> DEFINE n == Len(pending)
             a == SubSeq(pending, 1, i - 1)
             b == SubSeq(pending, i + 1, n)
  <2>1. n \in Nat /\ i \in 1..n /\ pending \in Seq(Works)
    BY LenProperties DEF QueueTypeOK
  <2>2. /\ a \in Seq(Works)
        /\ Len(a) = i - 1
        /\ \A k \in 1..i-1 : a[k] = pending[k]
    BY <2>1, SubSeqProperties
  <2>3. /\ b \in Seq(Works)
        /\ Len(b) = n - i
        /\ \A k \in 1..n-i : b[k] = pending[i + k]
    BY <2>1, SubSeqProperties
  <2>4. pending' = a \o b
    BY <1>2
  <2> HIDE DEF a, b
  <2>5. /\ pending' \in Seq(Works)
        /\ Len(pending') = n - 1
        /\ \A k \in 1..n-1 :
             pending'[k] = IF k <= i - 1 THEN a[k] ELSE b[k - (i - 1)]
    <3>1. /\ a \o b \in Seq(Works)
          /\ Len(a \o b) = Len(a) + Len(b)
          /\ \A k \in 1..(Len(a) + Len(b)) :
               (a \o b)[k] = IF k <= Len(a) THEN a[k] ELSE b[k - Len(a)]
      BY <2>2, <2>3, ConcatProperties
    <3>2. Len(a) + Len(b) = n - 1
      BY <2>1, <2>2, <2>3
    <3> QED
      BY <2>2, <2>4, <3>1, <3>2
  <2>6. \A k \in 1..n-1 : pending'[k] = pending[IF k < i THEN k ELSE k + 1]
    <3> SUFFICES ASSUME NEW k \in 1..n-1
                 PROVE  pending'[k] = pending[IF k < i THEN k ELSE k + 1]
      OBVIOUS
    <3>1. CASE k < i
      BY <2>1, <2>2, <2>5, <3>1
    <3>2. CASE ~(k < i)
      <4>1. k - (i - 1) \in 1..n-i /\ i + (k - (i - 1)) = k + 1
        BY <2>1, <3>2
      <4> QED
        BY <2>1, <2>3, <2>5, <3>2, <4>1
    <3> QED
      BY <3>1, <3>2
  <2>7. \A j, k \in 1..n : pending[j] = pending[k] => j = k
    BY DEF QueueTypeOK
  <2> DEFINE old(k) == IF k < i THEN k ELSE k + 1
  <2>8. \A k \in 1..n-1 : old(k) \in 1..n /\ old(k) # i
    BY <2>1
  <2>9. \A j, k \in 1..n-1 : old(j) = old(k) => j = k
    BY <2>1
  <2>10. \A k \in 1..n-1 : pending'[k] = pending[old(k)]
    BY <2>6
  <2> HIDE DEF old
  <2>11. \A j, k \in 1..Len(pending') : pending'[j] = pending'[k] => j = k
    BY <2>5, <2>7, <2>8, <2>9, <2>10
  <2>12. \A k \in 1..Len(pending') : pending'[k] # w
    <3>1. \A k \in 1..n-1 : pending[old(k)] # pending[i]
      BY <2>1, <2>7, <2>8
    <3> QED
      BY ONLY <1>2, <2>5, <2>10, <3>1
  <2>13. \A v : IsPending(v)' => IsPending(v)
    BY <2>5, <2>8, <2>10 DEF IsPending
  <2> QED
    BY <2>5, <2>11, <2>12, <2>13 DEF QueueTypeOK, IsPending
<1> QED
  BY <1>1, <1>2 DEF GrabPending

\* The worker takes an item of the driver off the queue.
LEMMA StartWorkKeepsType ==
  ASSUME NEW w, QueueTypeOK, StartWork(w)
  PROVE  /\ QueueTypeOK'
         /\ running' = w /\ w \in Works
         /\ \A v : IsPending(v)' => IsPending(v)
<1>1. /\ Len(pending) \in Nat \ {0}
      /\ pending' \in Seq(Works)
      /\ Len(pending') = Len(pending) - 1
      /\ \A i \in 1..Len(pending') : pending'[i] = pending[i + 1]
      /\ w = pending[1] /\ w \in Works
  BY HeadTailProperties, LenProperties, EmptySeq, ElementOfSeq
  DEF QueueTypeOK, StartWork
<1>2. \A i, j \in 1..Len(pending') : pending'[i] = pending'[j] => i = j
  BY <1>1 DEF QueueTypeOK
<1>3. \A v : IsPending(v)' => IsPending(v)
  BY <1>1 DEF IsPending
<1> QED
  BY <1>1, <1>2, <1>3 DEF QueueTypeOK, StartWork

==============================================================================
