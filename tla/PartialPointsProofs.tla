------------------------- MODULE PartialPointsProofs -------------------------
(***************************************************************************)
(* The safety properties of PartialPoints hold for every set of requests,  *)
(* farmers, proofs and signage points and every setting of the durations   *)
(* that meets the assumptions of PartialPoints.  The argument is the       *)
(* inductive invariant Inv; one lemma per action shows that the action     *)
(* preserves it, conjunct by conjunct.                                     *)
(***************************************************************************)
EXTENDS PartialPoints, FiniteSetTheorems, SequenceTheorems, TLAPS

\* The assumptions on constants, the sets of program counters and the groups
\* of variables are used throughout.
USE ShapeAssumption, TimeAssumption
USE DEF ShapeAssumption, TimeAssumption, HandlerPC, ConfirmPC, PayerPC,
        SPOfRequest, Credited, Active, Marked, Accepted, Asking, TooLateForCopies,
        chainVars, handlerVars, confirmVars, payerVars, storeVars

------------------------------------------------------------------------------
(* Lemmas about the cache and the queue.                                   *)

\* The LRU cache never has to evict: RecentPut only adds.
LEMMA RecentPutAdds ==
  ASSUME NEW p \in Proofs, recent \subseteq Proofs, RecentPut(p)
  PROVE  recent' = recent \cup {p}
<1>1. recent \cup {p} \subseteq Proofs
  OBVIOUS
<1>2. Cardinality(recent \cup {p}) <= Cardinality(Proofs)
  BY <1>1, CapacityAssumption, FS_Subset DEF CapacityAssumption
<1>3. Cardinality(Proofs) \in Nat /\ Cardinality(recent \cup {p}) \in Nat
  BY <1>1, CapacityAssumption, FS_Subset, FS_CardinalityType DEF CapacityAssumption
<1>4. ~ (Cardinality(recent \cup {p}) > RecentCapacity)
  BY <1>2, <1>3, CapacityAssumption DEF CapacityAssumption
<1> QED
  BY <1>4 DEF RecentPut

\* What the queue holds are requests.
LEMMA QueueElement ==
  ASSUME TypeOK, NEW i \in 1..Len(queue)
  PROVE  queue[i] \in Requests
  BY ElementOfSeq DEF TypeOK

\* A step that leaves the queue and the queued requests alone keeps QueueInv.
LEMMA QueueFrame ==
  ASSUME TypeOK, QueueInv, queue' = queue,
         \A s \in Requests : cpc[s] = "queued" => cpc'[s] = "queued"
  PROVE  QueueInv'
  BY QueueElement DEF QueueInv

------------------------------------------------------------------------------
(* The initial state and the steps of the HTTP handler.                    *)

\* Nothing has been received, queued or credited.
LEMMA InitInv == Init => Inv
  BY DEF Init, Inv, TypeOK, QueueInv, HandlerInv, AgeInv, DedupeInv, PointsInv, CreditedAsValidated

\* A copy that is received after a credit is too late for its signage point.
LEMMA PostPartialInv ==
  ASSUME NEW r \in Requests, Inv, PostPartial(r)
  PROVE  Inv'
<1> USE DEF Inv, PostPartial
<1>1. TypeOK'
  <2>1. difficulty[Sender[r]] \in Difficulties
    BY DEF TypeOK
  <2>2. received' \in [Requests -> 0..MaxTime] /\ worth' \in [Requests -> Difficulties \cup {0}]
    BY <2>1 DEF TypeOK
  <2> QED
    BY <2>2 DEF TypeOK
<1>2. QueueInv'
  BY QueueFrame
<1>3. HandlerInv'
  BY DEF TypeOK, HandlerInv
<1>4. AgeInv'
  <2>1. ~Accepted(r) /\ cpc[r] # "credited" /\ UNCHANGED <<now, chainVars, cpc>>
    BY DEF HandlerInv
  <2>2. \A s \in Requests \ {r} : received'[s] = received[s] /\ worth'[s] = worth[s]
    BY DEF TypeOK
  <2> HIDE DEF Inv, PostPartial
  <2> QED
    BY <2>1, <2>2 DEF Inv, AgeInv
<1>5. DedupeInv'
  BY DEF TypeOK, HandlerInv, AgeInv, DedupeInv
<1>6. PointsInv' /\ CreditedAsValidated'
  BY DEF PointsInv, CreditedAsValidated
<1> QED
  BY <1>1, <1>2, <1>3, <1>4, <1>5, <1>6

\* Both queries of the signage point end here, or leave the pipeline alone.
LEMMA ConcludeInv ==
  ASSUME NEW r \in Requests, Inv, Asking(r), Conclude(r),
         UNCHANGED <<now, chainVars, received, worth, recent, payerVars, storeVars, crashes>>
  PROVE  Inv'
<1> USE DEF Inv
<1>1. CASE Acceptable(r)
  <2>1. cpc[r] = "none" /\ received[r] <= now /\ now <= received[r] + MaxHandling /\ worth[r] \in Difficulties
    BY DEF HandlerInv
  <2>2. hpc' = [hpc EXCEPT ![r] = "lockwait"] /\ cpc' = [cpc EXCEPT ![r] = "queued"] /\ queue' = Append(queue, r)
    BY <1>1 DEF Conclude
  <2>3. /\ cpc'[r] = "queued" /\ hpc'[r] = "lockwait"
        /\ \A s \in Requests \ {r} : cpc'[s] = cpc[s] /\ hpc'[s] = hpc[s]
    BY <2>2 DEF TypeOK
  <2>4. TypeOK'
    <3>1. queue' \in Seq(Requests)
      BY <2>2, AppendProperties DEF TypeOK
    <3> QED
      BY <2>2, <3>1 DEF TypeOK
  <2>5. QueueInv'
    <3>1. \A i \in 1..Len(queue) : queue[i] # r /\ cpc'[queue[i]] = "queued"
      BY <2>1, <2>3, QueueElement DEF QueueInv
    <3>2. /\ Len(queue') = Len(queue) + 1 /\ Len(queue) \in Nat
          /\ \A i \in 1..Len(queue) : queue'[i] = queue[i]
          /\ queue'[Len(queue) + 1] = r
      BY <2>2, AppendProperties, LenProperties DEF TypeOK
    <3>3. \A i \in 1..Len(queue') : i \in 1..Len(queue) \/ i = Len(queue) + 1
      BY <3>2
    <3>4. \A i \in 1..Len(queue') : cpc'[queue'[i]] = "queued"
      <4> SUFFICES ASSUME NEW i \in 1..Len(queue') PROVE cpc'[queue'[i]] = "queued"
        OBVIOUS
      <4> HIDE DEF Inv
      <4>1. CASE i \in 1..Len(queue)
        BY <4>1, <3>1, <3>2
      <4>2. CASE i = Len(queue) + 1
        BY <4>2, <2>3, <3>2
      <4> QED
        BY <4>1, <4>2, <3>3
    <3>5. \A i, j \in 1..Len(queue') : queue'[i] = queue'[j] => i = j
      <4>1. \A i, j \in 1..Len(queue) : queue[i] = queue[j] => i = j
        BY DEF QueueInv
      <4> HIDE DEF Inv
      <4> QED
        BY <3>1, <3>2, <3>3, <4>1
    <3> QED
      BY <3>4, <3>5 DEF QueueInv
  <2>6. HandlerInv'
    BY <2>3 DEF HandlerInv
  <2>7. AgeInv'
    <3>1. /\ spSeen[SPOfRequest(r)] /\ spTime[SPOfRequest(r)] <= now /\ spTime[SPOfRequest(r)] \in Nat
          /\ now \in Nat /\ received[r] \in Nat
      BY <1>1 DEF Acceptable, AgeInv, TypeOK
    <3>2. spTime[SPOfRequest(r)] <= received[r] + MaxHandling
      <4> HIDE DEF Inv
      <4> QED
        BY <2>1, <3>1
    <3>3. worth[r] \in 1..Quality[ProofOf[r]]
      <4>1. worth[r] \in Nat \ {0} /\ Quality[ProofOf[r]] \in Nat
        BY <2>1
      <4> QED
        BY <1>1, <4>1 DEF Acceptable
    <3> QED
      BY <2>3, <3>1, <3>2, <3>3 DEF AgeInv
  <2>8. DedupeInv'
    <3>1. \A s \in Requests : cpc[s] = "credited" /\ ProofOf[r] = ProofOf[s] => ProofOf[s] \in recent
      <4>1. received[r] <= spTime[SPOfRequest(r)] + PartialTimeLimit
        BY <1>1 DEF Acceptable
      <4>2. received[r] \in Nat /\ spTime[SPOfRequest(r)] \in Nat
        BY DEF TypeOK
      <4> QED
        BY <4>1, <4>2 DEF DedupeInv
    <3> QED
      BY <2>3, <3>1 DEF DedupeInv
  <2>9. PointsInv' /\ CreditedAsValidated'
    <3>1. Credited' = Credited
      BY <2>1, <2>3
    <3>2. PointsInv'
      BY <2>1, <2>3, <3>1 DEF PointsInv
    <3>3. CreditedAsValidated'
      BY <3>1 DEF CreditedAsValidated
    <3> QED
      BY <3>2, <3>3
  <2> QED
    BY <2>4, <2>5, <2>6, <2>7, <2>8, <2>9
<1>2. CASE ~Acceptable(r)
  <2>1. hpc' = [hpc EXCEPT ![r] = "done"] /\ UNCHANGED <<queue, cpc>>
    BY <1>2 DEF Conclude
  <2>2. TypeOK' /\ QueueInv'
    BY <2>1, QueueFrame DEF TypeOK
  <2>3. HandlerInv' /\ AgeInv' /\ DedupeInv'
    BY <2>1 DEF TypeOK, HandlerInv, AgeInv, DedupeInv
  <2>4. PointsInv' /\ CreditedAsValidated'
    BY <2>1 DEF PointsInv, CreditedAsValidated
  <2> QED
    BY <2>2, <2>3, <2>4
<1> QED
  BY <1>1, <1>2

\* A signage point the node does not know yet is asked for again.
LEMMA QueryInv ==
  ASSUME NEW r \in Requests, Inv, QuerySignagePoint(r) \/ RetrySignagePoint(r)
  PROVE  Inv'
<1>1. CASE RetrySignagePoint(r) \/ (QuerySignagePoint(r) /\ spSeen[SPOfRequest(r)])
  BY <1>1, ConcludeInv DEF QuerySignagePoint, RetrySignagePoint
<1>2. CASE QuerySignagePoint(r) /\ ~spSeen[SPOfRequest(r)]
  <2> USE DEF Inv
  <2>1. hpc' = [hpc EXCEPT ![r] = "retry"] /\ hpc[r] = "query"
        /\ UNCHANGED <<now, chainVars, received, worth, confirmVars, payerVars, storeVars, crashes>>
    BY <1>2 DEF QuerySignagePoint
  <2>2. TypeOK' /\ QueueInv'
    BY <2>1, QueueFrame DEF TypeOK
  <2>3. \A s \in Requests : Asking(s)' = Asking(s) /\ (hpc'[s] = "idle" <=> hpc[s] = "idle")
    BY <2>1 DEF TypeOK
  <2>4. HandlerInv'
    BY <2>1, <2>3 DEF HandlerInv
  <2>5. AgeInv'
    BY <2>1 DEF AgeInv
  <2>6. DedupeInv'
    BY <2>1, <2>3 DEF DedupeInv
  <2>7. PointsInv' /\ CreditedAsValidated'
    BY <2>1 DEF PointsInv, CreditedAsValidated
  <2> QED
    BY <2>2, <2>4, <2>5, <2>6, <2>7
<1> QED
  BY <1>1, <1>2

\* Waiting for the lock and taking it touch the handler alone.
LEMMA AdjustLockInv ==
  ASSUME NEW r \in Requests, Inv, AdjustLock(r)
  PROVE  Inv'
<1> USE DEF Inv, AdjustLock, LockFree
<1>1. TypeOK'
  BY DEF TypeOK
<1>2. QueueInv'
  BY QueueFrame DEF TypeOK
<1>3. HandlerInv'
  BY DEF TypeOK, HandlerInv
<1>4. AgeInv'
  BY DEF TypeOK, AgeInv
<1>5. DedupeInv'
  BY DEF TypeOK, DedupeInv
<1>6. PointsInv'
  BY DEF TypeOK, PointsInv
<1>7. CreditedAsValidated'
  BY DEF TypeOK, CreditedAsValidated
<1> QED
  BY <1>1, <1>2, <1>3, <1>4, <1>5, <1>6, <1>7

\* The difficulty of a farmer is no part of what has been validated.
LEMMA AdjustDifficultyInv ==
  ASSUME NEW r \in Requests, Inv, AdjustDifficulty(r)
  PROVE  Inv'
<1> USE DEF Inv, AdjustDifficulty
<1>1. TypeOK'
  BY DEF TypeOK
<1>2. QueueInv'
  BY QueueFrame DEF TypeOK
<1>3. HandlerInv'
  BY DEF TypeOK, HandlerInv
<1>4. AgeInv'
  BY DEF TypeOK, AgeInv
<1>5. DedupeInv'
  BY DEF TypeOK, DedupeInv
<1>6. PointsInv'
  BY DEF TypeOK, PointsInv
<1>7. CreditedAsValidated'
  BY DEF TypeOK, CreditedAsValidated
<1> QED
  BY <1>1, <1>2, <1>3, <1>4, <1>5, <1>6, <1>7

\* Nor is the difficulty that a PUT /farmer sets after the cooldown.
LEMMA DifficultyLaterInv ==
  ASSUME NEW f \in Farmers, Inv, UpdateDifficultyLater(f)
  PROVE  Inv'
<1> USE DEF Inv, UpdateDifficultyLater
<1>1. TypeOK'
  BY DEF TypeOK
<1>2. QueueInv'
  BY QueueFrame DEF TypeOK
<1>3. HandlerInv'
  BY DEF TypeOK, HandlerInv
<1>4. AgeInv'
  BY DEF TypeOK, AgeInv
<1>5. DedupeInv'
  BY DEF TypeOK, DedupeInv
<1>6. PointsInv'
  BY DEF TypeOK, PointsInv
<1>7. CreditedAsValidated'
  BY DEF TypeOK, CreditedAsValidated
<1> QED
  BY <1>1, <1>2, <1>3, <1>4, <1>5, <1>6, <1>7

------------------------------------------------------------------------------
(* The steps of the confirm loop and of the confirmation tasks.            *)

\* The loop takes the oldest request; the others stay queued.
LEMMA ConfirmLoopGetInv ==
  ASSUME Inv, ConfirmLoopGet
  PROVE  Inv'
<1> DEFINE h == Head(queue)
<1> USE DEF Inv, ConfirmLoopGet
<1>1. h \in Requests /\ cpc[h] = "queued" /\ Len(queue) >= 1 /\ h = queue[1] /\ Len(queue) \in Nat
  BY QueueElement, LenProperties DEF TypeOK, QueueInv
<1>2. /\ queue' \in Seq(Requests) 
      /\ Len(queue') = Len(queue) - 1
      /\ \A i \in 1..Len(queue') : queue'[i] = queue[i+1]
  BY HeadTailProperties DEF TypeOK
<1>3. cpc' = [cpc EXCEPT ![h] = "sleeping"] /\ cpc \in [Requests -> ConfirmPC]
  BY DEF TypeOK
<1> HIDE DEF h
<1>4. TypeOK'
  BY <1>1, <1>2, <1>3 DEF TypeOK
<1>5. QueueInv'
  BY <1>1, <1>2, <1>3, QueueElement DEF QueueInv
<1>6. HandlerInv'
  BY <1>1, <1>3 DEF TypeOK, HandlerInv
<1>7. AgeInv'
  BY <1>1, <1>3 DEF TypeOK, AgeInv
<1>8. DedupeInv'
  BY <1>1, <1>3 DEF TypeOK, DedupeInv
<1>9. PointsInv' /\ CreditedAsValidated'
  BY <1>1, <1>3 DEF TypeOK, PointsInv, CreditedAsValidated
<1> QED
  BY <1>4, <1>5, <1>6, <1>7, <1>8, <1>9

\* When the loop wakes up, every later copy is too late.
LEMMA ConfirmLoopWakeInv ==
  ASSUME NEW r \in Requests, Inv, ConfirmLoopWake(r)
  PROVE  Inv'
<1> USE DEF Inv, ConfirmLoopWake
<1>1. TypeOK'
  BY DEF TypeOK
<1>2. QueueInv'
  BY QueueFrame DEF TypeOK
<1>3. AgeInv'
  <2>1. TooLateForCopies(r)
    BY DelayAssumption DEF TypeOK, AgeInv, DelayAssumption
  <2> QED
    BY <2>1 DEF TypeOK, AgeInv
<1>4. HandlerInv' /\ DedupeInv' /\ PointsInv' /\ CreditedAsValidated'
  BY DEF TypeOK, HandlerInv, DedupeInv, PointsInv, CreditedAsValidated
<1> QED
  BY <1>1, <1>2, <1>3, <1>4

\* The proof is marked in the step that finds it unmarked.
LEMMA CheckSignagePointInv ==
  ASSUME NEW r \in Requests, Inv, CheckSignagePoint(r)
  PROVE  Inv'
<1> USE DEF Inv, CheckSignagePoint
<1>1. recent \subseteq recent' /\ recent' \subseteq recent \cup {ProofOf[r]}
      /\ (cpc'[r] = "validate" => ProofOf[r] \in recent' /\ ProofOf[r] \notin recent)
  <2>1. ProofOf[r] \in Proofs /\ recent \subseteq Proofs
    BY DEF TypeOK
  <2>2. ProofOf[r] \notin recent => recent' = recent \cup {ProofOf[r]}
    BY <2>1, RecentPutAdds
  <2>3. ProofOf[r] \in recent => recent' = recent /\ cpc'[r] = "dropped"
    BY DEF TypeOK
  <2> QED
    BY <2>2, <2>3
<1>2. cpc'[r] \in {"dropped", "validate"} /\ \A s \in Requests \ {r} : cpc'[s] = cpc[s]
  BY DEF TypeOK
<1>3. TypeOK'
  <2>1. ProofOf[r] \in Proofs
    OBVIOUS
  <2>2. recent' \subseteq Proofs
    BY <1>1, <2>1 DEF TypeOK
  <2>3. cpc' \in [Requests -> ConfirmPC]
    <3>1. cpc' = [cpc EXCEPT ![r] = "dropped"] \/ cpc' = [cpc EXCEPT ![r] = "validate"]
      OBVIOUS
    <3>2. cpc \in [Requests -> ConfirmPC]
      BY DEF TypeOK
    <3> HIDE DEF Inv, CheckSignagePoint
    <3> QED
      BY <3>1, <3>2
  <2> QED
    BY <2>2, <2>3 DEF TypeOK
<1>4. QueueInv'
  BY <1>2, QueueFrame
<1>5. DedupeInv'
  <2>1. \A s \in Requests : cpc'[s] \in Marked => ProofOf[s] \in recent'
    BY <1>1, <1>2 DEF DedupeInv
  <2>2. \A s \in Requests : cpc[s] \in Marked \cup {"credited"} /\ ProofOf[s] = ProofOf[r] /\ cpc'[r] = "validate" => s = r
    BY <1>1 DEF DedupeInv
  <2>3. \A s, t \in Requests :
       /\ cpc'[s] \in Marked \cup {"credited"} /\ cpc'[t] \in Marked \cup {"credited"}
       /\ ProofOf[s] = ProofOf[t]
       => s = t
    BY <1>2, <2>2 DEF DedupeInv
  <2>4. \A s, t \in Requests :
      cpc'[s] = "credited" /\ ProofOf[t] = ProofOf[s] /\ ProofOf[s] \notin recent'
         => /\ ~Accepted(t)'
            /\ Asking(t)' => received'[t] > spTime'[SPOfRequest(t)] + PartialTimeLimit
    BY <1>1, <1>2 DEF DedupeInv
  <2> QED
    BY <2>1, <2>3, <2>4 DEF DedupeInv
<1>6. HandlerInv' /\ AgeInv'
  BY <1>2 DEF TypeOK, HandlerInv, AgeInv
<1>7. PointsInv' /\ CreditedAsValidated'
  BY <1>2 DEF TypeOK, PointsInv, CreditedAsValidated
<1> QED
  BY <1>3, <1>4, <1>5, <1>6, <1>7

\* A marked proof stays marked while its partial waits for the lock.
LEMMA ValidateInv ==
  ASSUME NEW r \in Requests, Inv, ValidateSingleton(r)
  PROVE  Inv'
<1> USE DEF Inv, ValidateSingleton
<1>1. TypeOK'
  BY DEF TypeOK
<1>2. QueueInv'
  BY QueueFrame DEF TypeOK
<1>3. HandlerInv'
  BY DEF TypeOK, HandlerInv
<1>4. AgeInv'
  BY DEF TypeOK, AgeInv
<1>5. DedupeInv'
  BY DEF TypeOK, DedupeInv
<1>6. PointsInv'
  BY DEF TypeOK, PointsInv
<1>7. CreditedAsValidated'
  BY DEF TypeOK, CreditedAsValidated
<1> QED
  BY <1>1, <1>2, <1>3, <1>4, <1>5, <1>6, <1>7

\* The store is free, so no payout is under way.
LEMMA ConfirmLockInv ==
  ASSUME NEW r \in Requests, Inv, ConfirmLock(r)
  PROVE  Inv'
<1> USE DEF Inv, ConfirmLock, LockFree
<1>1. TypeOK'
  BY DEF TypeOK
<1>2. QueueInv'
  BY QueueFrame DEF TypeOK
<1>3. HandlerInv'
  BY DEF TypeOK, HandlerInv
<1>4. AgeInv'
  BY DEF TypeOK, AgeInv
<1>5. DedupeInv'
  BY DEF TypeOK, DedupeInv
<1>6. PointsInv'
  BY DEF TypeOK, PointsInv
<1>7. CreditedAsValidated'
  BY DEF TypeOK, CreditedAsValidated
<1> QED
  BY <1>1, <1>2, <1>3, <1>4, <1>5, <1>6, <1>7

\* Reading the farmer record changes nothing but the program counter.
LEMMA ReadFarmerRecordInv ==
  ASSUME NEW r \in Requests, Inv, ReadFarmerRecord(r)
  PROVE  Inv'
<1> USE DEF Inv, ReadFarmerRecord
<1>1. TypeOK'
  BY DEF TypeOK
<1>2. QueueInv'
  BY QueueFrame DEF TypeOK
<1>3. HandlerInv'
  BY DEF TypeOK, HandlerInv
<1>4. AgeInv'
  BY DEF TypeOK, AgeInv
<1>5. DedupeInv'
  BY DEF TypeOK, DedupeInv
<1>6. PointsInv'
  BY DEF TypeOK, PointsInv
<1>7. CreditedAsValidated'
  BY DEF TypeOK, CreditedAsValidated
<1> QED
  BY <1>1, <1>2, <1>3, <1>4, <1>5, <1>6, <1>7

\* The credit is worth what was validated; the lock keeps the payout away.
LEMMA AddPartialInv ==
  ASSUME NEW r \in Requests, Inv, AddPartial(r)
  PROVE  Inv'
<1> USE DEF Inv, AddPartial
<1>1. TypeOK'
  BY DEF TypeOK
<1>2. QueueInv'
  BY QueueFrame DEF TypeOK
<1>3. HandlerInv'
  BY DEF TypeOK, HandlerInv
<1>4. AgeInv'
  BY DEF TypeOK, AgeInv
<1>5. DedupeInv'
  BY DEF TypeOK, DedupeInv
<1>6. PointsInv'
  BY DEF TypeOK, AgeInv, PointsInv
<1>7. CreditedAsValidated'
  BY DEF TypeOK, AgeInv, CreditedAsValidated
<1> QED
  BY <1>1, <1>2, <1>3, <1>4, <1>5, <1>6, <1>7

\* A dropped partial may leave its proof marked, never its points.
LEMMA DropPartialInv ==
  ASSUME NEW r \in Requests, Inv, DropPartial(r)
  PROVE  Inv'
<1> USE DEF Inv, DropPartial
<1>1. TypeOK'
  BY DEF TypeOK
<1>2. QueueInv'
  BY QueueFrame DEF TypeOK
<1>3. HandlerInv'
  BY DEF TypeOK, HandlerInv
<1>4. AgeInv'
  BY DEF TypeOK, AgeInv
<1>5. DedupeInv'
  BY DEF TypeOK, DedupeInv
<1>6. PointsInv'
  BY DEF TypeOK, PointsInv
<1>7. CreditedAsValidated'
  BY DEF TypeOK, CreditedAsValidated
<1> QED
  BY <1>1, <1>2, <1>3, <1>4, <1>5, <1>6, <1>7

------------------------------------------------------------------------------
(* The steps of the payout and of the environment.                         *)

\* The payout takes the lock when no credit is under way.
LEMMA PaymentLockInv ==
  ASSUME Inv, PaymentLock
  PROVE  Inv'
<1> USE DEF Inv, PaymentLock, LockFree
<1>1. TypeOK'
  BY DEF TypeOK
<1>2. QueueInv'
  BY QueueFrame DEF TypeOK
<1>3. HandlerInv'
  BY DEF TypeOK, HandlerInv
<1>4. AgeInv'
  BY DEF TypeOK, AgeInv
<1>5. DedupeInv'
  BY DEF TypeOK, DedupeInv
<1>6. PointsInv'
  BY DEF TypeOK, PointsInv
<1>7. CreditedAsValidated'
  BY DEF TypeOK, CreditedAsValidated
<1> QED
  BY <1>1, <1>2, <1>3, <1>4, <1>5, <1>6, <1>7

\* Everything that is unpaid is billed in one step.
LEMMA PaymentPutInv ==
  ASSUME Inv, PaymentPut
  PROVE  Inv'
<1> USE DEF Inv, PaymentPut
<1>1. TypeOK'
  BY DEF TypeOK
<1>2. QueueInv'
  BY QueueFrame DEF TypeOK
<1>3. HandlerInv'
  BY DEF TypeOK, HandlerInv
<1>4. AgeInv'
  BY DEF TypeOK, AgeInv
<1>5. DedupeInv'
  BY DEF TypeOK, DedupeInv
<1>6. PointsInv'
  BY DEF TypeOK, PointsInv
<1>7. CreditedAsValidated'
  BY DEF TypeOK, CreditedAsValidated
<1> QED
  BY <1>1, <1>2, <1>3, <1>4, <1>5, <1>6, <1>7

\* The lock has kept the points at what was billed.
LEMMA ClearFarmerPointsInv ==
  ASSUME Inv, ClearFarmerPoints
  PROVE  Inv'
<1> USE DEF Inv, ClearFarmerPoints
<1>1. TypeOK'
  BY DEF TypeOK
<1>2. QueueInv'
  BY QueueFrame DEF TypeOK
<1>3. HandlerInv'
  BY DEF TypeOK, HandlerInv
<1>4. AgeInv'
  BY DEF TypeOK, AgeInv
<1>5. DedupeInv'
  BY DEF TypeOK, DedupeInv
<1>6. PointsInv'
  BY DEF TypeOK, PointsInv
<1>7. CreditedAsValidated'
  BY DEF TypeOK, CreditedAsValidated
<1> QED
  BY <1>1, <1>2, <1>3, <1>4, <1>5, <1>6, <1>7

\* Time passes for a handler only within MaxHandling.
LEMMA TickInv ==
  ASSUME Inv, Tick
  PROVE  Inv'
<1> USE DEF Inv, Tick
<1>1. TypeOK'
  BY DEF TypeOK
<1>2. QueueInv'
  BY QueueFrame DEF TypeOK
<1>3. HandlerInv'
  BY DEF TypeOK, HandlerInv
<1>4. AgeInv'
  BY DEF TypeOK, AgeInv
<1>5. DedupeInv'
  BY DEF TypeOK, DedupeInv
<1>6. PointsInv'
  BY DEF TypeOK, PointsInv
<1>7. CreditedAsValidated'
  BY DEF TypeOK, CreditedAsValidated
<1> QED
  BY <1>1, <1>2, <1>3, <1>4, <1>5, <1>6, <1>7

\* A new signage point is no older than the clock.
LEMMA NodeReceivesInv ==
  ASSUME NEW p \in SignagePoints, Inv, NodeReceives(p)
  PROVE  Inv'
<1> USE DEF Inv, NodeReceives
<1>1. TypeOK'
  BY DEF TypeOK
<1>2. QueueInv'
  BY QueueFrame DEF TypeOK
<1>3. HandlerInv'
  BY DEF TypeOK, HandlerInv
<1>4. AgeInv'
  BY DEF TypeOK, AgeInv
<1>5. DedupeInv'
  BY DEF TypeOK, AgeInv, DedupeInv
<1>6. PointsInv'
  BY DEF TypeOK, PointsInv
<1>7. CreditedAsValidated'
  BY DEF TypeOK, CreditedAsValidated
<1> QED
  BY <1>1, <1>2, <1>3, <1>4, <1>5, <1>6, <1>7

\* A reorg does not change when a signage point was received.
LEMMA ReorgInv ==
  ASSUME NEW p \in SignagePoints, Inv, Reorg(p)
  PROVE  Inv'
<1> USE DEF Inv, Reorg
<1>1. TypeOK'
  BY DEF TypeOK
<1>2. QueueInv'
  BY QueueFrame DEF TypeOK
<1>3. HandlerInv'
  BY DEF TypeOK, HandlerInv
<1>4. AgeInv'
  BY DEF TypeOK, AgeInv
<1>5. DedupeInv'
  BY DEF TypeOK, DedupeInv
<1>6. PointsInv'
  BY DEF TypeOK, PointsInv
<1>7. CreditedAsValidated'
  BY DEF TypeOK, CreditedAsValidated
<1> QED
  BY <1>1, <1>2, <1>3, <1>4, <1>5, <1>6, <1>7

\* A restart forgets the cache, and with it every handler and task.
LEMMA CrashInv ==
  ASSUME Inv, Crash
  PROVE  Inv'
<1> USE DEF Inv, Crash
<1>1. TypeOK'
  BY DEF TypeOK
<1>2. QueueInv'
  BY DEF QueueInv
<1>3. HandlerInv'
  BY DEF TypeOK, HandlerInv
<1>4. AgeInv'
  BY DEF TypeOK, AgeInv
<1>5. DedupeInv'
  BY DEF TypeOK, DedupeInv
<1>6. PointsInv'
  BY DEF TypeOK, PointsInv
<1>7. CreditedAsValidated'
  BY DEF TypeOK, CreditedAsValidated
<1> QED
  BY <1>1, <1>2, <1>3, <1>4, <1>5, <1>6, <1>7

------------------------------------------------------------------------------
(* The theorems.                                                           *)

\* Every step of the program keeps the inductive invariant.
LEMMA NextInv == Inv /\ [Next]_vars => Inv'
<1> SUFFICES ASSUME Inv, [Next]_vars PROVE Inv'
  OBVIOUS
<1>1. ASSUME NEW r \in Requests, Handle(r) PROVE Inv'
  BY <1>1, PostPartialInv, QueryInv, AdjustLockInv, AdjustDifficultyInv DEF Handle
<1>2. ASSUME NEW r \in Requests, Confirm(r) PROVE Inv'
  BY <1>2, ConfirmLoopWakeInv, CheckSignagePointInv, ValidateInv, ConfirmLockInv,
     ReadFarmerRecordInv, AddPartialInv, DropPartialInv DEF Confirm
<1>3. CASE ConfirmLoopGet
  BY <1>3, ConfirmLoopGetInv
<1>4. CASE Pay
  BY <1>4, PaymentLockInv, PaymentPutInv, ClearFarmerPointsInv DEF Pay
<1>5. CASE Environment
  BY <1>5, TickInv, CrashInv, NodeReceivesInv, ReorgInv, DifficultyLaterInv DEF Environment
<1>6. CASE UNCHANGED vars
  <2> USE DEF Inv, vars
  <2>1. TypeOK' /\ QueueInv'
    BY <1>6, QueueFrame DEF TypeOK
  <2>2. HandlerInv' /\ AgeInv' /\ DedupeInv' /\ PointsInv' /\ CreditedAsValidated'
    BY <1>6 DEF HandlerInv, AgeInv, DedupeInv, PointsInv, CreditedAsValidated
  <2> QED
    BY <2>1, <2>2
<1> QED
  BY <1>1, <1>2, <1>3, <1>4, <1>5, <1>6 DEF Next

\* The inductive invariant holds in every reachable state: a confirmation is
\* always later than every copy of its partial that can still be accepted.
THEOREM Invariance == Spec => []Inv
  BY InitInv, NextInv, PTL DEF Spec

\* Every variable keeps its type.
THEOREM TypeCorrectness == Spec => []TypeOK
<1>1. Inv => TypeOK
  BY DEF Inv
<1> QED
  BY <1>1, Invariance, PTL

\* A proof of space earns points at most once, with copies in any order, any
\* number of restarts and any number of requests (check_and_confirm_partial).
THEOREM NeverCreditedTwice == Spec => []NoDoubleCredit
<1>1. Inv => NoDoubleCredit
  BY DEF Inv, DedupeInv, NoDoubleCredit
<1> QED
  BY <1>1, Invariance, PTL

\* Points disappear only into a payout (create_payment_loop).
THEOREM NeverWipedUnbilled == Spec => []NothingWipedUnbilled
<1>1. Inv => NothingWipedUnbilled
  BY DEF Inv, PointsInv, NothingWipedUnbilled
<1> QED
  BY <1>1, Invariance, PTL

\* A credit is worth what the proof was validated for (process_partial).
THEOREM AlwaysCreditedAsValidated == Spec => []CreditedAsValidated
<1>1. Inv => CreditedAsValidated
  BY DEF Inv
<1> QED
  BY <1>1, Invariance, PTL

\* The pipeline implements the ledger: each step earns one credit whose proof
\* is new, settles what was billed, or leaves the ledger alone.
THEOREM Refinement == Spec => LedgerSpec
<1> USE DEF Ledger!ledgerVars
<1>1. Init => Ledger!Init
  BY DEF Init, Ledger!Init
<1>2. Inv /\ [Next]_vars => [Ledger!Next]_<<unpaid, billed \ unpaid>>
  <2> SUFFICES ASSUME Inv, [Next]_vars, ~UNCHANGED <<unpaid, billed \ unpaid>>
               PROVE  Ledger!Next
    OBVIOUS
  <2>1. \/ \E r \in Requests : AddPartial(r)
        \/ PaymentPut
        \/ ClearFarmerPoints
    BY DEF Next, Handle, Confirm, Pay, Environment, PostPartial, QuerySignagePoint, RetrySignagePoint,
       AdjustLock, AdjustDifficulty, UpdateDifficultyLater, ConfirmLoopGet, ConfirmLoopWake,
       CheckSignagePoint, ValidateSingleton, ConfirmLock, ReadFarmerRecord, DropPartial,
       PaymentLock, Tick, NodeReceives, Reorg, Crash, vars
  <2>2. ASSUME NEW r \in Requests, AddPartial(r) PROVE Ledger!Next
    <3>1. cpc[r] = "adding" /\ r \notin billed /\ r \notin unpaid
      BY <2>2 DEF AddPartial, Inv, PointsInv
    <3>2. \A d \in unpaid \cup (billed \ unpaid) : ProofOf[d] # ProofOf[r]
      BY <3>1 DEF Inv, PointsInv, DedupeInv
    <3>3. unpaid' = unpaid \cup {r} /\ (billed \ unpaid)' = billed \ unpaid
      BY <2>2, <3>1 DEF AddPartial
    <3>4. Ledger!Earn(r)
      BY <3>2, <3>3 DEF Ledger!Earn
    <3> QED
      BY <3>4 DEF Ledger!Next
  <2>3. CASE PaymentPut
    BY <2>3 DEF PaymentPut
  <2>4. CASE ClearFarmerPoints
    <3>1. unpaid \subseteq billed
      BY <2>4 DEF ClearFarmerPoints, Inv, PointsInv
    <3>2. Ledger!Settle
      BY <2>4, <3>1 DEF ClearFarmerPoints, Ledger!Settle
    <3> QED
      BY <3>2 DEF Ledger!Next
  <2> QED
    BY <2>1, <2>2, <2>3, <2>4
<1> QED
  BY <1>1, <1>2, Invariance, PTL DEF Spec, LedgerSpec, Ledger!Spec
==============================================================================
