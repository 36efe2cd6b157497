-------------------------- MODULE ScanHolderProofs --------------------------
(***************************************************************************)
(* Proofs about ScanHolder, for every number of revolutions, samples per   *)
(* revolution, capacity and buffer size of the caller.                     *)
(***************************************************************************)
EXTENDS ScanHolder, TLAPS, SequenceTheorems

-----------------------------------------------------------------------------
(* What the buffers hold *)

\* The number of samples kept of a revolution stored up to place k.
KeptLen(k) == IF k + 1 < Capacity THEN k + 1 ELSE Capacity

\* What the holder keeps of a revolution is a nonempty sequence of samples
\* no longer than the capacity of the buffer.
LEMMA KeptIsSampleSeq ==
  ASSUME NEW r \in Nat, NEW k \in Places
  PROVE  /\ Kept(r, k) \in SampleSeq
         /\ Len(Kept(r, k)) = KeptLen(k)
         /\ KeptLen(k) \in 1 .. Capacity
         /\ Kept(r, k) # <<>>
<1> USE HolderAssumption
<1>1. KeptLen(k) \in Nat /\ KeptLen(k) \in 1 .. Capacity
  BY DEF KeptLen, Places
<1>2. \A i \in 1 .. KeptLen(k) :
        [rev |-> r, place |-> IF i = Capacity THEN k ELSE i - 1] \in Sample
  BY DEF KeptLen, Places, Sample
<1>3. Kept(r, k) \in [1 .. KeptLen(k) -> Sample]
  BY <1>2 DEF Kept, KeptLen
<1>4. Kept(r, k) \in SampleSeq
  BY <1>1, <1>3 DEF SampleSeq
<1>5. Len(Kept(r, k)) = KeptLen(k)
  BY <1>1, <1>3, <1>4
<1>6. QED
  BY <1>1, <1>4, <1>5

\* A sync sample stored in an empty buffer begins a revolution.
LEMMA StoreSync ==
  ASSUME NEW r \in Nat
  PROVE  Store(<<>>, [rev |-> r, place |-> 0]) = Kept(r, 0)
<1> USE HolderAssumption
<1>1. Store(<<>>, [rev |-> r, place |-> 0]) = <<[rev |-> r, place |-> 0]>>
  BY DEF Store
<1>2. Kept(r, 0) = [i \in 1 .. 1 |-> [rev |-> r, place |-> 0]]
  BY DEF Kept
<1>3. QED
  BY <1>1, <1>2

\* The next sample of the same revolution, stored, continues what is kept,
\* also when the buffer is full and its last entry is replaced.
LEMMA StoreNext ==
  ASSUME NEW r \in Nat, NEW k \in Places, k + 1 < SamplesPerRev
  PROVE  Store(Kept(r, k), [rev |-> r, place |-> k + 1]) = Kept(r, k + 1)
<1> USE HolderAssumption
<1> DEFINE s == [rev |-> r, place |-> k + 1]
<1>0. k \in Nat
  BY DEF Places
<1>1. /\ Kept(r, k) \in SampleSeq /\ Len(Kept(r, k)) = KeptLen(k)
  BY KeptIsSampleSeq
<1>2. CASE k + 1 < Capacity
  <2>1. KeptLen(k) = k + 1
    BY <1>2 DEF KeptLen
  <2>2. Store(Kept(r, k), s) = Append(Kept(r, k), s)
    BY <1>0, <1>1, <1>2, <2>1 DEF Store
  <2>3. Append(Kept(r, k), s) = [i \in 1 .. k + 2 |-> IF i = k + 2 THEN s ELSE Kept(r, k)[i]]
    BY <1>0, <1>1, <2>1 DEF SampleSeq
  <2>4. \A i \in 1 .. k + 1 : Kept(r, k)[i] = [rev |-> r, place |-> i - 1]
    BY <1>0, <1>2, <2>1 DEF Kept
  <2>5. Kept(r, k + 1) = [i \in 1 .. k + 2 |->
            [rev |-> r, place |-> IF i = Capacity THEN k + 1 ELSE i - 1]]
    BY <1>0, <1>2 DEF Kept
  <2>6. \A i \in 1 .. k + 2 :
          (IF i = k + 2 THEN s ELSE Kept(r, k)[i])
            = [rev |-> r, place |-> IF i = Capacity THEN k + 1 ELSE i - 1]
    BY <1>0, <1>2, <2>4
  <2>7. QED
    BY <2>2, <2>3, <2>5, <2>6
<1>3. CASE ~(k + 1 < Capacity)
  <2>1. KeptLen(k) = Capacity
    BY <1>3 DEF KeptLen
  <2>2. Store(Kept(r, k), s) = [Kept(r, k) EXCEPT ![Capacity] = s]
    BY <1>1, <2>1 DEF Store
  <2>3. Kept(r, k) = [i \in 1 .. Capacity |->
            [rev |-> r, place |-> IF i = Capacity THEN k ELSE i - 1]]
    BY <1>0, <1>3 DEF Kept
  <2>4. Kept(r, k + 1) = [i \in 1 .. Capacity |->
            [rev |-> r, place |-> IF i = Capacity THEN k + 1 ELSE i - 1]]
    BY <1>0, <1>3 DEF Kept
  <2>5. QED
    BY <2>2, <2>3, <2>4
<1>4. QED
  BY <1>2, <1>3

\* The sample after a sample is a sample.
LEMMA FollowingIsSample ==
  ASSUME NEW s \in Sample
  PROVE  Following(s) \in Sample
BY HolderAssumption DEF Following, Sample, Places

-----------------------------------------------------------------------------
(* Type correctness *)

\* Storing a sample keeps a buffer a sequence of samples within capacity.
LEMMA StoreType ==
  ASSUME NEW buf \in SampleSeq, Len(buf) <= Capacity, NEW s \in Sample
  PROVE  Store(buf, s) \in SampleSeq /\ Len(Store(buf, s)) <= Capacity
<1> USE HolderAssumption
<1>1. CASE Len(buf) >= Capacity
  <2>1. Len(buf) \in 1 .. Len(buf) /\ Len(buf) = Capacity
    BY <1>1 DEF SampleSeq
  <2>2. Store(buf, s) = [buf EXCEPT ![Len(buf)] = s]
    BY <1>1 DEF Store
  <2>3. QED
    BY <2>1, <2>2 DEF SampleSeq
<1>2. CASE ~(Len(buf) >= Capacity)
  <2>1. Store(buf, s) = Append(buf, s)
    BY <1>2 DEF Store
  <2>2. QED
    BY <2>1, <1>2 DEF SampleSeq
<1>3. QED
  BY <1>1, <1>2

\* A prefix of a buffer is a sequence of samples.
LEMMA PrefixType ==
  ASSUME NEW buf \in SampleSeq, NEW n \in Nat, n <= Len(buf)
  PROVE  SubSeq(buf, 1, n) \in SampleSeq
BY DEF SampleSeq

\* The initial state is well typed.
LEMMA InitTypeOK == Init => TypeOK
<1> SUFFICES ASSUME Init PROVE TypeOK
  OBVIOUS
<1> USE HolderAssumption
<1>1. <<>> \in SampleSeq /\ Len(<<>>) = 0
  BY DEF SampleSeq
<1>2. scanbuffer \in [0 .. 1 -> SampleSeq] /\ \A i \in 0 .. 1 : Len(scanbuffer[i]) <= Capacity
  BY <1>1 DEF Init
<1>3. source \in Sample /\ inflight \in Sample
  BY DEF Init, Sample, Places
<1>4. beginTs \in [0 .. 1 -> Nat] /\ available \in -1 .. 1
  BY DEF Init
<1>5. delivered \in SampleSeq /\ deliveredTs \in Nat \X Nat \X Nat
  BY <1>1 DEF Init
<1>6. count \in Nat /\ readId \in -1 .. 1
  BY DEF Init
<1>7. signalled \in BOOLEAN /\ enabled \in BOOLEAN
  BY DEF Init
<1>8. /\ lock \in {"free", "decoder", "client"}
      /\ decoder \in {"idle", "decoded", "storing"}
      /\ client \in {"idle", "waiting", "woken", "reading", "starting", "enabling"}
  BY DEF Init
<1>9. QED
  BY <1>2, <1>3, <1>4, <1>5, <1>6, <1>7, <1>8 DEF TypeOK

\* Every step of the decoder and of the client keeps every variable's type.
LEMMA TypeOKStep == TypeOK /\ [Next]_vars => TypeOK'
<1> SUFFICES ASSUME TypeOK, [Next]_vars PROVE TypeOK'
  OBVIOUS
<1> USE HolderAssumption DEF TypeOK, holderVars, decoderVars, grabVars
<1>a. OperationBuffer \in 0 .. 1
  BY DEF OperationBuffer
<1>b. <<>> \in SampleSeq /\ Len(<<>>) = 0
  BY DEF SampleSeq
<1>c. Following(source) \in Sample
  BY FollowingIsSample
<1>1. CASE DecodeSample
  BY <1>1, <1>c DEF DecodeSample
<1>2. CASE LoseSample
  BY <1>2, <1>c DEF LoseSample
<1>3. CASE PushDiscard
  BY <1>3 DEF PushDiscard
<1>4. CASE PushSync
  <2>1. inflight.rev \in Nat
    BY DEF Sample
  <2>2. scanbuffer' \in [0 .. 1 -> SampleSeq] /\ \A i \in 0 .. 1 : Len(scanbuffer'[i]) <= Capacity
    BY <1>4, <1>a, <1>b DEF PushSync
  <2>3. available' \in -1 .. 1 /\ beginTs' \in [0 .. 1 -> Nat] /\ signalled' \in BOOLEAN
    BY <1>4, <1>a, <2>1 DEF PushSync
  <2>4. QED
    BY <1>4, <2>2, <2>3 DEF PushSync
<1>5. CASE PushOther
  BY <1>5 DEF PushOther
<1>6. CASE PushStore
  <2>1. Store(scanbuffer[OperationBuffer], inflight) \in SampleSeq
        /\ Len(Store(scanbuffer[OperationBuffer], inflight)) <= Capacity
    BY <1>a, StoreType
  <2>2. QED
    BY <1>6, <1>a, <2>1 DEF PushStore
<1>7. CASE RewindScan
  BY <1>7, <1>a, <1>b DEF RewindScan
<1>8. CASE \E n \in Counts : GrabScan(n)
  BY <1>8 DEF GrabScan
<1>9. CASE WaitSignalled
  BY <1>9 DEF WaitSignalled
<1>10. CASE WaitTimeout
  BY <1>10 DEF WaitTimeout
<1>11. CASE LockScan
  BY <1>11 DEF LockScan
<1>12. CASE CopyAndUnlock
  <2>1. scanbuffer[readId] \in SampleSeq /\ Len(scanbuffer[readId]) \in Nat
    BY <1>12 DEF CopyAndUnlock, SampleSeq
  <2>2. delivered' \in SampleSeq
    BY <1>12, <2>1, PrefixType DEF CopyAndUnlock
  <2>3. QED
    BY <1>12, <2>2 DEF CopyAndUnlock
<1>13. CASE Stop
  BY <1>13 DEF Stop
<1>14. CASE StartScan
  BY <1>14 DEF StartScan
<1>15. CASE ResetHolder
  <2>1. scanbuffer' \in [0 .. 1 -> SampleSeq] /\ \A i \in 0 .. 1 : Len(scanbuffer'[i]) <= Capacity
    BY <1>15, <1>b DEF ResetHolder
  <2>2. beginTs' \in [0 .. 1 -> Nat] /\ available' \in -1 .. 1
    BY <1>15 DEF ResetHolder
  <2>3. QED
    BY <1>15, <2>1, <2>2 DEF ResetHolder
<1>16. CASE EnableUnpacker
  <2>1. source' \in Sample
    BY <1>16 DEF EnableUnpacker, Sample
  <2>2. QED
    BY <1>16, <2>1 DEF EnableUnpacker
<1>17. CASE UNCHANGED vars
  BY <1>17 DEF vars
<1>18. QED
  BY <1>1, <1>2, <1>3, <1>4, <1>5, <1>6, <1>7, <1>8, <1>9, <1>10, <1>11, <1>12,
     <1>13, <1>14, <1>15, <1>16, <1>17 DEF Next, Decoder, Client, Grab

\* Every variable keeps its type, and no buffer outgrows its capacity.
THEOREM TypeCorrect == Spec => []TypeOK
BY InitTypeOK, TypeOKStep, PTL DEF Spec

-----------------------------------------------------------------------------
(* The hand-over: a client that was woken finds a scan and keeps it *)

\* Initially nobody holds the lock and no event is set.
LEMMA InitHandover == Init => HandoverInv
BY DEF Init, LockInv, HandoverInv

\* Every step keeps lock holders and program counters in step: nobody else
\* touches the holder while a client reads.
LEMMA LockStep == TypeOK /\ LockInv /\ [Next]_vars => LockInv'
<1> SUFFICES ASSUME TypeOK, LockInv, [Next]_vars PROVE LockInv'
  OBVIOUS
<1> USE DEF LockInv, holderVars, decoderVars, grabVars
<1>1. CASE Decoder
  BY <1>1 DEF Decoder, DecodeSample, LoseSample, PushDiscard, PushSync, PushOther, PushStore,
              RewindScan
<1>2. CASE Grab
  BY <1>2 DEF Grab, WaitSignalled, WaitTimeout, LockScan, CopyAndUnlock
<1>3. CASE Client /\ ~Grab
  BY <1>3 DEF Client, GrabScan, Stop, StartScan, ResetHolder, EnableUnpacker
<1>4. CASE UNCHANGED vars
  BY <1>4 DEF vars
<1>5. QED
  BY <1>1, <1>2, <1>3, <1>4 DEF Next

\* Who holds the lock is where its program counter says.
LEMMA LockCorrect == Spec => []LockInv
<1>1. Init => LockInv
  BY DEF Init, LockInv
<1>2. QED
  BY <1>1, LockStep, TypeCorrect, PTL DEF Spec

\* Without spurious wakeups every step keeps a pending signal backed by an
\* available scan.
LEMMA HandoverStep ==
  ASSUME ~SpuriousWakeup, TypeOK, HandoverInv, [Next]_vars
  PROVE  HandoverInv'
<1> DEFINE Backed == signalled \/ client \in {"woken", "reading"} => available \in 0 .. 1
<1> SUFFICES Backed'
  BY LockStep DEF HandoverInv
<1> USE DEF HandoverInv, LockInv, holderVars, decoderVars, grabVars
<1>1. CASE DecodeSample \/ LoseSample \/ PushDiscard \/ PushOther \/ PushStore \/ RewindScan
  BY <1>1 DEF DecodeSample, LoseSample, PushDiscard, PushOther, PushStore, RewindScan
<1>2. CASE PushSync
  <2>1. OperationBuffer \in 0 .. 1
    BY DEF OperationBuffer, TypeOK
  <2>2. QED
    BY <1>2, <2>1 DEF PushSync
<1>3. CASE Grab
  BY <1>3 DEF Grab, WaitSignalled, WaitTimeout, LockScan, CopyAndUnlock
<1>4. CASE Client /\ ~Grab
  BY <1>4 DEF Client, GrabScan, Stop, StartScan, ResetHolder, EnableUnpacker
<1>5. CASE UNCHANGED vars
  BY <1>5 DEF vars
<1>6. QED
  BY <1>1, <1>2, <1>3, <1>4, <1>5 DEF Next, Decoder

\* The hand-over invariant holds of every behaviour.
LEMMA HandoverCorrect ==
  ASSUME ~SpuriousWakeup
  PROVE  Spec => []HandoverInv
<1>1. TypeOK /\ HandoverInv /\ [Next]_vars => HandoverInv'
  BY HandoverStep
<1>2. QED
  BY InitHandover, TypeCorrect, <1>1, PTL DEF Spec

\* The assertion in waitAndLockAvailableScan never fails where a wait
\* returns only when the event was set: whatever restarts and whatever
\* number of scans completed meanwhile.
THEOREM AssertedScanAvailable ==
  ASSUME ~SpuriousWakeup
  PROVE  Spec => []AvailableWhenReading
<1>1. HandoverInv => AvailableWhenReading
  BY DEF HandoverInv, LockInv, AvailableWhenReading
<1>2. QED
  BY HandoverCorrect, <1>1, PTL

\* No step changes the buffer a client is copying from.
THEOREM ReaderUndisturbed == Spec => ReaderBufferUntouched
<1> DEFINE Untouched == client = "reading" /\ readId \in 0 .. 1
                          => scanbuffer'[readId] = scanbuffer[readId]
<1>1. LockInv /\ [Next]_vars => [Untouched]_vars
  <2> SUFFICES ASSUME LockInv, Next, client = "reading" PROVE UNCHANGED scanbuffer
    BY DEF vars, holderVars
  <2> USE DEF LockInv, holderVars
  <2>1. CASE Decoder
    BY <2>1 DEF Decoder, DecodeSample, LoseSample, PushDiscard, PushSync, PushOther,
                PushStore, RewindScan
  <2>2. CASE Client
    BY <2>2 DEF Client, Grab, GrabScan, WaitSignalled, WaitTimeout, LockScan,
                CopyAndUnlock, Stop, StartScan, ResetHolder, EnableUnpacker
  <2>3. QED
    BY <2>1, <2>2 DEF Next
<1>2. QED
  BY LockCorrect, <1>1, PTL DEF Spec, ReaderBufferUntouched

-----------------------------------------------------------------------------
(* What is delivered: one revolution, in order, with its timestamp *)

\* The first samples of a scan are a prefix of it.
LEMMA FirstSamplesArePrefix ==
  ASSUME NEW scan \in SampleSeq, NEW n \in Nat, n <= Len(scan)
  PROVE  IsPrefix(SubSeq(scan, 1, n), scan)
<1>1. Len(SubSeq(scan, 1, n)) = n /\ SubSeq(scan, 1, n) \in SampleSeq
  BY DEF SampleSeq
<1>2. SubSeq(SubSeq(scan, 1, n), 1, n) = SubSeq(scan, 1, n)
  BY <1>1 DEF SampleSeq
<1>3. QED
  BY <1>1, <1>2 DEF IsPrefix

\* Only the last sample of a revolution is followed by a sync sample, and
\* any other is followed by the next of the same revolution.
LEMMA FollowingCases ==
  ASSUME NEW r \in Nat, NEW k \in Places, NEW s, s = Following([rev |-> r, place |-> k])
  PROVE  /\ IsSync(s) => k = SamplesPerRev - 1
         /\ ~IsSync(s) => k + 1 < SamplesPerRev /\ s = [rev |-> r, place |-> k + 1]
<1> USE HolderAssumption
<1>1. CASE k + 1 < SamplesPerRev
  <2>1. s = [rev |-> r, place |-> k + 1]
    BY <1>1 DEF Following
  <2>2. k + 1 # 0
    BY DEF Places
  <2>3. QED
    BY <1>1, <2>1, <2>2 DEF IsSync
<1>2. CASE ~(k + 1 < SamplesPerRev)
  <2>1. s = [rev |-> r + 1, place |-> 0] /\ k = SamplesPerRev - 1
    BY <1>2 DEF Following, Places
  <2>2. QED
    BY <2>1 DEF IsSync
<1>3. QED
  BY <1>1, <1>2

\* Initially both buffers are empty.
LEMMA InitBuffer == Init => BufferInv
BY DEF Init, BufferInv, FilledUpTo, OperationBuffer

\* A sync sample finds the previous revolution complete, or spoilt, publishes
\* it and opens the other buffer.
LEMMA PushSyncKeepsBuffers ==
  ASSUME TypeOK, LockInv, BufferInv, PushSync
  PROVE  BufferInv'
<1> USE HolderAssumption DEF TypeOK, grabVars
<1> DEFINE op == OperationBuffer
<1>1. op \in 0 .. 1 /\ 1 - op \in 0 .. 1 /\ op # 1 - op /\ (available \in 0 .. 1 => available = 1 - op)
  BY DEF OperationBuffer
<1>2. client # "reading" /\ client # "enabling" /\ decoder = "decoded"
  BY DEF PushSync, LockInv, BufferInv
<1>3. /\ decoder' = "storing" /\ inflight' = inflight /\ source' = source /\ client' = client
      /\ enabled' = enabled /\ delivered' = delivered /\ deliveredTs' = deliveredTs
  BY DEF PushSync
<1>4. inflight.rev \in Nat
  BY DEF Sample
<1>5. CASE scanbuffer[op] = <<>>
  <2>1. available' = available /\ scanbuffer' = scanbuffer /\ OperationBuffer' = op
    BY <1>5 DEF PushSync, OperationBuffer
  <2>2. beginTs' = [beginTs EXCEPT ![op] = inflight.rev]
    BY <1>5 DEF PushSync
  <2>3. available' \in 0 .. 1 => \/ Spoilt(beginTs'[available'])
                                 \/ scanbuffer'[available'] = FullScan(beginTs'[available'])
    BY <1>1, <2>1, <2>2 DEF BufferInv
  <2>4. scanbuffer'[op] = <<>> /\ beginTs'[op] = inflight.rev
    BY <1>1, <1>5, <2>1, <2>2
  <2>5. QED
    BY <1>2, <1>3, <2>1, <2>3, <2>4 DEF BufferInv, IsSync, PushSync
<1>6. CASE scanbuffer[op] # <<>>
  <2>1. available' = op /\ scanbuffer' = [scanbuffer EXCEPT ![1 - op] = <<>>]
        /\ beginTs' = [beginTs EXCEPT ![1 - op] = inflight.rev]
    BY <1>6 DEF PushSync
  <2>2. OperationBuffer' = 1 - op
    BY <1>1, <2>1 DEF OperationBuffer
  <2>3. Spoilt(beginTs[op]) \/ scanbuffer[op] = FullScan(beginTs[op])
    <3>1. SUFFICES ASSUME ~Spoilt(beginTs[op]) PROVE scanbuffer[op] = FullScan(beginTs[op])
      OBVIOUS
    <3>2. PICK k \in Places : /\ scanbuffer[op] = Kept(beginTs[op], k)
                              /\ inflight = Following([rev |-> beginTs[op], place |-> k])
      BY <1>2, <1>6, <3>1 DEF BufferInv, FilledUpTo
    <3>3. beginTs[op] \in Nat /\ IsSync(inflight)
      BY <1>1 DEF PushSync
    <3>4. k = SamplesPerRev - 1
      BY <3>2, <3>3, FollowingCases
    <3>5. QED
      BY <3>2, <3>4 DEF FullScan
  <2>4. scanbuffer'[op] = scanbuffer[op] /\ beginTs'[op] = beginTs[op]
    BY <1>1, <2>1
  <2>5. Spoilt(beginTs'[op]) \/ scanbuffer'[op] = FullScan(beginTs'[op])
    BY <2>3, <2>4
  <2>6. scanbuffer'[1 - op] = <<>> /\ beginTs'[1 - op] = inflight.rev
    BY <1>1, <2>1
  <2>7. QED
    BY <1>1, <1>2, <1>3, <2>1, <2>2, <2>5, <2>6 DEF BufferInv, IsSync, PushSync
<1>7. QED
  BY <1>5, <1>6

\* Storing the sample in flight extends the revolution in progress by it.
LEMMA PushStoreKeepsBuffers ==
  ASSUME TypeOK, LockInv, BufferInv, PushStore
  PROVE  BufferInv'
<1> USE HolderAssumption DEF TypeOK, grabVars
<1> DEFINE op == OperationBuffer
<1>1. op \in 0 .. 1 /\ (available \in 0 .. 1 => available # op)
  BY DEF OperationBuffer
<1>2. client # "reading" /\ client # "enabling" /\ decoder = "storing"
  BY DEF PushStore, LockInv, BufferInv
<1>3. /\ decoder' = "idle" /\ inflight' = inflight /\ source' = source /\ client' = client
      /\ enabled' = enabled /\ delivered' = delivered /\ deliveredTs' = deliveredTs
      /\ available' = available /\ beginTs' = beginTs /\ OperationBuffer' = op
      /\ scanbuffer' = [scanbuffer EXCEPT ![op] = Store(scanbuffer[op], inflight)]
  BY DEF PushStore, OperationBuffer
<1>4. beginTs[op] \in Nat /\ source = Following(inflight)
  BY <1>1, <1>2 DEF BufferInv
<1>5. ASSUME ~Spoilt(beginTs[op])
      PROVE  \E k \in Places : /\ Store(scanbuffer[op], inflight) = Kept(beginTs[op], k)
                               /\ inflight = [rev |-> beginTs[op], place |-> k]
  <2>1. CASE IsSync(inflight)
    <3>1. scanbuffer[op] = <<>> /\ inflight = [rev |-> beginTs[op], place |-> 0]
      BY <1>2, <2>1 DEF BufferInv, IsSync, Sample
    <3>2. QED
      BY <1>4, <3>1, StoreSync DEF Places
  <2>2. CASE ~IsSync(inflight)
    <3>1. PICK k \in Places : /\ scanbuffer[op] = Kept(beginTs[op], k)
                              /\ inflight = Following([rev |-> beginTs[op], place |-> k])
      BY <1>2, <1>5, <2>2 DEF BufferInv, FilledUpTo
    <3>2. k + 1 < SamplesPerRev /\ inflight = [rev |-> beginTs[op], place |-> k + 1]
      BY <1>4, <2>2, <3>1, FollowingCases
    <3>3. Store(scanbuffer[op], inflight) = Kept(beginTs[op], k + 1)
      BY <1>4, <3>1, <3>2, StoreNext
    <3>4. k + 1 \in Places
      BY <3>2 DEF Places
    <3>5. QED
      BY <3>2, <3>3, <3>4
  <2>3. QED
    BY <2>1, <2>2
<1>6. FilledUpTo(source)'
  BY <1>1, <1>3, <1>4, <1>5 DEF FilledUpTo
<1>7. available' \in 0 .. 1 => \/ Spoilt(beginTs'[available'])
                               \/ scanbuffer'[available'] = FullScan(beginTs'[available'])
  BY <1>1, <1>3 DEF BufferInv
<1>8. QED
  BY <1>2, <1>3, <1>6, <1>7 DEF BufferInv

\* A sample lost from the revolution being filled, or from the start of the
\* next, spoils the scan.
LEMMA LoseSampleKeepsBuffers ==
  ASSUME TypeOK, BufferInv, LoseSample
  PROVE  BufferInv'
<1> DEFINE op == OperationBuffer
<1>1. /\ decoder = "idle" /\ decoder' = "idle" /\ source.rev \in LossyRevs
      /\ UNCHANGED <<scanbuffer, available, beginTs, enabled, client, readId, delivered, deliveredTs>>
  BY DEF LoseSample, holderVars, grabVars
<1>2. op \in 0 .. 1 /\ beginTs[op] \in Nat
  BY DEF OperationBuffer, TypeOK
<1>3. scanbuffer[op] = <<>> \/ Spoilt(beginTs[op])
  <2>1. ASSUME NEW k \in Places, source = Following([rev |-> beginTs[op], place |-> k])
        PROVE  source.rev \in {beginTs[op], beginTs[op] + 1}
    BY <1>2, <2>1 DEF Following
  <2>2. QED
    BY <1>1, <2>1 DEF BufferInv, FilledUpTo, Spoilt
<1>4. FilledUpTo(source)'
  BY <1>1, <1>3 DEF FilledUpTo, OperationBuffer
<1>5. QED
  BY <1>1, <1>4 DEF BufferInv, OperationBuffer

\* Every step keeps the buffers holding what the device measured, in order,
\* unless samples of it were lost, when no callback survives a stop.
LEMMA BufferStep ==
  ASSUME StopDrains, TypeOK, LockInv, BufferInv, [Next]_vars
  PROVE  BufferInv'
<1> USE DEF holderVars, decoderVars, grabVars
<1>1. CASE DecodeSample
  BY <1>1 DEF DecodeSample, BufferInv, FilledUpTo, OperationBuffer
<1>2. CASE LoseSample
  BY <1>2, LoseSampleKeepsBuffers
<1>3. CASE PushDiscard
  BY <1>3 DEF PushDiscard, BufferInv, FilledUpTo, OperationBuffer
<1>4. CASE PushSync
  BY <1>4, PushSyncKeepsBuffers
<1>5. CASE PushOther
  BY <1>5 DEF PushOther, BufferInv, FilledUpTo, OperationBuffer
<1>6. CASE PushStore
  BY <1>6, PushStoreKeepsBuffers
<1>7. CASE RewindScan
  <2>1. OperationBuffer \in 0 .. 1 /\ OperationBuffer' = OperationBuffer
        /\ (available \in 0 .. 1 => available # OperationBuffer)
    BY <1>7 DEF RewindScan, OperationBuffer, TypeOK
  <2>2. scanbuffer'[OperationBuffer'] = <<>>
    BY <1>7, <2>1 DEF RewindScan, TypeOK
  <2>3. available' \in 0 .. 1 => \/ Spoilt(beginTs'[available'])
                                 \/ scanbuffer'[available'] = FullScan(beginTs'[available'])
    BY <1>7, <2>1 DEF RewindScan, TypeOK, BufferInv
  <2>4. QED
    BY <1>7, <2>2, <2>3 DEF RewindScan, BufferInv, FilledUpTo, LockInv
<1>8. CASE \E n \in Counts : GrabScan(n)
  <2>1. /\ UNCHANGED <<holderVars, lock, enabled, decoderVars, readId, delivered, deliveredTs>>
        /\ client = "idle" /\ client' = "waiting"
    BY <1>8 DEF GrabScan
  <2>2. QED
    BY <2>1 DEF BufferInv, FilledUpTo, OperationBuffer
<1>9. CASE WaitSignalled
  BY <1>9 DEF WaitSignalled, BufferInv, FilledUpTo, OperationBuffer
<1>10. CASE WaitTimeout
  BY <1>10 DEF WaitTimeout, BufferInv, FilledUpTo, OperationBuffer
<1>11. CASE LockScan
  <2>1. readId' \in 0 .. 1 => deliveredTs'[1] = beginTs'[readId']
    BY <1>11 DEF LockScan
  <2>2. readId' >= 0 => readId' \in 0 .. 1
    BY <1>11 DEF LockScan, TypeOK
  <2>3. QED
    BY <1>11, <2>1, <2>2 DEF LockScan, BufferInv, FilledUpTo, OperationBuffer
<1>12. CASE CopyAndUnlock
  <2> DEFINE scan == scanbuffer[readId]
             n == IF count < Len(scan) THEN count ELSE Len(scan)
  <2>1. scan \in SampleSeq /\ (Spoilt(deliveredTs[1]) \/ scan = FullScan(deliveredTs[1]))
    BY <1>12 DEF CopyAndUnlock, BufferInv, LockInv, TypeOK
  <2>2. Spoilt(deliveredTs'[1]) \/ IsPrefix(delivered', FullScan(deliveredTs'[1]))
    <3>1. n \in Nat /\ n <= Len(scan)
      BY <2>1 DEF TypeOK, SampleSeq
    <3>2. delivered' = SubSeq(scan, 1, n) /\ deliveredTs' = deliveredTs
      BY <1>12 DEF CopyAndUnlock
    <3>3. IsPrefix(SubSeq(scan, 1, n), scan)
      BY <2>1, <3>1, FirstSamplesArePrefix
    <3>4. QED
      BY <2>1, <3>2, <3>3
  <2>3. QED
    BY <1>12, <2>2 DEF CopyAndUnlock, BufferInv, FilledUpTo, OperationBuffer
<1>13. CASE Stop
  BY <1>13 DEF Stop, BufferInv, FilledUpTo, OperationBuffer
<1>14. CASE StartScan
  BY <1>14 DEF StartScan, BufferInv, FilledUpTo, OperationBuffer
<1>15. CASE ResetHolder
  <2>1. available' = -1 /\ OperationBuffer' = 0 /\ scanbuffer'[0] = <<>>
    BY <1>15 DEF ResetHolder, OperationBuffer
  <2>2. decoder = "idle" /\ decoder' = "idle" /\ ~enabled' /\ client' = "enabling"
    BY <1>15 DEF ResetHolder, BufferInv
  <2>3. client # "reading" /\ delivered' = delivered /\ deliveredTs' = deliveredTs
    BY <1>15 DEF ResetHolder
  <2>4. QED
    BY <2>1, <2>2, <2>3 DEF BufferInv, FilledUpTo
<1>16. CASE EnableUnpacker
  BY <1>16 DEF EnableUnpacker, BufferInv, FilledUpTo, OperationBuffer
<1>17. CASE UNCHANGED vars
  <2>1. UNCHANGED <<source, inflight, available, scanbuffer, beginTs, decoder, client, enabled,
                    readId, delivered, deliveredTs>>
    BY <1>17 DEF vars, holderVars, decoderVars, grabVars
  <2>2. QED
    BY <2>1 DEF BufferInv, FilledUpTo, OperationBuffer
<1>18. QED
  BY <1>1, <1>2, <1>3, <1>4, <1>5, <1>6, <1>7, <1>8, <1>9, <1>10, <1>11, <1>12,
     <1>13, <1>14, <1>15, <1>16, <1>17 DEF Next, Decoder, Client, Grab

\* The inductive invariant of the driver whose stop() waits long enough.
THEOREM HolderCorrect ==
  ASSUME StopDrains
  PROVE  Spec => []HolderInv
<1>1. TypeOK /\ LockInv /\ BufferInv /\ [Next]_vars => BufferInv'
  BY BufferStep
<1>2. TypeOK /\ LockInv /\ BufferInv => HolderInv
  BY DEF HolderInv
<1>3. QED
  BY InitBuffer, TypeCorrect, LockCorrect, <1>1, <1>2, PTL DEF Spec

\* The promise of sl_lidar_driver.h: what a grab delivers is the beginning of
\* one revolution, complete up to the caller's count, with its timestamp,
\* for every capacity, revolution length and interleaving, and whatever
\* samples of other revolutions were lost.
THEOREM ScansAreOneRevolution ==
  ASSUME StopDrains
  PROVE  Spec => []DeliveredIsOneRevolution
<1>1. HolderInv => DeliveredIsOneRevolution
  BY DEF HolderInv, BufferInv, DeliveredIsOneRevolution
<1>2. QED
  BY HolderCorrect, <1>1, PTL

\* The assertion in pushScanNodeData: a sync sample opens an empty buffer.
THEOREM SyncOpensEmptyBuffer ==
  ASSUME StopDrains
  PROVE  Spec => []SyncStartsEmptyBuffer
<1>1. HolderInv => SyncStartsEmptyBuffer
  BY DEF HolderInv, BufferInv, SyncStartsEmptyBuffer
<1>2. QED
  BY HolderCorrect, <1>1, PTL

-----------------------------------------------------------------------------
(* Scans never come back: revolutions rise on their way through the holder *)

\* Where the operation buffer is before and after a step that leaves the
\* available one alone.
LEMMA OperationBufferSide ==
  ASSUME TypeOK
  PROVE  /\ OperationBuffer \in 0 .. 1 /\ 1 - OperationBuffer \in 0 .. 1
         /\ OperationBuffer # 1 - OperationBuffer
         /\ available \in 0 .. 1 => available = 1 - OperationBuffer
         /\ available \notin 0 .. 1 => available = -1 /\ OperationBuffer = 0
         /\ available' = available => OperationBuffer' = OperationBuffer
BY DEF OperationBuffer, TypeOK

\* The numbers FreshInv compares are numbers.
LEMMA FreshTypes ==
  ASSUME TypeOK
  PROVE  /\ inflight.rev \in Nat /\ source.rev \in Nat
         /\ beginTs[0] \in Nat /\ beginTs[1] \in Nat /\ beginTs \in [0 .. 1 -> Nat]
         /\ deliveredTs[1] \in Nat /\ deliveredTs[2] \in Nat /\ deliveredTs[3] \in Nat
BY DEF TypeOK, Sample

\* The sample after a sample is of the same revolution or of the next.
LEMMA FollowingRises ==
  ASSUME NEW s \in Sample
  PROVE  s.rev <= Following(s).rev /\ Before(s, Following(s))
BY HolderAssumption DEF Sample, Places, Following, Before

\* Nothing has been read initially, so nothing stale has.
LEMMA InitFresh == Init => FreshInv
BY HolderAssumption DEF Init, FreshInv, NeverAnOlderScan, OperationBuffer

\* Every step of the decoder keeps the revolutions rising: a sync sample is
\* never of an older revolution than the scan it completes.
LEMMA DecoderFresh ==
  ASSUME TypeOK, LockInv, FreshInv, Decoder
  PROVE  FreshInv'
<1> USE OperationBufferSide, FreshTypes
<1> USE DEF FreshInv, NeverAnOlderScan, holderVars, decoderVars, grabVars
<1>a. source.rev <= Following(source).rev /\ Following(source).rev \in Nat
  BY FollowingRises, FollowingIsSample DEF TypeOK, Sample
<1>1. CASE DecodeSample
  BY <1>1, <1>a DEF DecodeSample
<1>2. CASE LoseSample
  BY <1>2, <1>a DEF LoseSample
<1>3. CASE PushDiscard
  BY <1>3 DEF PushDiscard
<1>4. CASE PushSync
  <2> DEFINE op == OperationBuffer
  <2>0. UNCHANGED <<inflight, source, deliveredTs>> /\ decoder' = "storing" /\ decoder = "decoded"
    BY <1>4 DEF PushSync
  <2>1. CASE scanbuffer[op] = <<>>
    <3>1. available' = available /\ beginTs' = [beginTs EXCEPT ![op] = inflight.rev]
      BY <1>4, <2>1 DEF PushSync
    <3>2. beginTs'[op] = inflight.rev /\ beginTs'[1 - op] = beginTs[1 - op]
      BY <3>1
    <3> QED BY <2>0, <3>1, <3>2
  <2>2. CASE scanbuffer[op] # <<>>
    <3>1. available' = op /\ beginTs' = [beginTs EXCEPT ![1 - op] = inflight.rev]
      BY <1>4, <2>2 DEF PushSync
    <3>2. OperationBuffer' = 1 - op
      BY <3>1 DEF OperationBuffer
    <3>3. beginTs'[1 - op] = inflight.rev /\ beginTs'[op] = beginTs[op]
      BY <3>1
    <3>4. beginTs[op] \in deliveredTs[1] .. inflight.rev
      BY <2>2
    <3> QED BY <2>0, <3>1, <3>2, <3>3, <3>4
  <2> QED BY <2>1, <2>2
<1>5. CASE PushOther
  BY <1>5 DEF PushOther
<1>6. CASE PushStore
  BY <1>6 DEF PushStore
<1>7. CASE RewindScan
  <2>1. scanbuffer'[OperationBuffer] = <<>>
    BY <1>7 DEF RewindScan, TypeOK
  <2> QED BY <1>7, <2>1 DEF RewindScan
<1>8. QED
  BY <1>1, <1>2, <1>3, <1>4, <1>5, <1>6, <1>7 DEF Decoder

\* Every step of the client does: what it takes is at least as new as what it
\* took before, and a restart numbers its revolutions on.
LEMMA ClientFresh ==
  ASSUME TypeOK, LockInv, FreshInv, Client
  PROVE  FreshInv'
<1> USE OperationBufferSide, FreshTypes
<1> USE DEF FreshInv, NeverAnOlderScan, holderVars, decoderVars, grabVars
<1>1. CASE \E n \in Counts : GrabScan(n)
  BY <1>1 DEF GrabScan
<1>2. CASE WaitSignalled \/ WaitTimeout
  BY <1>2 DEF WaitSignalled, WaitTimeout
<1>3. CASE LockScan
  <2>1. CASE available \in 0 .. 1
    <3>1. deliveredTs' = <<beginTs[available], deliveredTs[1], deliveredTs[2]>>
      BY <1>3, <2>1 DEF LockScan
    <3>2. /\ deliveredTs'[1] = beginTs[available] /\ deliveredTs'[2] = deliveredTs[1]
          /\ deliveredTs'[3] = deliveredTs[2]
      BY <3>1
    <3> QED BY <1>3, <2>1, <3>2 DEF LockScan
  <2>2. CASE available \notin 0 .. 1
    BY <1>3, <2>2 DEF LockScan
  <2> QED BY <2>1, <2>2
<1>4. CASE CopyAndUnlock \/ Stop \/ StartScan
  BY <1>4 DEF CopyAndUnlock, Stop, StartScan
<1>5. CASE ResetHolder
  <2>1. available' = -1 /\ OperationBuffer' = 0 /\ scanbuffer'[0] = <<>> /\ decoder' # "storing"
    BY <1>5 DEF ResetHolder, OperationBuffer, LockInv
  <2> QED BY <1>5, <2>1 DEF ResetHolder
<1>6. CASE EnableUnpacker
  <2>1. source'.rev = source.rev + 1
    BY <1>6 DEF EnableUnpacker
  <2> QED BY <1>6, <2>1 DEF EnableUnpacker
<1> QED BY <1>1, <1>2, <1>3, <1>4, <1>5, <1>6 DEF Client, Grab

\* Freshness holds in every reachable state.
LEMMA FreshCorrect == Spec => []FreshInv
<1>1. TypeOK /\ LockInv /\ FreshInv /\ [Next]_vars => FreshInv'
  <2>1. ASSUME FreshInv, UNCHANGED vars PROVE FreshInv'
    BY <2>1 DEF vars, holderVars, decoderVars, grabVars, FreshInv, NeverAnOlderScan, OperationBuffer
  <2> QED BY <2>1, DecoderFresh, ClientFresh DEF Next
<1> QED BY <1>1, InitFresh, TypeCorrect, LockCorrect, PTL DEF Spec

\* No grab returns an older scan than the grab before it, across timeouts,
\* double deliveries, lost samples, callbacks that outlive a stop, waits that
\* end for no reason, and restarts of the scan.
THEOREM ScansNeverComeBack == Spec => []NeverAnOlderScan
<1>1. FreshInv => NeverAnOlderScan
  BY DEF FreshInv
<1> QED BY <1>1, FreshCorrect, PTL

-----------------------------------------------------------------------------
(* The holder implements the mailbox of scans *)

\* A function on 1 .. m is a sequence of length m.
LEMMA FunctionIsSequence ==
  ASSUME NEW S, NEW m \in Nat, NEW s \in [1 .. m -> S]
  PROVE  s \in Seq(S) /\ Len(s) = m /\ (s = <<>> <=> m = 0)
OBVIOUS

\* What append, replacing the last entry and taking the first entries make of
\* a sequence.
LEMMA AppendedSequence ==
  ASSUME NEW S, NEW s \in Seq(S), NEW e \in S
  PROVE  /\ Append(s, e) \in [1 .. Len(s) + 1 -> S] /\ Len(Append(s, e)) = Len(s) + 1
         /\ Append(s, e)[Len(s) + 1] = e
         /\ \A i \in 1 .. Len(s) : Append(s, e)[i] = s[i]
<1>1. Append(s, e) \in Seq(S) /\ Len(Append(s, e)) = Len(s) + 1
  BY AppendProperties
<1>2. Append(s, e) \in [1 .. Len(s) + 1 -> S]
  BY <1>1, LenProperties
<1> QED BY <1>1, <1>2, AppendProperties

\* Replacing the last entry of a sequence leaves the others.
LEMMA ReplacedLast ==
  ASSUME NEW S, NEW s \in Seq(S), NEW e \in S, Len(s) >= 1
  PROVE  /\ [s EXCEPT ![Len(s)] = e] \in [1 .. Len(s) -> S]
         /\ Len([s EXCEPT ![Len(s)] = e]) = Len(s)
         /\ [s EXCEPT ![Len(s)] = e][Len(s)] = e
         /\ \A i \in 1 .. Len(s) - 1 : [s EXCEPT ![Len(s)] = e][i] = s[i]
<1>1. Len(s) \in 1 .. Len(s)
  BY LenProperties
<1>2. [s EXCEPT ![Len(s)] = e] \in Seq(S) /\ Len([s EXCEPT ![Len(s)] = e]) = Len(s)
  BY <1>1, ExceptSeq
<1>3. [s EXCEPT ![Len(s)] = e] \in [1 .. Len(s) -> S]
  BY <1>2, LenProperties
<1>4. \A j \in 1 .. Len(s) : [s EXCEPT ![Len(s)] = e][j] = IF j = Len(s) THEN e ELSE s[j]
  BY <1>1, ExceptSeq
<1>5. \A j \in 1 .. Len(s) - 1 : j \in 1 .. Len(s) /\ j # Len(s)
  BY <1>1, LenProperties
<1> QED BY <1>1, <1>2, <1>3, <1>4, <1>5

\* The first entries of a sequence are those of the sequence.
LEMMA FirstEntries ==
  ASSUME NEW S, NEW s \in Seq(S), NEW n \in 1 .. Len(s)
  PROVE  /\ SubSeq(s, 1, n) \in [1 .. n -> S] /\ Len(SubSeq(s, 1, n)) = n
         /\ \A i \in 1 .. n : SubSeq(s, 1, n)[i] = s[i]
<1>1. n \in Nat /\ 1 <= n /\ \A i \in 1 .. n : s[i] \in S
  BY ElementOfSeq, LenProperties
<1>2. /\ SubSeq(s, 1, n) \in Seq(S) /\ Len(SubSeq(s, 1, n)) = n
      /\ \A i \in 1 .. n : SubSeq(s, 1, n)[i] = s[i]
  BY <1>1, SubSeqProperties
<1> QED BY <1>2, LenProperties

\* What a scan is, without the set of all of them.
LEMMA ScanIsOrdered ==
  ASSUME NEW s
  PROVE  s \in OrderedScans <=>
           /\ \E m \in 1 .. Capacity : s \in [1 .. m -> [rev : 1 .. MaxRev + 1, place : Places]]
           /\ IsSync(s[1])
           /\ \A i \in 1 .. Len(s) - 1 : Before(s[i], s[i + 1])
<1> USE HolderAssumption
<1> DEFINE Some == [rev : 1 .. MaxRev + 1, place : Places]
<1>1. s \in SeqOf(Some, Capacity) <=> \E m \in 0 .. Capacity : s \in [1 .. m -> Some]
  BY DEF SeqOf
<1>2. ASSUME NEW m \in 0 .. Capacity, s \in [1 .. m -> Some]
      PROVE  s # <<>> <=> m # 0
  <2> HIDE DEF Some
  <2> QED BY <1>2, FunctionIsSequence
<1>3. s \in SeqOf(Some, Capacity) /\ s # <<>> <=> \E m \in 1 .. Capacity : s \in [1 .. m -> Some]
  BY <1>1, <1>2
<1> QED BY <1>3 DEF OrderedScans

\* A scan is a sequence, and not empty.
LEMMA ScanIsSequence ==
  ASSUME NEW s \in OrderedScans
  PROVE  /\ s \in Seq([rev : 1 .. MaxRev + 1, place : Places]) /\ Len(s) \in 1 .. Capacity
         /\ s # <<>> /\ IsSync(s[1])
         /\ \A i \in 1 .. Len(s) - 1 : Before(s[i], s[i + 1])
         /\ s[Len(s)] \in Sample
<1> USE HolderAssumption
<1> DEFINE Some == [rev : 1 .. MaxRev + 1, place : Places]
<1>1. PICK m \in 1 .. Capacity : s \in [1 .. m -> Some]
  BY ScanIsOrdered
<1>2. s \in Seq(Some) /\ Len(s) = m
  <2> HIDE DEF Some
  <2> QED BY <1>1, FunctionIsSequence
<1>3. s[m] \in Some
  BY <1>1
<1>4. s[m] \in Sample
  BY <1>3 DEF Sample
<1>5. s # <<>> /\ m >= 1
  <2> HIDE DEF Some
  <2> QED BY <1>1, FunctionIsSequence
<1> HIDE DEF Some
<1> QED BY <1>2, <1>4, <1>5, ScanIsOrdered DEF Some

\* The order of samples is transitive.
LEMMA BeforeTransitive ==
  ASSUME NEW r \in Sample, NEW s \in Sample, NEW t \in Sample, Before(r, s), Before(s, t)
  PROVE  Before(r, t)
BY DEF Before, Sample, Places

\* A sync sample alone begins a scan.
LEMMA SyncBeginsScan ==
  ASSUME NEW s \in Sample, s.rev \in 1 .. MaxRev, IsSync(s)
  PROVE  /\ Store(<<>>, s) \in OrderedScans
         /\ Store(<<>>, s)[Len(Store(<<>>, s))] = s
<1> USE HolderAssumption
<1> DEFINE Some == [rev : 1 .. MaxRev + 1, place : Places]
<1>1. Store(<<>>, s) = <<s>>
  BY DEF Store
<1>2. s \in Some
  BY DEF Sample
<1>3. <<s>> \in [1 .. 1 -> Some] /\ Len(<<s>>) = 1
  BY <1>2
<1>4. <<s>>[1] = s /\ 1 \in 1 .. Capacity /\ 1 .. Len(<<s>>) - 1 = {}
  BY <1>3
<1>5. <<s>> \in OrderedScans
  BY <1>3, <1>4, ScanIsOrdered
<1> QED BY <1>1, <1>3, <1>4, <1>5

\* A later sample continues it, also in a full buffer, whose last entry it
\* replaces.
LEMMA LaterContinuesScan ==
  ASSUME NEW buf \in OrderedScans, NEW s \in Sample, s.rev \in 1 .. MaxRev,
         Before(buf[Len(buf)], s)
  PROVE  /\ Store(buf, s) \in OrderedScans
         /\ Store(buf, s)[Len(Store(buf, s))] = s
<1> USE HolderAssumption
<1> DEFINE Some == [rev : 1 .. MaxRev + 1, place : Places]
           n == Len(buf)
<1>1. /\ buf \in Seq(Some) /\ n \in 1 .. Capacity /\ IsSync(buf[1])
      /\ \A i \in 1 .. n - 1 : Before(buf[i], buf[i + 1])
  BY ScanIsSequence
<1>2. s \in Some
  BY DEF Sample
<1>3. CASE n < Capacity
  <2>1. Store(buf, s) = Append(buf, s)
    BY <1>1, <1>3 DEF Store
  <2>2. /\ Append(buf, s) \in [1 .. n + 1 -> Some] /\ Len(Append(buf, s)) = n + 1
        /\ Append(buf, s)[n + 1] = s
        /\ \A i \in 1 .. n : Append(buf, s)[i] = buf[i]
    <3> HIDE DEF Some
    <3> QED BY <1>1, <1>2, AppendedSequence
  <2> DEFINE new == Append(buf, s)
  <2> HIDE DEF new
  <2>3. \A i \in 1 .. Len(new) - 1 : Before(new[i], new[i + 1])
    <3> TAKE i \in 1 .. Len(new) - 1
    <3>1. i \in 1 .. n /\ new[i] = buf[i]
      BY <1>1, <2>2 DEF new
    <3>2. CASE i = n
      BY <3>1, <3>2, <2>2 DEF new
    <3>3. CASE i # n
      <4>1. i \in 1 .. n - 1 /\ i + 1 \in 1 .. n
        BY <1>1, <3>1, <3>3
      <4>2. new[i + 1] = buf[i + 1]
        BY <4>1, <2>2 DEF new
      <4> QED BY <1>1, <3>1, <4>1, <4>2
    <3> QED BY <3>2, <3>3
  <2>4. n + 1 \in 1 .. Capacity /\ IsSync(new[1])
    <3>1. 1 \in 1 .. n
      BY <1>1
    <3> QED BY <1>1, <1>3, <2>2, <3>1 DEF new
  <2>5. new \in [1 .. n + 1 -> Some]
    BY <2>2 DEF new
  <2>6. new \in OrderedScans
    BY <2>3, <2>4, <2>5, ScanIsOrdered
  <2> QED BY <2>1, <2>2, <2>6 DEF new
<1>4. CASE n = Capacity
  <2>1. Store(buf, s) = [buf EXCEPT ![n] = s]
    BY <1>1, <1>4 DEF Store
  <2> DEFINE new == [buf EXCEPT ![n] = s]
  <2>2. /\ new \in [1 .. n -> Some] /\ Len(new) = n /\ new[n] = s
        /\ \A i \in 1 .. n - 1 : new[i] = buf[i]
    <3> HIDE DEF Some
    <3> QED BY <1>1, <1>2, ReplacedLast
  <2>3. Before(buf[n - 1], s)
    <3>1. n - 1 \in 1 .. n - 1 /\ n - 1 \in 1 .. n /\ n \in 1 .. n
      BY <1>4, HolderAssumption
    <3>2. buf[n - 1] \in Some /\ buf[n] \in Some
      <4> HIDE DEF Some
      <4> QED BY <1>1, <3>1
    <3>3. Before(buf[n - 1], buf[n])
      BY <1>1, <3>1
    <3>4. buf[n - 1] \in Sample /\ buf[n] \in Sample
      BY <3>2 DEF Sample
    <3> QED BY <3>3, <3>4, BeforeTransitive
  <2> HIDE DEF new
  <2>4. \A i \in 1 .. n - 1 : Before(new[i], new[i + 1])
    <3> TAKE i \in 1 .. n - 1
    <3>1. new[i] = buf[i]
      BY <2>2
    <3>2. CASE i = n - 1
      BY <3>1, <3>2, <2>2, <2>3, <1>1
    <3>3. CASE i # n - 1
      <4>1. i + 1 \in 1 .. n - 1
        BY <1>1, <3>3
      <4> QED BY <1>1, <3>1, <4>1, <2>2
    <3> QED BY <3>2, <3>3
  <2>5. IsSync(new[1])
    BY <1>1, <1>4, <2>2
  <2> HIDE DEF new
  <2> QED BY <1>1, <2>1, <2>2, <2>4, <2>5, ScanIsOrdered DEF new
<1> QED BY <1>1, <1>3, <1>4

\* The beginning of a scan is one.
LEMMA BeginningIsScan ==
  ASSUME NEW s \in OrderedScans, NEW n \in 1 .. Len(s)
  PROVE  SubSeq(s, 1, n) \in OrderedScans
<1> DEFINE Some == [rev : 1 .. MaxRev + 1, place : Places]
<1>1. /\ s \in Seq(Some) /\ Len(s) \in 1 .. Capacity /\ IsSync(s[1])
      /\ \A i \in 1 .. Len(s) - 1 : Before(s[i], s[i + 1])
  BY ScanIsSequence
<1>2. /\ SubSeq(s, 1, n) \in [1 .. n -> Some] /\ Len(SubSeq(s, 1, n)) = n
      /\ \A i \in 1 .. n : SubSeq(s, 1, n)[i] = s[i]
  <2> HIDE DEF Some
  <2> QED BY <1>1, FirstEntries
<1>3. \A i \in 1 .. n - 1 : Before(SubSeq(s, 1, n)[i], SubSeq(s, 1, n)[i + 1])
  BY <1>1, <1>2
<1>4. n \in 1 .. Capacity /\ IsSync(SubSeq(s, 1, n)[1])
  BY <1>1, <1>2, HolderAssumption
<1> QED BY <1>2, <1>3, <1>4, ScanIsOrdered

\* The scans are in order initially.
LEMMA InitOrder == Init => OrderInv
BY DEF Init, OrderInv, OperationBuffer

\* Every step of the decoder fills the buffers in order.
LEMMA DecoderOrder ==
  ASSUME TypeOK, LockInv, OrderInv, Decoder
  PROVE  OrderInv'
<1> USE OperationBufferSide
<1> USE DEF OrderInv, NextPushed, holderVars, decoderVars, grabVars
<1>a. Before(source, Following(source)) /\ source.rev <= Following(source).rev
  BY FollowingRises DEF TypeOK
<1>b. source \in Sample /\ inflight \in Sample /\ Following(source) \in Sample
  BY FollowingIsSample DEF TypeOK
<1>c. source.rev \in Nat /\ Following(source).rev \in Nat
  BY <1>b DEF Sample
<1>d. MaxRev \in Nat
  BY HolderAssumption
<1>1. CASE DecodeSample
  BY <1>1, <1>a, <1>c, <1>d DEF DecodeSample
<1>2. CASE LoseSample
  <2> DEFINE filled == scanbuffer[OperationBuffer]
  <2>1. filled # <<>> => Before(filled[Len(filled)], Following(source))
    <3> SUFFICES ASSUME filled # <<>> PROVE Before(filled[Len(filled)], Following(source))
      OBVIOUS
    <3>1. filled \in OrderedScans /\ Before(filled[Len(filled)], source)
      BY <1>2 DEF LoseSample
    <3>2. filled[Len(filled)] \in Sample
      BY <3>1, ScanIsSequence
    <3> QED BY <1>a, <1>b, <3>1, <3>2, BeforeTransitive
  <2> QED BY <1>2, <1>a, <1>c, <2>1 DEF LoseSample
<1>3. CASE PushDiscard
  BY <1>3 DEF PushDiscard
<1>4. CASE PushSync
  <2> DEFINE op == OperationBuffer
  <2>0. /\ UNCHANGED <<inflight, source, enabled, client, count, delivered>>
        /\ decoder' = "storing" /\ decoder = "decoded" /\ IsSync(inflight)
    BY <1>4 DEF PushSync
  <2>1. CASE scanbuffer[op] = <<>>
    <3>1. available' = available /\ scanbuffer' = scanbuffer
      BY <1>4, <2>1 DEF PushSync
    <3> QED BY <2>0, <2>1, <3>1
  <2>2. CASE scanbuffer[op] # <<>>
    <3>1. available' = op /\ scanbuffer' = [scanbuffer EXCEPT ![1 - op] = <<>>]
      BY <1>4, <2>2 DEF PushSync
    <3>2. OperationBuffer' = 1 - op
      BY <3>1 DEF OperationBuffer
    <3>3. scanbuffer'[1 - op] = <<>> /\ scanbuffer'[op] = scanbuffer[op]
      BY <3>1 DEF TypeOK
    <3> QED BY <2>0, <2>2, <3>1, <3>2, <3>3
  <2> QED BY <2>1, <2>2
<1>5. CASE PushOther
  BY <1>5 DEF PushOther
<1>6. CASE PushStore
  <2> DEFINE op == OperationBuffer
             new == Store(scanbuffer[op], inflight)
  <2>1. new \in OrderedScans /\ new[Len(new)] = inflight
    BY <1>6, <1>b, SyncBeginsScan, LaterContinuesScan DEF PushStore
  <2>2. new # <<>>
    BY <2>1, ScanIsSequence
  <2>3. /\ scanbuffer'[op] = new
        /\ available \in 0 .. 1 => scanbuffer'[available] = scanbuffer[available]
    BY <1>6 DEF PushStore, TypeOK
  <2>4. /\ UNCHANGED <<available, enabled, source, inflight, client, count, delivered>>
        /\ decoder = "storing" /\ decoder' = "idle"
    BY <1>6 DEF PushStore
  <2> HIDE DEF new
  <2> QED BY <2>1, <2>2, <2>3, <2>4
<1>7. CASE RewindScan
  <2>1. /\ scanbuffer'[OperationBuffer] = <<>>
        /\ available \in 0 .. 1 => scanbuffer'[available] = scanbuffer[available]
    BY <1>7 DEF RewindScan, TypeOK
  <2> QED BY <1>7, <2>1 DEF RewindScan
<1> QED BY <1>1, <1>2, <1>3, <1>4, <1>5, <1>6, <1>7 DEF Decoder

\* What a grab copies out is the beginning of the available scan, and has at
\* least one sample.
LEMMA GrabTakesBeginning ==
  ASSUME TypeOK, LockInv, OrderInv, CopyAndUnlock
  PROVE  /\ available \in 0 .. 1 /\ scanbuffer[available] \in OrderedScans
         /\ \E n \in 1 .. Len(scanbuffer[available]) :
               delivered' = SubSeq(scanbuffer[available], 1, n)
<1> DEFINE scan == scanbuffer[readId]
           n == IF count < Len(scan) THEN count ELSE Len(scan)
<1>1. readId = available /\ available \in 0 .. 1 /\ scan \in OrderedScans
  BY DEF CopyAndUnlock, LockInv, OrderInv
<1>2. count \in Nat \ {0}
  BY HolderAssumption DEF CopyAndUnlock, OrderInv
<1>3. Len(scan) \in Nat /\ Len(scan) >= 1
  BY <1>1, ScanIsSequence, HolderAssumption
<1>4. n \in 1 .. Len(scan)
  BY <1>2, <1>3
<1>5. delivered' = SubSeq(scan, 1, n)
  BY DEF CopyAndUnlock
<1> QED BY <1>1, <1>4, <1>5

\* Every step of the client leaves them so.
LEMMA ClientOrder ==
  ASSUME TypeOK, LockInv, OrderInv, Client
  PROVE  OrderInv'
<1> USE OperationBufferSide
<1> USE DEF OrderInv, NextPushed, holderVars, decoderVars, grabVars
<1>1. CASE \E n \in Counts : GrabScan(n)
  BY <1>1 DEF GrabScan
<1>2. CASE WaitSignalled \/ WaitTimeout \/ LockScan
  BY <1>2 DEF WaitSignalled, WaitTimeout, LockScan
<1>3. CASE CopyAndUnlock
  <2>1. delivered' \in OrderedScans
    BY <1>3, GrabTakesBeginning, BeginningIsScan
  <2> QED BY <1>3, <2>1 DEF CopyAndUnlock
<1>4. CASE Stop \/ StartScan
  BY <1>4 DEF Stop, StartScan
<1>5. CASE ResetHolder
  <2>1. available' = -1 /\ OperationBuffer' = 0 /\ scanbuffer'[0] = <<>> /\ decoder' # "storing"
    BY <1>5 DEF ResetHolder, OperationBuffer, LockInv
  <2> QED BY <1>5, <2>1 DEF ResetHolder
<1>6. CASE EnableUnpacker
  <2>1. /\ source'.rev = source.rev + 1 /\ source.rev \in Nat
        /\ source' \in Sample
    BY <1>6 DEF EnableUnpacker, TypeOK, Sample
  <2>2. ASSUME NEW s \in Sample, Before(s, source)
        PROVE  Before(s, source')
    BY <2>1, <2>2 DEF Before, Sample, TypeOK
  <2>3. decoder # "idle" => Before(inflight, source')
    BY <2>2 DEF TypeOK
  <2> DEFINE filled == scanbuffer[OperationBuffer]
  <2>4. filled # <<>> => Before(filled[Len(filled)], NextPushed')
    <3>1. filled # <<>> => filled[Len(filled)] \in Sample
      BY ScanIsSequence
    <3> QED BY <1>6, <2>2, <3>1 DEF EnableUnpacker
  <2> QED BY <1>6, <2>1, <2>3, <2>4 DEF EnableUnpacker
<1> QED BY <1>1, <1>2, <1>3, <1>4, <1>5, <1>6 DEF Client, Grab

\* The order of the scans holds in every reachable state.
LEMMA OrderCorrect == Spec => []OrderInv
<1>1. TypeOK /\ LockInv /\ OrderInv /\ [Next]_vars => OrderInv'
  <2>1. ASSUME OrderInv, UNCHANGED vars PROVE OrderInv'
    BY <2>1 DEF vars, holderVars, decoderVars, grabVars, OrderInv, NextPushed, OperationBuffer
  <2> QED BY <2>1, DecoderOrder, ClientOrder DEF Next
<1> QED BY <1>1, InitOrder, TypeCorrect, LockCorrect, PTL DEF Spec

\* A delivered scan begins with a sync sample and its samples are in the order
\* they were measured, none twice, whatever was lost and however late a
\* callback ends.
THEOREM ScansAreInOrder == Spec => []DeliveredInOrder
<1>1. OrderInv => DeliveredInOrder
  BY ScanIsSequence DEF OrderInv, DeliveredInOrder
<1> QED BY <1>1, OrderCorrect, PTL

\* A step of the decoder publishes a scan or is none of the mailbox's.
LEMMA DecoderPublishes ==
  ASSUME TypeOK, LockInv, OrderInv, Decoder
  PROVE  Mailbox!Publish \/ UNCHANGED Mailbox!mailboxVars
<1> USE OperationBufferSide
<1> USE DEF Mailbox!mailboxVars, holderVars, decoderVars, grabVars
<1>1. CASE DecodeSample \/ LoseSample \/ PushDiscard \/ PushOther
  BY <1>1 DEF DecodeSample, LoseSample, PushDiscard, PushOther
<1>2. CASE PushSync
  <2> DEFINE op == OperationBuffer
  <2>1. CASE scanbuffer[op] = <<>>
    BY <1>2, <2>1 DEF PushSync
  <2>2. CASE scanbuffer[op] # <<>>
    <3>1. /\ available' = op /\ scanbuffer' = [scanbuffer EXCEPT ![1 - op] = <<>>]
          /\ UNCHANGED delivered
      BY <1>2, <2>2 DEF PushSync
    <3>2. scanbuffer'[op] \in OrderedScans /\ ~(available' < 0)
      BY <2>2, <3>1 DEF TypeOK, OrderInv
    <3> QED BY <3>1, <3>2 DEF Mailbox!Publish
  <2> QED BY <2>1, <2>2
<1>3. CASE PushStore \/ RewindScan
  <2>1. /\ UNCHANGED <<available, delivered>>
        /\ available \in 0 .. 1 => scanbuffer'[available] = scanbuffer[available]
    BY <1>3 DEF PushStore, RewindScan, TypeOK
  <2>2. ~(available < 0) => available \in 0 .. 1
    BY DEF TypeOK
  <2> QED BY <2>1, <2>2
<1> QED BY <1>1, <1>2, <1>3 DEF Decoder

\* A step of the client throws the scan away, delivers it, or is none of the
\* mailbox's.
LEMMA ClientDelivers ==
  ASSUME TypeOK, LockInv, OrderInv, Client
  PROVE  Mailbox!Clear \/ Mailbox!Deliver \/ UNCHANGED Mailbox!mailboxVars
<1> USE DEF holderVars, decoderVars, grabVars
<1>1. CASE ResetHolder
  BY <1>1 DEF ResetHolder, Mailbox!Clear
<1>2. CASE CopyAndUnlock
  <2>1. /\ available \in 0 .. 1 /\ scanbuffer[available] # <<>>
        /\ \E n \in 1 .. Len(scanbuffer[available]) :
              delivered' = SubSeq(scanbuffer[available], 1, n)
    BY <1>2, GrabTakesBeginning, ScanIsSequence
  <2>2. UNCHANGED <<available, scanbuffer>> /\ ~(available < 0)
    BY <1>2, <2>1 DEF CopyAndUnlock
  <2> QED BY <2>1, <2>2 DEF Mailbox!Deliver
<1>3. CASE Client /\ ~ResetHolder /\ ~CopyAndUnlock
  BY <1>3 DEF Client, Grab, GrabScan, WaitSignalled, WaitTimeout, LockScan, Stop, StartScan,
              EnableUnpacker, Mailbox!mailboxVars
<1> QED BY <1>1, <1>2, <1>3

\* The holder implements the mailbox: behind the two buffers, the lock and the
\* event there is one newest complete scan, replaced whole, thrown away whole,
\* and delivered from its beginning.
THEOREM HolderIsMailbox == Spec => MailboxSpec
<1>1. Init => Mailbox!Init
  BY DEF Init, Mailbox!Init
<1>2. TypeOK /\ LockInv /\ OrderInv /\ [Next]_vars => [Mailbox!Next]_(Mailbox!mailboxVars)
  <2>1. ASSUME UNCHANGED vars PROVE UNCHANGED Mailbox!mailboxVars
    BY <2>1 DEF vars, holderVars, grabVars, Mailbox!mailboxVars
  <2> QED BY <2>1, DecoderPublishes, ClientDelivers DEF Next, Mailbox!Next
<1> QED BY <1>1, <1>2, TypeCorrect, LockCorrect, OrderCorrect, PTL DEF Spec, MailboxSpec, Mailbox!Spec
=============================================================================
