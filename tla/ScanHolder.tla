----------------------------- MODULE ScanHolder -----------------------------
(***************************************************************************)
(* The hand-over of scans inside the lidar driver: ScanDataHolder, its     *)
(* auto-reset Event, the decoder thread that pushes samples into it and    *)
(* the client thread that grabs scans and restarts scanning.               *)
(*                                                                         *)
(* The decoder thread and the client thread meet at two places only: the   *)
(* holder's _locker (here "lock") and the event's own mutex, under which   *)
(* the event is set and consumed (one atomic step each).  Every public     *)
(* operation of the driver holds the recursive _op_locker, so there is one *)
(* client at a time.                                                       *)
(*                                                                         *)
(* A sample is the pair of its revolution and its place in it; place 0 is  *)
(* the sample with the sync bit.  Revolutions are numbered across          *)
(* restarts, so a scan mixing two scan sessions mixes two revolutions.     *)
(* The number of a revolution also stands for the timestamp of its first   *)
(* sample.                                                                 *)
(***************************************************************************)
EXTENDS Integers, Sequences, SequencesExt

CONSTANTS
  MaxRev,         \* bound: revolutions the device makes
  SamplesPerRev,  \* samples of one revolution
  Capacity,       \* _scan_node_buffer_size
  Counts,         \* the buffer sizes callers of grabScanDataHq pass
  LossyRevs,      \* revolutions whose samples may fail their checksum and be dropped
  SpuriousWakeup, \* TRUE: pthread_cond_wait may return without a signal
  StopDrains      \* TRUE: a callback in flight ends within stop()'s delay(100)

ASSUME HolderAssumption ==
  /\ MaxRev \in Nat \ {0}
  /\ SamplesPerRev \in Nat \ {0}
  /\ Capacity \in Nat \ {0, 1}
  /\ Counts \subseteq Nat \ {0}
  /\ LossyRevs \subseteq Nat
  /\ {SpuriousWakeup, StopDrains} \subseteq BOOLEAN

VARIABLES
  scanbuffer,  \* _scanbuffer[2]
  available,   \* _scan_node_available_id
  beginTs,     \* _scan_begin_timestamp_uS[2]
  signalled,   \* _data_waiter._is_signalled
  lock,        \* holder of _locker
  enabled,     \* the unpacker's _enabled: samples are decoded
  source,      \* the next sample the device measures
  decoder,     \* where the decoder thread is in pushScanNodeData
  inflight,    \* the sample it carries
  client,      \* where the client thread is
  count,       \* the count argument of the grab in progress
  readId,      \* the buffer waitAndLockAvailableScan returned
  delivered,   \* what the last successful grab copied out
  deliveredTs  \* timestamps of the last three successful grabs, newest first

holderVars == <<scanbuffer, available, beginTs, signalled>>
decoderVars == <<source, decoder, inflight>>
grabVars == <<count, readId, delivered, deliveredTs>>
vars == <<holderVars, lock, enabled, decoderVars, client, grabVars>>

-----------------------------------------------------------------------------
Places == 0 .. SamplesPerRev - 1
Sample == [rev : Nat, place : Places]
IsSync(s) == s.place = 0

\* The buffer new samples go to: the one the reader is not given.
OperationBuffer == IF available < 0 THEN 0 ELSE 1 - available

Following(s) == IF s.place + 1 < SamplesPerRev
                THEN [s EXCEPT !.place = @ + 1]
                ELSE [rev |-> s.rev + 1, place |-> 0]

\* push_back, or the last entry replaced when the buffer is full.
Store(buf, s) == IF Len(buf) >= Capacity
                 THEN [buf EXCEPT ![Len(buf)] = s]
                 ELSE Append(buf, s)

Init ==
  /\ scanbuffer = [i \in 0 .. 1 |-> <<>>]
  /\ available = -1
  /\ beginTs = [i \in 0 .. 1 |-> 0]
  /\ signalled = FALSE
  /\ lock = "free"
  /\ enabled = FALSE
  /\ source = [rev |-> 0, place |-> 0]
  /\ decoder = "idle"
  /\ inflight = source
  /\ client = "idle"
  /\ count = 0
  /\ readId = 0
  /\ delivered = <<>>
  /\ deliveredTs = <<0, 0, 0>>

-----------------------------------------------------------------------------
(* The decoder thread *)

\* The unpacker, enabled, turns received bytes into the next sample.
DecodeSample ==
  /\ decoder = "idle" /\ enabled
  /\ source.rev <= MaxRev
  /\ inflight' = source
  /\ source' = Following(source)
  /\ decoder' = "decoded"
  /\ UNCHANGED <<holderVars, lock, enabled, client, grabVars>>

\* A packet with a wrong checksum is dropped with the samples in it.
LoseSample ==
  /\ decoder = "idle" /\ enabled
  /\ source.rev <= MaxRev /\ source.rev \in LossyRevs
  /\ source' = Following(source)
  /\ UNCHANGED <<holderVars, lock, enabled, decoder, inflight, client, grabVars>>

\* A sample before the first sync sample must not start a scan.
PushDiscard ==
  /\ decoder = "decoded" /\ lock = "free"
  /\ ~IsSync(inflight) /\ scanbuffer[OperationBuffer] = <<>>
  /\ decoder' = "idle"
  /\ UNCHANGED <<holderVars, lock, enabled, source, inflight, client, grabVars>>

\* A sync sample completes the scan so far: the buffers swap and the event
\* is set, still under the lock and before the sample is stored.
PushSync ==
  /\ decoder = "decoded" /\ lock = "free"
  /\ IsSync(inflight)
  /\ LET finished == scanbuffer[OperationBuffer] # <<>>
         next     == IF finished THEN 1 - OperationBuffer ELSE OperationBuffer
     IN /\ available' = IF finished THEN OperationBuffer ELSE available
        /\ scanbuffer' = IF finished THEN [scanbuffer EXCEPT ![next] = <<>>]
                                     ELSE scanbuffer
        /\ signalled' = (finished \/ signalled)
        /\ beginTs' = [beginTs EXCEPT ![next] = inflight.rev]
  /\ lock' = "decoder"
  /\ decoder' = "storing"
  /\ UNCHANGED <<enabled, source, inflight, client, grabVars>>

\* Mutant: a scan may begin with any sample.
PushOtherAnyTime ==
  /\ decoder = "decoded" /\ lock = "free"
  /\ ~IsSync(inflight)
  /\ lock' = "decoder"
  /\ decoder' = "storing"
  /\ UNCHANGED <<holderVars, enabled, source, inflight, client, grabVars>>

PushOther ==
  /\ decoder = "decoded" /\ lock = "free"
  /\ ~IsSync(inflight) /\ scanbuffer[OperationBuffer] # <<>>
  /\ lock' = "decoder"
  /\ decoder' = "storing"
  /\ UNCHANGED <<holderVars, enabled, source, inflight, client, grabVars>>

PushStore ==
  /\ decoder = "storing"
  /\ scanbuffer' = [scanbuffer EXCEPT ![OperationBuffer] = Store(@, inflight)]
  /\ lock' = "free"
  /\ decoder' = "idle"
  /\ UNCHANGED <<available, beginTs, signalled, enabled, source, inflight, client, grabVars>>

\* Mutant: the published scan is cleared instead of the one in progress.
RewindPublished ==
  /\ decoder = "idle" /\ enabled /\ lock = "free"
  /\ scanbuffer' = [scanbuffer EXCEPT ![1 - OperationBuffer] = <<>>]
  /\ UNCHANGED <<available, beginTs, signalled, lock, enabled, decoderVars, client, grabVars>>

\* onHQNodeScanResetReq: the device restarted its angle encoder.
RewindScan ==
  /\ decoder = "idle" /\ enabled /\ lock = "free"
  /\ scanbuffer' = [scanbuffer EXCEPT ![OperationBuffer] = <<>>]
  /\ UNCHANGED <<available, beginTs, signalled, lock, enabled, decoderVars, client, grabVars>>

Decoder == \/ DecodeSample \/ LoseSample \/ PushDiscard \/ PushSync
           \/ PushOther \/ PushStore \/ RewindScan

-----------------------------------------------------------------------------
(* The client thread: grabScanDataHqWithTimeStamp *)

GrabScan(n) ==
  /\ client = "idle"
  /\ client' = "waiting"
  /\ count' = n
  /\ UNCHANGED <<holderVars, lock, enabled, decoderVars, readId, delivered, deliveredTs>>

\* Event::wait returns EVENT_OK and resets the event.
WaitSignalled ==
  /\ client = "waiting"
  /\ signalled \/ SpuriousWakeup
  /\ signalled' = FALSE
  /\ client' = "woken"
  /\ UNCHANGED <<scanbuffer, available, beginTs, lock, enabled, decoderVars, grabVars>>

\* ETIMEDOUT is reported without looking at the event again, so it may
\* come, and leave the event set, when the event was set a moment before.
WaitTimeout ==
  /\ client = "waiting"
  /\ client' = "idle"
  /\ UNCHANGED <<holderVars, lock, enabled, decoderVars, grabVars>>

\* Mutant: the timestamp is that of the buffer read the last time.
LockScanStaleTimestamp ==
  /\ client = "woken" /\ lock = "free"
  /\ lock' = "client"
  /\ readId' = available
  /\ deliveredTs' = IF readId \in 0 .. 1
                    THEN <<beginTs[readId], deliveredTs[1], deliveredTs[2]>>
                    ELSE deliveredTs
  /\ client' = "reading"
  /\ UNCHANGED <<holderVars, enabled, decoderVars, count, delivered>>

LockScan ==
  /\ client = "woken" /\ lock = "free"
  /\ lock' = "client"
  /\ readId' = available
  /\ deliveredTs' = IF available \in 0 .. 1
                    THEN <<beginTs[available], deliveredTs[1], deliveredTs[2]>>
                    ELSE deliveredTs
  /\ client' = "reading"
  /\ UNCHANGED <<holderVars, enabled, decoderVars, count, delivered>>

\* std::copy of min(count, size) samples, then unlockScan.  Built without
\* assertions, reading buffer -1 is undefined: it is left out here, and
\* AvailableWhenReading says when it cannot happen.
CopyAndUnlock ==
  /\ client = "reading" /\ readId \in 0 .. 1
  /\ delivered' = LET scan == scanbuffer[readId]
                  IN SubSeq(scan, 1, IF count < Len(scan) THEN count ELSE Len(scan))
  /\ lock' = "free"
  /\ client' = "idle"
  /\ UNCHANGED <<holderVars, enabled, decoderVars, count, readId, deliveredTs>>

(* The client thread: stop and startScan *)

Stop ==
  /\ client = "idle"
  /\ enabled' = FALSE
  /\ UNCHANGED <<holderVars, lock, decoderVars, client, grabVars>>

\* startScan begins with a stop.
StartScan ==
  /\ client = "idle"
  /\ enabled' = FALSE
  /\ client' = "starting"
  /\ UNCHANGED <<holderVars, lock, decoderVars, grabVars>>

\* Mutant: the event keeps its signal across a reset.
ResetKeepingSignal ==
  /\ client = "starting" /\ lock = "free"
  /\ StopDrains => decoder = "idle"
  /\ available' = -1
  /\ scanbuffer' = [i \in 0 .. 1 |-> <<>>]
  /\ beginTs' = [i \in 0 .. 1 |-> 0]
  /\ client' = "enabling"
  /\ UNCHANGED <<signalled, lock, enabled, decoderVars, grabVars>>

ResetHolder ==
  /\ client = "starting" /\ lock = "free"
  /\ StopDrains => decoder = "idle"
  /\ available' = -1
  /\ scanbuffer' = [i \in 0 .. 1 |-> <<>>]
  /\ beginTs' = [i \in 0 .. 1 |-> 0]
  /\ signalled' = FALSE
  /\ client' = "enabling"
  /\ UNCHANGED <<lock, enabled, decoderVars, grabVars>>

\* The unpacker is enabled and the device told to scan: the first sample it
\* sends is any one of a revolution under way.
EnableUnpacker ==
  /\ client = "enabling"
  /\ enabled' = TRUE
  /\ \E p \in Places : source' = [rev |-> source.rev + 1, place |-> p]
  /\ client' = "idle"
  /\ UNCHANGED <<holderVars, lock, decoder, inflight, grabVars>>

Grab == WaitSignalled \/ WaitTimeout \/ LockScan \/ CopyAndUnlock

Client == \/ \E n \in Counts : GrabScan(n)
          \/ Grab
          \/ Stop \/ (source.rev < MaxRev /\ StartScan) \/ ResetHolder \/ EnableUnpacker

Next == Decoder \/ Client

Spec == Init /\ [][Next]_vars

\* The client never stays inside the holder, and the decoder, once it has
\* a sample, finishes the push: both are plain threads that block only for
\* the lock.  The lock is strongly fair to the client because the decoder
\* spends its time waiting for the next bytes of a serial line.
Fairness == /\ WF_vars(WaitSignalled \/ WaitTimeout)
            /\ SF_vars(LockScan)
            /\ WF_vars(CopyAndUnlock)
            /\ WF_vars(PushDiscard \/ PushSync \/ PushOther \/ PushStore)

FairSpec == Spec /\ Fairness

-----------------------------------------------------------------------------
(* What the holder promises *)

SampleSeq == Seq(Sample)

\* Every variable keeps its type; no buffer grows beyond its capacity.
TypeOK ==
  /\ scanbuffer \in [0 .. 1 -> SampleSeq]
  /\ \A i \in 0 .. 1 : Len(scanbuffer[i]) <= Capacity
  /\ available \in -1 .. 1
  /\ beginTs \in [0 .. 1 -> Nat]
  /\ signalled \in BOOLEAN
  /\ lock \in {"free", "decoder", "client"}
  /\ enabled \in BOOLEAN
  /\ source \in Sample /\ inflight \in Sample
  /\ decoder \in {"idle", "decoded", "storing"}
  /\ client \in {"idle", "waiting", "woken", "reading", "starting", "enabling"}
  /\ count \in Nat
  /\ readId \in -1 .. 1
  /\ delivered \in SampleSeq
  /\ deliveredTs \in Nat \X Nat \X Nat

\* The assertion in waitAndLockAvailableScan: a client that was woken and
\* took the lock finds a complete scan, whatever the decoder thread and a
\* restart of scanning did since the event was set.
AvailableWhenReading == client = "reading" => readId >= 0

\* The assertion in pushScanNodeData: a sync sample always finds the buffer
\* it opens empty, so two revolutions never share one.
SyncStartsEmptyBuffer ==
  decoder = "storing" /\ IsSync(inflight) => scanbuffer[OperationBuffer] = <<>>

\* While a client copies a scan out, no step of the decoder thread touches
\* the buffer it reads.
ReaderBufferUntouched ==
  [][client = "reading" /\ readId \in 0 .. 1 => scanbuffer'[readId] = scanbuffer[readId]]_vars

\* The samples of revolution r up to place k as the holder keeps them: all
\* of them in order, or, in a full buffer, the first ones and the very last.
Kept(r, k) ==
  [i \in 1 .. (IF k + 1 < Capacity THEN k + 1 ELSE Capacity) |->
     [rev |-> r, place |-> IF i = Capacity THEN k ELSE i - 1]]

FullScan(r) == Kept(r, SamplesPerRev - 1)

\* A lost sample spoils the scan of its own revolution and, when it is the
\* sync sample that would have ended it, the one before.
Spoilt(r) == {r, r + 1} \cap LossyRevs # {}

\* What sl_lidar_driver.h promises of grabScanDataHq: the first sample
\* delivered begins a scan, all samples belong to one complete revolution,
\* and the timestamp is that revolution's.  Lost samples break it for the
\* scans they spoil and for no other.
DeliveredIsOneRevolution ==
  client = "idle" /\ delivered # <<>> /\ ~Spoilt(deliveredTs[1])
    => IsPrefix(delivered, FullScan(deliveredTs[1]))

\* The sentence of sl_lidar_driver.h alone: all samples delivered belong to
\* one revolution.
AllFromOneRevolution ==
  \A i, j \in 1 .. Len(delivered) : delivered[i].rev = delivered[j].rev

Before(s, t) == s.rev < t.rev \/ (s.rev = t.rev /\ s.place < t.place)

\* Even when samples are lost, and a callback is overtaken by a restart,
\* a delivered scan begins with a sync sample and its samples are in the
\* order they were measured, none twice.
DeliveredInOrder ==
  delivered # <<>> =>
    /\ IsSync(delivered[1])
    /\ \A i \in 1 .. Len(delivered) - 1 : Before(delivered[i], delivered[i + 1])

\* A scan finished between the end of the wait and taking the lock is
\* delivered with its signal still pending, so it comes a second time; it
\* never comes a third time.
NeverDeliveredThrice ==
  deliveredTs[1] # 0 => ~(deliveredTs[1] = deliveredTs[2] /\ deliveredTs[2] = deliveredTs[3])

\* Across timeouts, restarts and double deliveries a grab never returns an
\* older scan than the grab before it.
NeverAnOlderScan == deliveredTs[1] >= deliveredTs[2] /\ deliveredTs[2] >= deliveredTs[3]

\* grabScanDataHq always returns: with a scan or with a timeout.
GrabReturns == client \in {"waiting", "woken", "reading"} ~> client = "idle"

\* Who holds the lock is where its program counter says, and the client
\* reads the buffer that is available.
LockInv ==
  /\ lock = "decoder" <=> decoder = "storing"
  /\ lock = "client" <=> client = "reading"
  /\ client = "reading" => readId = available

\* Why the assertion holds: a set event, or one just consumed, means a scan
\* is available.
HandoverInv ==
  /\ LockInv
  /\ signalled \/ client \in {"woken", "reading"} => available \in 0 .. 1

\* The operation buffer is empty, or lost samples have spoilt it, or it holds
\* one revolution up to some place and the sample that comes after it is s.
FilledUpTo(s) ==
  \/ scanbuffer[OperationBuffer] = <<>>
  \/ Spoilt(beginTs[OperationBuffer])
  \/ \E k \in Places :
       /\ scanbuffer[OperationBuffer] = Kept(beginTs[OperationBuffer], k)
       /\ s = Following([rev |-> beginTs[OperationBuffer], place |-> k])

\* Why a delivered scan is one revolution: the buffers hold what the device
\* measured, in order, unless samples of it were lost, and a restart finds
\* the decoder thread out of the way.
BufferInv ==
  /\ available \in 0 .. 1 => \/ Spoilt(beginTs[available])
                             \/ scanbuffer[available] = FullScan(beginTs[available])
  /\ decoder = "idle" => FilledUpTo(source)
  /\ decoder # "idle" => source = Following(inflight)
  /\ decoder = "decoded" => FilledUpTo(inflight)
  /\ decoder = "storing" =>
       IF IsSync(inflight)
       THEN /\ scanbuffer[OperationBuffer] = <<>>
            /\ beginTs[OperationBuffer] = inflight.rev
       ELSE scanbuffer[OperationBuffer] # <<>> /\ FilledUpTo(inflight)
  /\ client = "enabling" =>
       /\ ~enabled /\ decoder = "idle"
       /\ scanbuffer[OperationBuffer] = <<>>
  /\ client = "starting" => ~enabled
  /\ client = "reading" /\ readId >= 0 => deliveredTs[1] = beginTs[readId]
  /\ client # "reading" /\ delivered # <<>> =>
       Spoilt(deliveredTs[1]) \/ IsPrefix(delivered, FullScan(deliveredTs[1]))

\* Without callbacks left over after stop this is inductive, whatever samples
\* are lost and for whatever reason a wait ends.
HolderInv == TypeOK /\ LockInv /\ BufferInv

\* Why no older scan is returned: what was delivered, what is available, what
\* is being filled, the sample in flight and the next one are of revolutions
\* that never fall.
FreshInv ==
  /\ NeverAnOlderScan
  /\ deliveredTs[1] <= inflight.rev /\ inflight.rev <= source.rev
  /\ available \in 0 .. 1 => beginTs[available] \in deliveredTs[1] .. inflight.rev
  /\ scanbuffer[OperationBuffer] # <<>> \/ decoder = "storing" =>
       /\ beginTs[OperationBuffer] \in deliveredTs[1] .. inflight.rev
       /\ available \in 0 .. 1 => beginTs[available] <= beginTs[OperationBuffer]

\* The scans a lossy link can leave: some samples in the order they were
\* measured, the first of them a sync sample.
OrderedScans ==
  {s \in SeqOf([rev : 1 .. MaxRev + 1, place : Places], Capacity) :
     /\ s # <<>> /\ IsSync(s[1])
     /\ \A i \in 1 .. Len(s) - 1 : Before(s[i], s[i + 1])}

\* The sample that is pushed next.
NextPushed == IF decoder = "idle" THEN source ELSE inflight

\* Why a delivered scan is in order, also when samples are lost, waits end for
\* no reason and a callback outlives a stop: the buffers are filled in order,
\* beginning with a sync sample, and what comes next comes later.
OrderInv ==
  /\ enabled => source.rev >= 1
  /\ decoder # "idle" => inflight.rev \in 1 .. MaxRev /\ Before(inflight, source)
  /\ available \in 0 .. 1 => scanbuffer[available] \in OrderedScans
  /\ LET filled == scanbuffer[OperationBuffer]
     IN IF filled = <<>>
        THEN decoder = "storing" => IsSync(inflight)
        ELSE filled \in OrderedScans /\ Before(filled[Len(filled)], NextPushed)
  /\ client \in {"waiting", "woken", "reading"} => count \in Counts
  /\ delivered # <<>> => delivered \in OrderedScans

\* The holder implements the mailbox of complete scans: what a grab returns
\* begins the newest one that was published and not thrown away since.
Mailbox == INSTANCE ScanMailbox WITH
  Scans     <- OrderedScans,
  NoScan    <- <<>>,
  latest    <- IF available < 0 THEN <<>> ELSE scanbuffer[available],
  delivered <- delivered

MailboxSpec == Mailbox!Spec
=============================================================================
