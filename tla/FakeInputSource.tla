-------------------------- MODULE FakeInputSource --------------------------
(***************************************************************************)
(* The scripted source (source/backend_fake/fake_backend.cpp).  Enqueue    *)
(* copies a batch into a ring of slots and a flat arena of samples, once   *)
(* ValidateBatch says a device could have produced it; DispatchNext offers *)
(* the oldest batch to the receiver.  Both happen only when called, and    *)
(* calls concerning one source are serialized, so each is one step.        *)
(*                                                                         *)
(* The receiver checks what it is offered with the same ValidateBatch, as  *)
(* RecordingReceiver in tests/fake_contract.cpp does: delivered is its     *)
(* DeliveryState.  A call that returns an error and changes nothing is a   *)
(* stuttering step.                                                        *)
(*                                                                         *)
(* Definitions named for a slip are not the code's; see AppleDeliveryCore. *)
(***************************************************************************)
EXTENDS BatchValidation

CONSTANTS QueueCapacity,   \* the descriptor's MaximumQueuedBatches
          Capabilities,    \* its Capabilities
          OrdinalValues,   \* how many values a batch ordinal has, 2^64 in the code
          Batches          \* the batches a script may try to enqueue

(* The module's bound on that of a descriptor.                             *)
MaximumQueuedBatches == 1024

(* Create refuses every other descriptor.                                  *)
Creatable ==
    /\ QueueCapacity \in 1 .. MaximumQueuedBatches
    /\ Capabilities \in InputSourceCapabilities
    /\ Capabilities.MaximumBatchSamples \in 1 .. MaximumBatchSamples
    /\ "Correction" \in Capabilities.Available => "Prediction" \in Capabilities.Available

ASSUME DescriptorAssumption == Creatable

ASSUME ScriptAssumption ==
    /\ OrdinalValues \in Nat \ {0}
    /\ Batches \subseteq InputBatch
    /\ \A batch \in Batches : batch.BatchOrdinal \in 0 .. OrdinalValues - 1

VARIABLES
    slots, arena,              \* Slots, SampleStorage
    head, size,                \* QueueHead, QueueSize
    started,                   \* Receiver is bound
    failNext,                  \* FailNext
    script,                    \* Script
    deliveredContact, deliveredBatchOrdinal,
    delivered,                 \* history: the receiver's DeliveryState
    pending                    \* history: the batches enqueued and not yet gone

queue   == <<slots, arena, head, size>>
last    == <<deliveredContact, deliveredBatchOrdinal>>
history == <<delivered, pending>>
vars    == <<queue, started, failNext, script, last, history>>

Slots  == 0 .. QueueCapacity - 1
Places == 0 .. QueueCapacity * Capabilities.MaximumBatchSamples - 1

BatchSlot == [Contact : Nat, BatchOrdinal : 0 .. OrdinalValues - 1, Phase : Phases,
              SampleOffset : Places,
              SampleCount : 0 .. Capabilities.MaximumBatchSamples]

NoSample == [Id |-> 0, Corrects |-> 0, Sequence |-> 0, Time |-> 0,
             Origin |-> "Measured", Reading |-> "Sound", Values |-> {}]

TailSlot == (head + size) % QueueCapacity
HeadUnwrapped == head + 1
NextHead  == (head + 1) % QueueCapacity

-----------------------------------------------------------------------------
(* The arena: every slot owns MaximumBatchSamples places from its offset.  *)

OffsetBySlot(slot) == slot

OffsetOf(slot) == slot * Capabilities.MaximumBatchSamples

CopyFrom(offset, samples) ==
    [place \in Places |-> IF place \in offset .. offset + Len(samples) - 1
                          THEN samples[place - offset + 1] ELSE arena[place]]

(* The batch DispatchNext lends to the receiver.                           *)
Offered ==
    LET slot == slots[head] IN
    [Contact |-> slot.Contact, BatchOrdinal |-> slot.BatchOrdinal,
     Phase   |-> slot.Phase,
     Samples |-> [i \in 1 .. slot.SampleCount |-> arena[slot.SampleOffset + i - 1]]]

-----------------------------------------------------------------------------
Init ==
    /\ slots = [slot \in Slots |->
                  [Contact |-> 0, BatchOrdinal |-> 0, Phase |-> "Begin",
                   SampleOffset |-> OffsetOf(slot), SampleCount |-> 0]]
    /\ arena = [place \in Places |-> NoSample]
    /\ head = 0 /\ size = 0
    /\ started = FALSE /\ failNext = FALSE
    /\ script = Closed
    /\ deliveredContact = 0 /\ deliveredBatchOrdinal = 0
    /\ delivered = Closed /\ pending = <<>>

(* ResetDelivery.  DeliveredBatchOrdinal keeps its value.                  *)
ResetKeepsScript ==
    /\ head' = 0 /\ size' = 0
    /\ started' = FALSE /\ failNext' = FALSE
    /\ deliveredContact' = 0
    /\ delivered' = Closed /\ pending' = <<>>
    /\ UNCHANGED <<slots, arena, script, deliveredBatchOrdinal>>

ResetDelivery ==
    /\ head' = 0 /\ size' = 0
    /\ started' = FALSE /\ failNext' = FALSE
    /\ script' = Closed
    /\ deliveredContact' = 0
    /\ delivered' = Closed /\ pending' = <<>>
    /\ UNCHANGED <<slots, arena, deliveredBatchOrdinal>>

Start ==
    /\ ~started
    /\ started' = TRUE
    /\ UNCHANGED <<queue, failNext, script, last, history>>

(* The Cancel Stop offers, once, whatever the receiver answers.            *)
StopOffers ==
    IF started /\ deliveredContact # 0
    THEN {[Contact      |-> deliveredContact,
           BatchOrdinal |-> (deliveredBatchOrdinal + 1) % OrdinalValues,
           Phase        |-> "Cancel",
           Samples      |-> <<>>]}
    ELSE {}

(* Stop: what it offers is StopOffers; then the session is over, and with  *)
(* it the receiver's contact, whatever the receiver answered.              *)
Stop == ResetDelivery

Enqueue(batch) ==
    /\ size # QueueCapacity
    /\ Accepts(batch, Capabilities, script)
    /\ arena' = CopyFrom(slots[TailSlot].SampleOffset, batch.Samples)
    /\ slots' = [slots EXCEPT ![TailSlot] =
                   [Contact      |-> batch.Contact,
                    BatchOrdinal |-> batch.BatchOrdinal,
                    Phase        |-> batch.Phase,
                    SampleOffset |-> slots[TailSlot].SampleOffset,
                    SampleCount  |-> Len(batch.Samples)]]
    /\ script' = ValidateBatch(batch, Capabilities, script).State
    /\ size' = size + 1
    /\ pending' = Append(pending, batch)
    /\ UNCHANGED <<head, started, failNext, last, delivered>>

FailNext ==
    /\ failNext' = TRUE
    /\ UNCHANGED <<queue, started, script, last, history>>

(* DispatchNext reports the failure asked for before it looks at the queue.*)
DispatchFailure == started /\ failNext /\ ResetDelivery

RecordKeepsContact ==
    /\ deliveredContact' = slots[head].Contact
    /\ deliveredBatchOrdinal' = slots[head].BatchOrdinal

RecordDelivered ==
    /\ deliveredContact' = IF slots[head].Phase \in {"End", "Cancel"} THEN 0
                                                                ELSE slots[head].Contact
    /\ deliveredBatchOrdinal' = slots[head].BatchOrdinal

DiscardKeepsScript ==
    /\ head' = 0 /\ size' = 0
    /\ deliveredContact' = 0
    /\ UNCHANGED <<script, deliveredBatchOrdinal>>

(* Rejected: everything queued goes, and the script starts over.           *)
Discard ==
    /\ head' = 0 /\ size' = 0
    /\ script' = Closed
    /\ deliveredContact' = 0
    /\ UNCHANGED deliveredBatchOrdinal

(* DispatchNext with a batch to offer.  A busy receiver changes nothing.   *)
Dispatching == started /\ ~failNext /\ size # 0

DispatchAccepted ==
    /\ Dispatching
    /\ RecordDelivered
    /\ head' = NextHead
    /\ size' = size - 1
    /\ delivered' = ValidateBatch(Offered, Capabilities, delivered).State
    /\ pending' = Tail(pending)
    /\ UNCHANGED <<slots, arena, started, failNext, script>>

DispatchRejected ==
    /\ Dispatching
    /\ Discard
    /\ delivered' = Closed
    /\ pending' = <<>>
    /\ UNCHANGED <<slots, arena, started, failNext>>

Next ==
    \/ Start
    \/ Stop
    \/ \E batch \in Batches : Enqueue(batch)
    \/ FailNext
    \/ DispatchFailure
    \/ DispatchAccepted
    \/ DispatchRejected

Spec == Init /\ [][Next]_vars

-----------------------------------------------------------------------------
TypeOK ==
    /\ slots \in [Slots -> BatchSlot]
    /\ arena \in [Places -> InputSample \union {NoSample}]
    /\ head \in Slots
    /\ size \in 0 .. QueueCapacity
    /\ started \in BOOLEAN /\ failNext \in BOOLEAN
    /\ script \in DeliveryState /\ delivered \in DeliveryState
    /\ deliveredContact \in Nat
    /\ deliveredBatchOrdinal \in 0 .. OrdinalValues - 1
    /\ pending \in Seq(InputBatch)

(* Every batch the source may offer passes the public delivery rules from  *)
(* the state the receiver has reached, although it was checked against the *)
(* script, which may be several batches, a rejection or a restarted        *)
(* session further on.                                                     *)
OffersObeyRules ==
    started /\ size > 0 => Accepts(Offered, Capabilities, delivered)

(* What is offered is the oldest batch still owed, sample for sample, also *)
(* when it is offered again after Busy and the ring has wrapped since.     *)
OffersOldest ==
    /\ size = Len(pending)
    /\ size > 0 => Offered = Head(pending)

(* Stop offers a Cancel exactly when the receiver has a contact open, and  *)
(* that Cancel passes the delivery rules.                                  *)
StopCancelsDelivered ==
    [][Stop => IF delivered.ContactOpen
               THEN \E batch \in StopOffers : Accepts(batch, Capabilities, delivered)
               ELSE StopOffers = {}]_vars

(* The script stands where the receiver will stand once everything queued  *)
(* is accepted.                                                            *)
ScriptLeadsReceiver ==
    LET reached[n \in 0 .. Len(pending)] ==
            IF n = 0 THEN delivered
            ELSE ValidateBatch(pending[n], Capabilities, reached[n - 1]).State
    IN  script = reached[Len(pending)]

ReceiverView ==
    [ContactOpen |-> delivered.ContactOpen, Contact |-> delivered.Contact,
     LastBatchOrdinal |-> delivered.LastBatchOrdinal,
     LastSampleId |-> delivered.LastSampleId,
     LastCommittedSequence |-> delivered.LastCommittedSequence]

Stream == INSTANCE ContactStream WITH session <- started, view <- ReceiverView

(* A scripted source keeps the promises of every source.                   *)
ImplementsContactStream == Stream!Spec
=============================================================================
