------------------------- MODULE AppleDeliveryCore -------------------------
(***************************************************************************)
(* The bounded delivery core shared by the Apple backends                  *)
(* (source/backend_apple/apple_delivery_core.cpp).  Captured pen events    *)
(* become deliveries in a fixed ring; the ring is drained into the         *)
(* receiver synchronously, and a busy receiver keeps the head in place.    *)
(*                                                                         *)
(* One action per entry point.  A handler that ends in _drain leaves       *)
(* draining TRUE, and then only Drain steps, one per Receive call, until   *)
(* the loop returns: callers are serialized and a receiver may not call    *)
(* back (docs/ARCHITECTURE.md, API policy), so nothing else can run.       *)
(*                                                                         *)
(* Position, time and the clamped readings are abstracted; Fields keeps    *)
(* which optional values of a sample are nonzero.                          *)
(*                                                                         *)
(* A definition named for a slip (RoomBeforeEnd, DropRing, ...) is not the *)
(* code's: it stands before the one it would replace, and PROJECT.json     *)
(* names the property that tells the two apart.                            *)
(***************************************************************************)
EXTENDS Naturals

CONSTANTS Capacity,    \* _capacity: deliveries the ring can retain
          MaxSamples,  \* bound: samples captured in one behaviour
          Masks,       \* capability masks a device may report
          Readings     \* sets of optional values one captured point may have

ASSUME CapacityAssumption == Capacity \in Nat \ {0}

VARIABLES
    queue, head, size,             \* _queue, _head, _size
    capabilities,                  \* _capabilities
    nextContact, nextSample,       \* _nextContact, _nextSample
    contactOpen, contact, batchOrdinal, sequence,
    started,                       \* _started
    draining,                      \* control is inside the loop of _drain
    seen, seenSample,              \* history: what the receiver accepted
    failure                        \* history: what Failed reported

ring     == <<queue, head, size>>
counters == <<nextContact, nextSample>>
current  == <<contactOpen, contact, batchOrdinal, sequence>>
history  == <<seen, seenSample, failure>>
vars     == <<ring, capabilities, counters, current, started, draining, history>>

Phases    == {"Begin", "Update", "End", "Cancel"}
Decisions == {"Accepted", "Busy", "Rejected"}

(* The optional values whose presence alone declares their capability.     *)
Measured == {"Pressure", "Tilt", "Twist"}
Fields   == Measured \union {"Eraser"}

ASSUME DeviceAssumption == /\ \A mask \in Masks : mask \subseteq Fields
                           /\ \A reading \in Readings : reading \subseteq Fields

-----------------------------------------------------------------------------
(* The ring.                                                               *)

SlotAt(i) == (head + i) % Capacity
At(i)     == queue[SlotAt(i)]      \* the i-th pending delivery, from 0

Slots == 0 .. Capacity - 1

Delivery == [Slot : Slots, Contact : Nat, BatchOrdinal : Nat, Sample : Nat,
             Sequence : Nat, Phase : Phases, Fields : SUBSET Fields]

Point(slot, c, ordinal, seq, phase, reading) ==
    [Slot |-> slot, Contact |-> c, BatchOrdinal |-> ordinal,
     Sample |-> nextSample + 1, Sequence |-> seq, Phase |-> phase,
     Fields |-> reading]

CancellationRepeatsOrdinal(slot) ==
    [Slot |-> slot, Contact |-> contact, BatchOrdinal |-> batchOrdinal,
     Sample |-> 0, Sequence |-> 0, Phase |-> "Cancel", Fields |-> {}]

Cancellation(slot) ==
    [Slot |-> slot, Contact |-> contact, BatchOrdinal |-> batchOrdinal + 1,
     Sample |-> 0, Sequence |-> 0, Phase |-> "Cancel", Fields |-> {}]

EmptySlot == [Slot |-> 0, Contact |-> 0, BatchOrdinal |-> 0, Sample |-> 0,
              Sequence |-> 0, Phase |-> "Begin", Fields |-> {}]

(* _enqueue: whether n more deliveries fit, and storing one that does.     *)
RoomBeforeEnd(n) == head + size + n <= Capacity
Room(n)          == size + n <= Capacity

EnqueueFromZero(d) == /\ queue' = [queue EXCEPT ![size] = d]
                      /\ size' = size + 1
                      /\ head' = head

Enqueue(d) == /\ queue' = [queue EXCEPT ![SlotAt(size)] = d]
              /\ size' = size + 1
              /\ head' = head

HeadUnwrapped == head + 1
NextHead      == (head + 1) % Capacity

EmptyRing == head' = 0 /\ size' = 0

ResetKeepsSequence == /\ contactOpen' = FALSE
                      /\ contact' = 0
                      /\ batchOrdinal' = 0
                      /\ UNCHANGED sequence

ResetContact == /\ contactOpen' = FALSE
                /\ contact' = 0
                /\ batchOrdinal' = 0
                /\ sequence' = 0

-----------------------------------------------------------------------------
(* The receiver's side, as the accepted deliveries built it.  It is history *)
(* only: no guard reads it.                                                 *)

Position(d) == IF d.Phase \in {"Begin", "Update"}
               THEN [ContactOpen |-> TRUE, Contact |-> d.Contact,
                     LastBatchOrdinal |-> d.BatchOrdinal,
                     LastSequence |-> d.Sequence]
               ELSE [ContactOpen |-> FALSE, Contact |-> d.Contact,
                     LastBatchOrdinal |-> 0, LastSequence |-> 0]

Closed(s) == [ContactOpen |-> FALSE, Contact |-> s.Contact,
              LastBatchOrdinal |-> 0, LastSequence |-> 0]

(* d is the next delivery of a receiver at position s: nothing was lost,   *)
(* repeated or reordered since, and a new contact has a new identity.      *)
InSequence(s, d) ==
    /\ d.BatchOrdinal = s.LastBatchOrdinal + 1
    /\ IF d.Phase = "Begin" THEN ~s.ContactOpen /\ d.Contact > s.Contact
                            ELSE s.ContactOpen /\ d.Contact = s.Contact
    /\ d.Sequence = IF d.Phase = "Cancel" THEN 0 ELSE s.LastSequence + 1

-----------------------------------------------------------------------------
Init ==
    /\ queue = [slot \in Slots |-> EmptySlot]
    /\ head = 0 /\ size = 0
    /\ capabilities = {"Timestamp"}
    /\ nextContact = 0 /\ nextSample = 0
    /\ contactOpen = FALSE /\ contact = 0 /\ batchOrdinal = 0 /\ sequence = 0
    /\ started = FALSE
    /\ draining = FALSE
    /\ seen = [ContactOpen |-> FALSE, Contact |-> 0,
               LastBatchOrdinal |-> 0, LastSequence |-> 0]
    /\ seenSample = 0
    /\ failure = "None"

StartReusesIdentities ==
    /\ ~started
    /\ EmptyRing
    /\ ResetContact
    /\ started' = TRUE
    /\ seen' = Closed(seen)
    /\ failure' = "None"
    /\ nextContact' = 0 /\ nextSample' = 0
    /\ UNCHANGED <<queue, capabilities, draining, seenSample>>

(* Start.  The adapter refuses it while a receiver is bound; the receiver  *)
(* bound now has no contact open.                                          *)
Start ==
    /\ ~started
    /\ EmptyRing
    /\ ResetContact
    /\ started' = TRUE
    /\ seen' = Closed(seen)
    /\ failure' = "None"
    /\ UNCHANGED <<queue, capabilities, counters, draining, seenSample>>

(* What Stop offers: the core's contact, cancelled from slot 0.            *)
StopOffers == IF contactOpen THEN {Cancellation(0)} ELSE {}

(* A Cancel offered at Stop closes the receiver's contact if it names it;  *)
(* a busy receiver never sees it, because the ring is cleared all the same.*)
CloseSeen(d, decision) ==
    seen' = IF decision # "Busy" /\ seen.ContactOpen /\ seen.Contact = d.Contact
            THEN Closed(seen) ELSE seen

(* Stop.  Its one Receive call cannot leave anything behind, so the whole  *)
(* handler is one step.                                                    *)
Stop ==
    /\ started /\ ~draining
    /\ \/ /\ contactOpen
          /\ queue' = [queue EXCEPT ![0] = Cancellation(0)]
          /\ \E decision \in Decisions : CloseSeen(Cancellation(0), decision)
       \/ /\ ~contactOpen
          /\ UNCHANGED <<queue, seen>>
    /\ EmptyRing
    /\ ResetContact
    /\ started' = FALSE
    /\ UNCHANGED <<capabilities, counters, draining, seenSample, failure>>

(* _fail(Overflow): the session ends and the receiver is told.             *)
Fail ==
    /\ EmptyRing
    /\ ResetContact
    /\ started' = FALSE
    /\ failure' = "Overflow"
    /\ seen' = Closed(seen)
    /\ UNCHANGED <<draining, seenSample>>

(* The handler was able to queue what it had to, and drains.               *)
ThenDrain == draining' = TRUE /\ UNCHANGED <<started, history>>

-----------------------------------------------------------------------------
(* _submit, one action per kind of event.  Events outside a session, and   *)
(* Cancel, Update or End outside a contact, are ignored.                   *)

InSession == started /\ ~draining

ObserveDevice(mask) ==
    /\ InSession
    /\ capabilities' = mask \union {"Timestamp"}
    /\ UNCHANGED <<ring, counters, current, started, draining, history>>

CancelContact ==
    /\ InSession
    /\ contactOpen
    /\ \/ /\ Room(1)
          /\ Enqueue(Cancellation(SlotAt(size)))
          /\ ResetContact
          /\ ThenDrain
       \/ /\ ~Room(1)
          /\ Fail
          /\ UNCHANGED queue
    /\ UNCHANGED <<capabilities, counters>>

(* A captured point takes the next sample identity, and its nonzero values *)
(* declare their capabilities, even when the ring turns out to be full.    *)
Capture(reading) ==
    /\ InSession
    /\ nextSample < MaxSamples
    /\ nextSample' = nextSample + 1
    /\ capabilities' = capabilities \union (reading \intersect Measured)

OpenContactAtZero == /\ contactOpen' = TRUE
                     /\ contact' = nextContact + 1
                     /\ batchOrdinal' = 0
                     /\ sequence' = 0

OpenContact == /\ contactOpen' = TRUE
               /\ contact' = nextContact + 1
               /\ batchOrdinal' = 1
               /\ sequence' = 1

BeginContact(reading) ==
    /\ ~contactOpen
    /\ Capture(reading)
    /\ nextContact' = nextContact + 1
    /\ \/ /\ Room(1)
          /\ Enqueue(Point(SlotAt(size), nextContact + 1, 1, 1, "Begin", reading))
          /\ OpenContact
          /\ ThenDrain
       \/ /\ ~Room(1)
          /\ Fail
          /\ UNCHANGED queue

(* Begin while a contact is open: the old contact is cancelled first, and  *)
(* either of the two deliveries may find the ring full.                    *)
RestartContact(reading) ==
    /\ contactOpen
    /\ \/ /\ Room(2)
          /\ Capture(reading)
          /\ nextContact' = nextContact + 1
          /\ queue' = [queue EXCEPT
                ![SlotAt(size)] = Cancellation(SlotAt(size)),
                ![SlotAt(size + 1)] =
                    Point(SlotAt(size + 1), nextContact + 1, 1, 1, "Begin", reading)]
          /\ size' = size + 2
          /\ head' = head
          /\ OpenContact
          /\ ThenDrain
       \/ /\ Room(1) /\ ~Room(2)
          /\ Capture(reading)
          /\ nextContact' = nextContact + 1
          /\ queue' = [queue EXCEPT ![SlotAt(size)] = Cancellation(SlotAt(size))]
          /\ Fail
       \/ /\ ~Room(1)
          /\ InSession
          /\ Fail
          /\ UNCHANGED <<queue, capabilities, counters>>

ExtendContact(phase, reading) ==
    /\ contactOpen
    /\ Capture(reading)
    /\ UNCHANGED nextContact
    /\ \/ /\ Room(1)
          /\ Enqueue(Point(SlotAt(size), contact, batchOrdinal + 1, sequence + 1,
                           phase, reading))
          /\ \/ /\ phase = "End"
                /\ ResetContact
             \/ /\ phase = "Update"
                /\ batchOrdinal' = batchOrdinal + 1
                /\ sequence' = sequence + 1
                /\ UNCHANGED <<contactOpen, contact>>
          /\ ThenDrain
       \/ /\ ~Room(1)
          /\ Fail
          /\ UNCHANGED queue

DropRing == EmptyRing /\ UNCHANGED current

(* Rejected: everything pending goes, and so does the core's contact.      *)
Discard == EmptyRing /\ ResetContact

(* RetryPending enters the same loop.                                      *)
RetryPending ==
    /\ InSession
    /\ size # 0
    /\ draining' = TRUE
    /\ UNCHANGED <<ring, capabilities, counters, current, started, history>>

(* One turn of the loop of _drain: offer the head to the receiver.         *)
Drain(decision) ==
    /\ draining
    /\ \/ /\ decision = "Accepted"
          /\ head' = NextHead
          /\ size' = size - 1
          /\ draining' = (size > 1)
          /\ seen' = Position(queue[head])
          /\ seenSample' = IF queue[head].Sample = 0 THEN seenSample
                                                     ELSE queue[head].Sample
          /\ UNCHANGED <<current>>
       \/ /\ decision = "Busy"
          /\ draining' = FALSE
          /\ UNCHANGED <<head, size, current, seen, seenSample>>
       \/ /\ decision = "Rejected"
          /\ Discard
          /\ draining' = FALSE
          /\ seen' = Closed(seen)
          /\ UNCHANGED seenSample
    /\ UNCHANGED <<queue, capabilities, counters, started, failure>>

Next ==
    \/ Start
    \/ Stop
    \/ \E mask \in Masks : ObserveDevice(mask)
    \/ CancelContact
    \/ \E reading \in Readings :
          \/ BeginContact(reading)
          \/ RestartContact(reading)
          \/ \E phase \in {"Update", "End"} : ExtendContact(phase, reading)
    \/ RetryPending
    \/ \E decision \in Decisions : Drain(decision)

Spec == Init /\ [][Next]_vars

-----------------------------------------------------------------------------
(* Every variable has the type its member has in apple_delivery_core.h.    *)
TypeOK ==
    /\ queue \in [Slots -> Delivery]
    /\ head \in Slots
    /\ size \in 0 .. Capacity
    /\ capabilities \in SUBSET (Fields \union {"Timestamp"})
    /\ nextContact \in Nat /\ nextSample \in Nat
    /\ contactOpen \in BOOLEAN
    /\ contact \in Nat /\ batchOrdinal \in Nat /\ sequence \in Nat
    /\ started \in BOOLEAN
    /\ draining \in BOOLEAN
    /\ seen \in [ContactOpen : BOOLEAN, Contact : Nat,
                 LastBatchOrdinal : Nat, LastSequence : Nat]
    /\ seenSample \in Nat
    /\ failure \in {"None", "Overflow"}

(* Whatever _drain offers, across busy retries, overflow, rejection and    *)
(* restarted sessions, is exactly the next delivery the receiver can take: *)
(* no captured event is skipped, repeated or reordered, a contact is never *)
(* opened inside another nor extended after it was abandoned, and contact  *)
(* and sample identities are never reused by the source.                   *)
OffersInSequence ==
    size > 0 => LET d == queue[head] IN
        /\ InSequence(seen, d)
        /\ IF d.Phase = "Cancel" THEN d.Sample = 0 ELSE d.Sample > seenSample

(* As long as the receiver takes nothing and something is pending, the     *)
(* head of the ring stays the same delivery in the same slot: a busy retry *)
(* offers the identical batch, whatever was captured in between.           *)
BusyRetainsHead ==
    [][size > 0 /\ size' > 0 /\ UNCHANGED <<seen, seenSample>>
       => queue'[head'] = queue[head] /\ head' = head]_vars

(* Stop with nothing pending offers a Cancel if and only if the receiver   *)
(* has a contact open, and then for that contact with its next ordinal.    *)
DrainedStopCancelsSeen ==
    [][Stop /\ size = 0
       => IF seen.ContactOpen
          THEN StopOffers # {} /\ \A d \in StopOffers : InSequence(seen, d)
          ELSE StopOffers = {}]_vars

(* Overflow is reported only while the receiver keeps a delivery waiting   *)
(* (InputSourceError::Overflow, source/phi/source.cppm).  A restarted      *)
(* contact needs two slots at once, so this takes a ring of two or more.   *)
OverflowOnlyWhileBusy ==
    [][failure = "None" /\ failure' = "Overflow" => size > 0]_vars

(* Stop delivers one empty Cancel for the contact the receiver has seen    *)
(* open (docs/ARCHITECTURE.md, the fake source "as the macOS source does").*)
(* The core cancels its own contact instead, which with a backlog may be   *)
(* one the receiver never saw, and is none when an End is still pending.   *)
StopCancelsSeen ==
    [][Stop => IF seen.ContactOpen
               THEN \E d \in StopOffers : d.Contact = seen.Contact
               ELSE StopOffers = {}]_vars

(* The receiver's DeliveryState, as the history tells it.                  *)
ReceiverView ==
    IF seen.ContactOpen
    THEN [ContactOpen |-> TRUE, Contact |-> seen.Contact,
          LastBatchOrdinal |-> seen.LastBatchOrdinal,
          LastSampleId |-> seenSample,
          LastCommittedSequence |-> seen.LastSequence]
    ELSE [ContactOpen |-> FALSE, Contact |-> 0, LastBatchOrdinal |-> 0,
          LastSampleId |-> 0, LastCommittedSequence |-> 0]

Stream == INSTANCE ContactStream WITH session <- started, view <- ReceiverView

(* Every behaviour of the core is one the source contract allows: what the *)
(* receiver accepts opens, extends and closes one contact at a time, and   *)
(* only inside a session.                                                  *)
ImplementsContactStream == Stream!Spec

-----------------------------------------------------------------------------
(* The inductive invariant behind the properties above, by named parts.    *)

(* The receiver's position once it accepts the first i pending deliveries. *)
After(i) == IF i = 0 THEN seen ELSE Position(At(i - 1))

SessionInv ==
    /\ draining => started /\ size > 0
    /\ ~started => size = 0 /\ ~contactOpen
    /\ ~contactOpen => contact = 0 /\ batchOrdinal = 0 /\ sequence = 0

(* Every pending delivery follows the one before it.                       *)
PendingInv ==
    \A i \in 0 .. size - 1 :
        /\ At(i).Slot = SlotAt(i)
        /\ At(i).Contact <= nextContact
        /\ InSequence(After(i), At(i))

SamplesInv ==
    /\ seenSample <= nextSample
    /\ \A i \in 0 .. size - 1 :
        /\ At(i).Sample <= nextSample
        /\ IF At(i).Phase = "Cancel" THEN At(i).Sample = 0
                                     ELSE At(i).Sample > seenSample
        /\ \A j \in 0 .. i - 1 :
              At(i).Phase # "Cancel" => At(j).Sample < At(i).Sample

(* The contact the core holds open is the one the receiver will have open  *)
(* once it has taken everything pending.                                   *)
CoreAheadInv ==
    /\ seen.Contact <= nextContact
    /\ seen.ContactOpen => seen.Contact # 0 /\ seenSample # 0
    /\ ~seen.ContactOpen => seen.LastBatchOrdinal = 0 /\ seen.LastSequence = 0
    /\ started =>
        /\ After(size).ContactOpen = contactOpen
        /\ contactOpen => After(size) =
              [ContactOpen |-> TRUE, Contact |-> contact,
               LastBatchOrdinal |-> batchOrdinal, LastSequence |-> sequence]

IndInv == TypeOK /\ SessionInv /\ PendingInv /\ SamplesInv /\ CoreAheadInv
=============================================================================
