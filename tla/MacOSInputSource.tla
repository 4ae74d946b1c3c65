-------------------------- MODULE MacOSInputSource --------------------------
(***************************************************************************)
(* The macOS source: the AppKit monitor (MacOSInputMonitor.swift), the     *)
(* delivery core (AppleDeliveryCore) and the module adapter between the    *)
(* core and the receiver (macos_backend.cpp).                              *)
(*                                                                         *)
(* Everything runs on the main thread.  One action per callback or call;   *)
(* a callback that goes on, into _drain or from a first pointer event to   *)
(* its Submit, leaves draining or held set, and nothing else runs then.    *)
(* The timer of a released monitor finds its weak reference empty, so a    *)
(* monitor takes its timers with it.                                       *)
(*                                                                         *)
(* Definitions named for a slip are not the code's; see AppleDeliveryCore. *)
(***************************************************************************)
EXTENDS Naturals

CONSTANTS Capacity, MaxSamples,
          TabletMasks,            \* what AppKit reports of a tablet in proximity
          PenReadings,            \* nonzero values of a tablet point
          AcceptPointerFallback

VARIABLES
    queue, head, size, capabilities, nextContact, nextSample, contactOpen,
    contact, batchOrdinal, sequence, started, draining, seen, seenSample,
    failure,
    receiver,                         \* Receiver is bound
    arena,                            \* Samples, the batch storage lent out
    monitor,                          \* Monitor exists
    eraser, observedTablet, observedPointer,
    retryScheduled,
    timers,                           \* retry callbacks the main queue holds
    held                              \* a captured event on its way to Submit

(* mapAppKitCapabilities and capturedEvent: what the eraser flag adds.     *)
WithEraser(values, flag) == values \union (IF flag THEN {"Eraser"} ELSE {})

Core == INSTANCE AppleDeliveryCore WITH
    Masks    <- {WithEraser(mask, flag) : mask \in TabletMasks \union {{}}, flag \in BOOLEAN},
    Readings <- {WithEraser(reading, flag) : reading \in PenReadings \union {{}}, flag \in BOOLEAN}

(* Create refuses a source without a place to retain a delivery in.        *)
ASSUME PlatformAssumption ==
    /\ Capacity \in Nat \ {0}
    /\ TabletMasks \subseteq SUBSET Core!Measured
    /\ PenReadings \subseteq SUBSET Core!Measured
    /\ AcceptPointerFallback \in BOOLEAN

core    == <<queue, head, size, capabilities, nextContact, nextSample, contactOpen,
             contact, batchOrdinal, sequence, started, draining, seen, seenSample,
             failure>>
devices == <<eraser, observedTablet, observedPointer>>
retry   == <<retryScheduled, timers>>
adapter == <<receiver, monitor>>
vars    == <<core, adapter, arena, devices, retry, held>>

Kinds   == {"Begin", "Update", "End", "Cancel"}
Nothing == [Kind |-> "Nothing", Reading |-> {}]

(* What the adapter keeps of a delivery in the storage it lends out.       *)
InputSample == [Id : Nat, Sequence : Nat, Values : SUBSET Core!Fields]
NoSample    == [Id |-> 0, Sequence |-> 0, Values |-> {}]

(* No callback is running.                                                 *)
Idle == ~draining /\ held = Nothing

-----------------------------------------------------------------------------
(* retryIfPending.                                                         *)

NeverRetries(waiting) == UNCHANGED retry

RetryWithoutGuard(waiting) ==
    IF waiting THEN retryScheduled' = TRUE /\ timers' = timers + 1 ELSE UNCHANGED retry

RetryIfPending(waiting) ==
    IF waiting /\ ~retryScheduled
    THEN retryScheduled' = TRUE /\ timers' = timers + 1
    ELSE UNCHANGED retry

(* The state of a monitor lives and dies with it, its timers included.     *)
NewMonitor ==
    /\ eraser' = FALSE /\ observedTablet' = FALSE /\ observedPointer' = FALSE
    /\ retryScheduled' = FALSE /\ timers' = 0

StartCapture == monitor' = TRUE /\ NewMonitor

(* stopAppleInputMonitor and destroyAppleInputMonitor.                     *)
StopCapture == monitor' = FALSE /\ NewMonitor

FailedKeepsMonitor == receiver' = FALSE /\ UNCHANGED <<monitor, devices, retry>>

(* Failed: the core has given up.                                          *)
Failed == receiver' = FALSE /\ StopCapture

-----------------------------------------------------------------------------
(* Start and Stop.                                                         *)

Start ==
    /\ ~receiver /\ Idle
    /\ Core!Start
    /\ receiver' = TRUE
    /\ StartCapture
    /\ UNCHANGED <<arena, held>>

(* Capture cannot start: the session opened for it is taken back.          *)
StartUnavailable ==
    /\ ~receiver /\ Idle
    /\ Core!EmptyRing
    /\ Core!ResetContact
    /\ UNCHANGED started
    /\ StopCapture
    /\ UNCHANGED <<queue, capabilities, nextContact, nextSample, draining, seen,
                   seenSample, failure, receiver, arena, held>>

Stop ==
    /\ receiver /\ Idle
    /\ Core!Stop
    /\ receiver' = FALSE
    /\ StopCapture
    /\ UNCHANGED <<arena, held>>

-----------------------------------------------------------------------------
(* Callbacks of the monitor.                                               *)

(* AppleEventSink::Submit: the core takes the event and drains, or fails.  *)
Submit(kind, reading) ==
    /\ \/ kind = "Begin" /\ (Core!BeginContact(reading) \/ Core!RestartContact(reading))
       \/ kind \in {"Update", "End"} /\ Core!ExtendContact(kind, reading)
       \/ kind = "Cancel" /\ Core!CancelContact
    /\ IF started' THEN UNCHANGED <<adapter, devices, retry>> ELSE Failed

(* The core has no contact for the event and ignores it; deliveries may be *)
(* waiting all the same.                                                   *)
SubmitIgnored(kind) ==
    /\ Core!InSession
    /\ kind # "Begin" /\ ~contactOpen
    /\ RetryIfPending(size # 0)
    /\ UNCHANGED <<core, adapter, devices>>

TabletProximity(mask, flag) ==
    /\ monitor /\ Idle
    /\ Core!ObserveDevice(WithEraser(mask, flag))
    /\ eraser' = flag
    /\ observedTablet' = TRUE
    /\ UNCHANGED <<adapter, arena, observedPointer, retry, held>>

(* A tablet point, mouseCancelled or the resignation of the application.   *)
TabletPoint(kind, reading) ==
    /\ monitor /\ Idle
    /\ Submit(kind, WithEraser(reading, eraser)) \/ SubmitIgnored(kind)
    /\ UNCHANGED <<arena, held>>

Cancelled ==
    /\ monitor /\ Idle
    /\ Submit("Cancel", {}) \/ SubmitIgnored("Cancel")
    /\ UNCHANGED <<arena, held>>

(* An ordinary pointer: the first one seen, with no tablet seen either, is *)
(* reported as the device before its event is submitted.                   *)
NoPointerYet == ~observedPointer
NoDeviceYet  == ~observedTablet /\ ~observedPointer

FirstPointer(kind) ==
    /\ monitor /\ Idle
    /\ AcceptPointerFallback
    /\ NoDeviceYet
    /\ nextSample < MaxSamples
    /\ Core!ObserveDevice({})
    /\ observedPointer' = TRUE
    /\ held' = [Kind |-> kind, Reading |-> {}]
    /\ UNCHANGED <<adapter, arena, eraser, observedTablet, retry>>

SubmitHeld ==
    /\ held # Nothing
    /\ Submit(held.Kind, held.Reading) \/ SubmitIgnored(held.Kind)
    /\ held' = Nothing
    /\ UNCHANGED arena

Pointer(kind) ==
    /\ monitor /\ Idle
    /\ AcceptPointerFallback
    /\ ~NoDeviceYet
    /\ Submit(kind, {}) \/ SubmitIgnored(kind)
    /\ UNCHANGED <<arena, held>>

TimerKeepsFlag == timers' = timers - 1 /\ UNCHANGED retryScheduled

TimerTaken == timers' = timers - 1 /\ retryScheduled' = FALSE

(* The retry callback of a live monitor.                                   *)
RetryTimer ==
    /\ timers # 0 /\ Idle
    /\ TimerTaken
    /\ \/ Core!RetryPending
       \/ size = 0 /\ UNCHANGED core
    /\ UNCHANGED <<adapter, arena, devices, held>>

-----------------------------------------------------------------------------
(* Receive of the adapter: the sample is written once into the storage of  *)
(* its slot, and lent again from there as long as the receiver is busy.    *)

Written(delivery) == [Id |-> delivery.Sample, Sequence |-> delivery.Sequence,
                      Values |-> delivery.Fields]

Lent(delivery) ==
    IF arena[delivery.Slot].Id # delivery.Sample THEN Written(delivery)
                                                 ELSE arena[delivery.Slot]

(* One call of Receive, and what _drain makes of the answer.  When the     *)
(* loop ends, the callback it was called from looks at HasPending.         *)
Receive(decision) ==
    /\ Core!Drain(decision)
    /\ arena' = IF queue[head].Sample = 0 THEN arena
                ELSE [arena EXCEPT ![queue[head].Slot] = Lent(queue[head])]
    /\ IF draining' THEN UNCHANGED retry ELSE RetryIfPending(size' # 0)
    /\ UNCHANGED <<adapter, devices, held>>

-----------------------------------------------------------------------------
Init ==
    /\ Core!Init
    /\ receiver = FALSE /\ monitor = FALSE
    /\ arena = [slot \in Core!Slots |-> NoSample]
    /\ eraser = FALSE /\ observedTablet = FALSE /\ observedPointer = FALSE
    /\ retryScheduled = FALSE /\ timers = 0
    /\ held = Nothing

Next ==
    \/ Start
    \/ StartUnavailable
    \/ Stop
    \/ \E mask \in TabletMasks, flag \in BOOLEAN : TabletProximity(mask, flag)
    \/ \E kind \in {"Begin", "Update", "End"} :
          \/ \E reading \in PenReadings : TabletPoint(kind, reading)
          \/ FirstPointer(kind)
          \/ Pointer(kind)
    \/ Cancelled
    \/ SubmitHeld
    \/ RetryTimer
    \/ \E decision \in Core!Decisions : Receive(decision)

Spec == Init /\ [][Next]_vars

(* A callback that has begun runs to its end, and the main queue runs a    *)
(* block once its delay is over.                                           *)
CallbacksReturn == /\ WF_vars(SubmitHeld)
                   /\ WF_vars(\E decision \in Core!Decisions : Receive(decision))
TimersFire      == WF_vars(RetryTimer)

(* The receiver's part: offered a batch again and again, it is not busy    *)
(* for ever.                                                               *)
ReceiverAnswers == SF_vars(Receive("Accepted") \/ Receive("Rejected"))

FairSpec == Spec /\ CallbacksReturn /\ TimersFire /\ ReceiverAnswers

-----------------------------------------------------------------------------
TypeOK ==
    /\ Core!TypeOK
    /\ receiver \in BOOLEAN /\ monitor \in BOOLEAN
    /\ arena \in [Core!Slots -> InputSample]
    /\ eraser \in BOOLEAN /\ observedTablet \in BOOLEAN /\ observedPointer \in BOOLEAN
    /\ retryScheduled \in BOOLEAN
    /\ timers \in 0 .. 1
    /\ held \in [Kind : Kinds, Reading : {{}}] \union {Nothing}

(* The three parts agree on whether there is a session, at every step of   *)
(* every callback: the core never offers a batch without a receiver, and a *)
(* failure from inside a callback leaves no monitor behind to capture for  *)
(* a receiver that is gone.                                                *)
SessionAgrees ==
    /\ started = receiver
    /\ monitor = receiver
    /\ draining \/ held # Nothing => receiver

(* Whenever deliveries wait for a busy receiver and no callback is running *)
(* there is a timer to offer them again, and never more than one.          *)
RetryArmed ==
    /\ Idle /\ size > 0 => retryScheduled
    /\ timers = IF retryScheduled THEN 1 ELSE 0

(* The sample lent to the receiver is the one of the delivery, although    *)
(* the storage of a slot is rewritten only when the identity differs: no   *)
(* sample of an earlier lap, contact or session is ever mistaken for it.   *)
LentMatchesDelivery ==
    draining /\ queue[head].Sample # 0 => Lent(queue[head]) = Written(queue[head])

(* While the eraser end is in use the source reports that it can tell the  *)
(* eraser, so no point is captured with an eraser nobody declared: neither *)
(* the pointer fallback nor a new session withdraws it.                    *)
EraserDeclared == eraser => "Eraser" \in capabilities

Waits(c, ordinal) == /\ size > 0
                     /\ queue[head].Contact = c
                     /\ queue[head].BatchOrdinal = ordinal

(* A delivery a busy receiver refused leaves the ring although no event    *)
(* ever arrives to offer it again: the receiver takes or rejects it, or    *)
(* the session ends.  A contact and an ordinal name one delivery.          *)
HeadLeaves ==
    \A c \in 1 .. MaxSamples, ordinal \in 1 .. MaxSamples + 1 :
        Waits(c, ordinal) ~> ~Waits(c, ordinal)

(* Without any promise of the receiver: what waits is offered again.       *)
WaitingIsOffered == (size > 0 /\ Idle) ~> (draining \/ size = 0)
=============================================================================
