----------------------- MODULE MacOSInputSourceProofs -----------------------
(***************************************************************************)
(* Theorems about the macOS source, for every capacity, every tablet and   *)
(* every order of callbacks.  Each of its steps is a step of its core or   *)
(* leaves the core alone, so what is proved of the core holds in it; the   *)
(* rest is about the monitor, the timer and the storage of the adapter.    *)
(***************************************************************************)
EXTENDS MacOSInputSource, TLAPS

(* The core once more, with its theorems.                                  *)
Proved == INSTANCE AppleDeliveryCoreProofs WITH
    Masks    <- {WithEraser(mask, flag) : mask \in TabletMasks \union {{}},
                                          flag \in BOOLEAN},
    Readings <- {WithEraser(reading, flag) : reading \in PenReadings \union {{}},
                                             flag \in BOOLEAN}

(* Both instances of the core are the same.                                *)
LEMMA SameInit == Core!Init = Proved!Init
BY DEF Core!Init, Proved!Init, Core!Slots, Proved!Slots, Core!EmptySlot, Proved!EmptySlot

LEMMA SameNext == Core!Next = Proved!Next
BY DEF Core!Next, Proved!Next, Core!Start, Proved!Start, Core!Stop, Proved!Stop,
       Core!ObserveDevice, Proved!ObserveDevice, Core!CancelContact, Proved!CancelContact,
       Core!BeginContact, Proved!BeginContact, Core!RestartContact, Proved!RestartContact,
       Core!ExtendContact, Proved!ExtendContact, Core!RetryPending, Proved!RetryPending,
       Core!Drain, Proved!Drain, Core!InSession, Proved!InSession,
       Core!Capture, Proved!Capture, Core!OpenContact, Proved!OpenContact,
       Core!ThenDrain, Proved!ThenDrain, Core!Fail, Proved!Fail,
       Core!Discard, Proved!Discard, Core!CloseSeen, Proved!CloseSeen,
       Core!EmptyRing, Proved!EmptyRing, Core!ResetContact, Proved!ResetContact,
       Core!Room, Proved!Room, Core!Enqueue, Proved!Enqueue, Core!SlotAt, Proved!SlotAt,
       Core!NextHead, Proved!NextHead, Core!Point, Proved!Point,
       Core!Cancellation, Proved!Cancellation, Core!Position, Proved!Position,
       Core!Closed, Proved!Closed, Core!Measured, Proved!Measured,
       Core!Decisions, Proved!Decisions, Core!ring, Proved!ring,
       Core!counters, Proved!counters, Core!current, Proved!current,
       Core!history, Proved!history

LEMMA SameVars == Core!vars = Proved!vars /\ Core!vars' = Proved!vars'
BY DEF Core!vars, Proved!vars, Core!ring, Proved!ring, Core!counters, Proved!counters,
       Core!current, Proved!current, Core!history, Proved!history

LEMMA SameInv == Core!IndInv = Proved!IndInv /\ Core!IndInv' = Proved!IndInv'
BY DEF Core!IndInv, Proved!IndInv, Core!TypeOK, Proved!TypeOK,
       Core!SessionInv, Proved!SessionInv, Core!PendingInv, Proved!PendingInv,
       Core!SamplesInv, Proved!SamplesInv, Core!CoreAheadInv, Proved!CoreAheadInv,
       Core!At, Proved!At, Core!SlotAt, Proved!SlotAt, Core!After, Proved!After,
       Core!InSequence, Proved!InSequence, Core!Position, Proved!Position,
       Core!Slots, Proved!Slots, Core!Delivery, Proved!Delivery,
       Core!Fields, Proved!Fields, Core!Phases, Proved!Phases,
       Core!Measured, Proved!Measured

(* The core is used as its theorems assume.                                *)
LEMMA DeviceKnown == Proved!CapacityAssumption /\ Proved!DeviceAssumption
<1>1. ASSUME NEW values \in SUBSET Core!Measured, NEW flag \in BOOLEAN
      PROVE  WithEraser(values, flag) \subseteq Proved!Fields
  BY DEF WithEraser, Core!Measured, Proved!Measured, Proved!Fields
<1>2. Proved!CapacityAssumption
  BY PlatformAssumption DEF Proved!CapacityAssumption
<1>3. /\ TabletMasks \union {{}} \subseteq SUBSET Core!Measured
      /\ PenReadings \union {{}} \subseteq SUBSET Core!Measured
  BY PlatformAssumption
<1>4. Proved!DeviceAssumption
  BY <1>1, <1>3 DEF Proved!DeviceAssumption
<1> QED
  BY <1>2, <1>4

(* The core's invariant, carried over.                                     *)
LEMMA CoreInit == Core!Init => Core!IndInv
BY DeviceKnown, SameInit, SameInv, Proved!InvInit
   DEF Proved!CapacityAssumption, Proved!DeviceAssumption

LEMMA CoreInvStep == Core!IndInv /\ [Core!Next]_(Core!vars) => Core!IndInv'
BY DeviceKnown, SameInv, SameNext, SameVars, Proved!InvStep
   DEF Proved!CapacityAssumption, Proved!DeviceAssumption

-----------------------------------------------------------------------------
(* The inductive invariant.                                                *)

(* Outside a session the ring stands as Stop leaves it.                    *)
RestInv == ~started => head = 0

(* What a slot of the ring and the storage of the same slot hold: a stored *)
(* sample has the identity of the slot's delivery only if it is that       *)
(* sample, and the next capture gets an identity neither has.              *)
StorageInv ==
    \A slot \in Core!Slots :
        /\ arena[slot].Id <= nextSample
        /\ queue[slot].Sample <= nextSample
        /\ queue[slot].Sample # 0 => queue[slot].Slot = slot
        /\ queue[slot].Sample # 0 /\ arena[slot].Id = queue[slot].Sample
           => arena[slot] = Written(queue[slot])

(* The pointer fallback is for a device nobody reported: the eraser end of *)
(* a tablet was seen in proximity.                                         *)
EraserInv == EraserDeclared /\ (eraser => observedTablet)

SourceInv ==
    /\ TypeOK
    /\ Core!IndInv
    /\ RestInv
    /\ SessionAgrees
    /\ RetryArmed
    /\ StorageInv
    /\ EraserInv

LEMMA SourceInit == Init => SourceInv
<1> SUFFICES ASSUME Init PROVE SourceInv
  OBVIOUS
<1>1. Core!IndInv
  BY CoreInit DEF Init
<1>2. Core!TypeOK
  BY <1>1 DEF Core!IndInv
<1>3. arena \in [Core!Slots -> InputSample]
  BY DEF Init, NoSample, InputSample
<1>4. TypeOK
  <2>1. /\ receiver \in BOOLEAN /\ monitor \in BOOLEAN
        /\ eraser \in BOOLEAN /\ observedTablet \in BOOLEAN /\ observedPointer \in BOOLEAN
        /\ retryScheduled \in BOOLEAN
    BY DEF Init
  <2>2. timers \in 0 .. 1 /\ held \in [Kind : Kinds, Reading : {{}}] \union {Nothing}
    BY DEF Init
  <2> QED
    BY <1>2, <1>3, <2>1, <2>2 DEF TypeOK
<1>5. RestInv /\ SessionAgrees /\ RetryArmed /\ EraserInv
  <2>1. RestInv /\ RetryArmed
    BY DEF Init, Core!Init, RestInv, RetryArmed
  <2>2. SessionAgrees
    BY DEF Init, Core!Init, SessionAgrees
  <2>3. EraserInv
    BY DEF Init, EraserInv, EraserDeclared
  <2> QED
    BY <2>1, <2>2, <2>3
<1>6. StorageInv
  BY DEF Init, Core!Init, Core!EmptySlot, NoSample, StorageInv
<1> QED
  BY <1>1, <1>4, <1>5, <1>6 DEF SourceInv

-----------------------------------------------------------------------------
(* What Submit makes of the core.                                          *)

(* A delivery put into the ring is a Cancel or carries the identity just   *)
(* given, in the slot it names.                                            *)
Stored ==
    \A slot \in Core!Slots :
        \/ queue'[slot] = queue[slot]
        \/ queue'[slot].Sample = 0
        \/ /\ queue'[slot].Sample = nextSample'
           /\ nextSample' = nextSample + 1
           /\ queue'[slot].Slot = slot

(* It drains what it queued, or the session is over.                       *)
DrainsOrFails ==
    \/ /\ draining' = TRUE /\ started' = started
       /\ UNCHANGED <<adapter, devices, retry>>
    \/ /\ draining' = FALSE /\ started' = FALSE
       /\ head' = 0 /\ size' = 0
       /\ Failed

LEMMA SubmitStored ==
    ASSUME Core!TypeOK, NEW kind, NEW reading, Submit(kind, reading)
    PROVE  /\ Stored
           /\ nextSample <= nextSample'
           /\ capabilities \subseteq capabilities'
<1> USE DEF Core!Room, Core!Enqueue, Core!Fail, Core!Capture, Core!Point, Core!Cancellation,
        Core!TypeOK
<1>1. CASE Core!BeginContact(reading)
  BY <1>1 DEF Core!BeginContact, Stored
<1>2. CASE Core!RestartContact(reading)
  <2>1. CASE Core!Room(2) /\ queue' # queue
    <3> DEFINE p == Core!Point(Core!SlotAt(size + 1), nextContact + 1, 1, 1,
                               "Begin", reading)
               c == Core!Cancellation(Core!SlotAt(size))
    <3>1. /\ queue' = [queue EXCEPT ![Core!SlotAt(size)] = c, ![Core!SlotAt(size + 1)] = p]
          /\ nextSample' = nextSample + 1
          /\ capabilities \subseteq capabilities'
      BY <1>2, <2>1 DEF Core!RestartContact, Core!counters
    <3>2. c.Sample = 0 /\ p.Sample = nextSample + 1 /\ p.Slot = Core!SlotAt(size + 1)
      OBVIOUS
    <3>3. queue \in [Core!Slots -> Core!Delivery] /\ nextSample \in Nat
      OBVIOUS
    <3> HIDE DEF c, p
    <3>4. Stored
      BY <3>1, <3>2, <3>3 DEF Stored
    <3>5. nextSample <= nextSample'
      BY <3>1, <3>3
    <3> QED
      BY <3>1, <3>4, <3>5
  <2>2. CASE ~Core!Room(2) \/ queue' = queue
    BY <1>2, <2>2 DEF Core!RestartContact, Core!counters, Stored
  <2> QED
    BY <2>1, <2>2
<1>3. CASE Core!ExtendContact(kind, reading)
  <2>1. CASE Core!Room(1)
    <3> DEFINE p == Core!Point(Core!SlotAt(size), contact, batchOrdinal + 1,
                               sequence + 1, kind, reading)
    <3>1. /\ queue' = [queue EXCEPT ![Core!SlotAt(size)] = p]
          /\ nextSample' = nextSample + 1
          /\ capabilities \subseteq capabilities'
      BY <1>3, <2>1 DEF Core!ExtendContact
    <3>2. p.Sample = nextSample + 1 /\ p.Slot = Core!SlotAt(size)
      OBVIOUS
    <3>3. queue \in [Core!Slots -> Core!Delivery] /\ nextSample \in Nat
      OBVIOUS
    <3> HIDE DEF p
    <3>4. Stored
      BY <3>1, <3>2, <3>3 DEF Stored
    <3>5. nextSample <= nextSample'
      BY <3>1, <3>3
    <3> QED
      BY <3>1, <3>4, <3>5
  <2>2. CASE ~Core!Room(1)
    <3>1. /\ queue' = queue /\ nextSample' = nextSample + 1
          /\ capabilities \subseteq capabilities'
      BY <1>3, <2>2 DEF Core!ExtendContact
    <3>2. nextSample <= nextSample'
      BY <3>1
    <3> QED
      BY <3>1, <3>2 DEF Stored
  <2> QED
    BY <2>1, <2>2
<1>4. CASE Core!CancelContact
  BY <1>4 DEF Core!CancelContact, Core!counters, Stored
<1> QED
  BY <1>1, <1>2, <1>3, <1>4 DEF Submit

LEMMA SubmitEnds ==
    ASSUME Core!TypeOK, NEW kind, NEW reading, Submit(kind, reading)
    PROVE  started /\ ~draining /\ DrainsOrFails
<1> DEFINE Ends == \/ draining' = TRUE /\ started' = started
                   \/ /\ draining' = draining /\ started' = FALSE
                      /\ head' = 0 /\ size' = 0
<1> USE DEF Core!Capture, Core!InSession, Core!ThenDrain, Core!Fail, Core!EmptyRing
<1>1. ASSUME Core!BeginContact(reading) PROVE Core!InSession /\ Ends
  BY <1>1 DEF Core!BeginContact
<1>2. ASSUME Core!RestartContact(reading) PROVE Core!InSession /\ Ends
  BY <1>2 DEF Core!RestartContact
<1>3. ASSUME Core!ExtendContact(kind, reading) PROVE Core!InSession /\ Ends
  BY <1>3 DEF Core!ExtendContact
<1>4. ASSUME Core!CancelContact PROVE Core!InSession /\ Ends
  BY <1>4 DEF Core!CancelContact
<1>5. Core!InSession /\ Ends
  BY <1>1, <1>2, <1>3, <1>4 DEF Submit
<1>6. IF started' THEN UNCHANGED <<adapter, devices, retry>> ELSE Failed
  BY DEF Submit
<1>7. started /\ ~draining
  BY <1>5
<1>8. CASE draining' = TRUE /\ started' = started
  <2>1. started'
    BY <1>7, <1>8
  <2> QED
    BY <1>6, <1>7, <1>8, <2>1 DEF DrainsOrFails
<1>9. CASE draining' = draining /\ started' = FALSE /\ head' = 0 /\ size' = 0
  <2>1. draining' = FALSE /\ ~started'
    BY <1>7, <1>9 DEF Core!TypeOK
  <2> QED
    BY <1>6, <1>7, <1>9, <2>1 DEF DrainsOrFails
<1> QED
  BY <1>5, <1>8, <1>9

-----------------------------------------------------------------------------
(* The steps of the source, those that submit an event taken together.     *)

Values == {WithEraser(reading, flag) : reading \in PenReadings \union {{}},
                                       flag \in BOOLEAN}

Submitting(kind, reading) == Submit(kind, reading) /\ arena' = arena /\ held' = Nothing
Ignoring(kind)            == SubmitIgnored(kind) /\ arena' = arena /\ held' = Nothing

Steps ==
    \/ Start
    \/ StartUnavailable
    \/ Stop
    \/ \E mask \in TabletMasks, flag \in BOOLEAN : TabletProximity(mask, flag)
    \/ \E kind \in Kinds : FirstPointer(kind)
    \/ \E kind \in Kinds, reading \in Values : Submitting(kind, reading)
    \/ \E kind \in Kinds : Ignoring(kind)
    \/ RetryTimer
    \/ \E decision \in Core!Decisions : Receive(decision)
    \/ UNCHANGED vars

LEMMA NextIsStep == TypeOK /\ [Next]_vars => Steps
<1> SUFFICES ASSUME TypeOK, [Next]_vars PROVE Steps
  OBVIOUS
<1>1. {} \in Values
  <2>1. WithEraser({}, FALSE) = {}
    BY DEF WithEraser
  <2>2. ASSUME NEW none \in PenReadings \union {{}}, NEW flag \in BOOLEAN
        PROVE  WithEraser(none, flag) \in Values
    BY DEF Values
  <2> QED
    BY <2>1, <2>2
<1>2. ASSUME NEW kind \in {"Begin", "Update", "End"}, NEW reading \in PenReadings,
             TabletPoint(kind, reading)
      PROVE  Steps
  <2>1. WithEraser(reading, eraser) \in Values
    BY DEF Values, TypeOK
  <2>2. kind \in Kinds
    BY DEF Kinds
  <2>3. \/ Submitting(kind, WithEraser(reading, eraser))
        \/ Ignoring(kind)
    BY <1>2 DEF TabletPoint, Idle, Submitting, Ignoring
  <2> QED
    BY <2>1, <2>2, <2>3 DEF Steps
<1>3. ASSUME NEW kind \in {"Begin", "Update", "End"}, Pointer(kind)
      PROVE  Steps
  <2>1. kind \in Kinds
    BY DEF Kinds
  <2>2. Submitting(kind, {}) \/ Ignoring(kind)
    BY <1>3 DEF Pointer, Idle, Submitting, Ignoring
  <2> QED
    BY <1>1, <2>1, <2>2 DEF Steps
<1>4. ASSUME NEW kind \in {"Begin", "Update", "End"}, FirstPointer(kind)
      PROVE  Steps
  BY <1>4 DEF Kinds, Steps
<1>5. CASE Cancelled
  <2>1. Submitting("Cancel", {}) \/ Ignoring("Cancel")
    BY <1>5 DEF Cancelled, Idle, Submitting, Ignoring
  <2> QED
    BY <1>1, <2>1 DEF Kinds, Steps
<1>6. CASE SubmitHeld
  <2>1. held.Kind \in Kinds /\ held.Reading = {}
    BY <1>6 DEF SubmitHeld, TypeOK
  <2>2. Submitting(held.Kind, {}) \/ Ignoring(held.Kind)
    BY <1>6, <2>1 DEF SubmitHeld, Submitting, Ignoring
  <2> QED
    BY <1>1, <2>1, <2>2 DEF Steps
<1> QED
  BY <1>2, <1>3, <1>4, <1>5, <1>6 DEF Next, Steps

(* Every step of the source is a step of its core, or leaves it alone.     *)
LEMMA SourceStepsCore == SourceInv /\ Steps => [Core!Next]_(Core!vars)
<1> SUFFICES ASSUME SourceInv, Steps PROVE [Core!Next]_(Core!vars)
  OBVIOUS
<1>1. CASE Start
  BY <1>1 DEF Start, Core!Next
<1>2. CASE StartUnavailable
  <2>1. ~started /\ size = 0 /\ ~contactOpen /\ head = 0
    BY <1>2 DEF StartUnavailable, SourceInv, SessionAgrees, RestInv, Core!IndInv,
                Core!SessionInv
  <2>2. contactOpen = FALSE
    BY <2>1 DEF SourceInv, Core!IndInv, Core!TypeOK
  <2>3. contact = 0 /\ batchOrdinal = 0 /\ sequence = 0
    BY <2>1 DEF SourceInv, Core!IndInv, Core!SessionInv
  <2>4. UNCHANGED Core!vars
    BY <1>2, <2>1, <2>2, <2>3
       DEF StartUnavailable, Core!EmptyRing, Core!ResetContact, Core!vars, Core!ring,
           Core!counters, Core!current, Core!history
  <2> QED
    BY <2>4
<1>3. CASE Stop
  BY <1>3 DEF Stop, Core!Next
<1>4. ASSUME NEW mask \in TabletMasks, NEW flag \in BOOLEAN, TabletProximity(mask, flag)
      PROVE  [Core!Next]_(Core!vars)
  BY <1>4 DEF TabletProximity, Core!Next
<1>5. ASSUME NEW kind \in Kinds, FirstPointer(kind)
      PROVE  [Core!Next]_(Core!vars)
  <2>1. WithEraser({}, FALSE) = {}
    BY DEF WithEraser
  <2>2. ASSUME NEW none \in TabletMasks \union {{}}, NEW flag \in BOOLEAN,
               Core!ObserveDevice(WithEraser(none, flag))
        PROVE  Core!Next
    BY <2>2 DEF Core!Next
  <2>3. Core!ObserveDevice({})
    BY <1>5 DEF FirstPointer
  <2> QED
    BY <2>1, <2>2, <2>3
<1>6. ASSUME NEW kind \in Kinds, NEW reading \in Values, Submitting(kind, reading)
      PROVE  [Core!Next]_(Core!vars)
  BY <1>6 DEF Submitting, Submit, Values, Core!Next
<1>7. ASSUME NEW kind \in Kinds, Ignoring(kind)
      PROVE  [Core!Next]_(Core!vars)
  BY <1>7 DEF Ignoring, SubmitIgnored, core, Core!vars, Core!ring, Core!counters,
              Core!current, Core!history
<1>8. CASE RetryTimer
  BY <1>8 DEF RetryTimer, Core!Next, core, Core!vars, Core!ring, Core!counters,
              Core!current, Core!history
<1>9. ASSUME NEW decision \in Core!Decisions, Receive(decision)
      PROVE  [Core!Next]_(Core!vars)
  BY <1>9 DEF Receive, Core!Next
<1>10. CASE UNCHANGED vars
  BY <1>10 DEF vars, core, Core!vars, Core!ring, Core!counters, Core!current, Core!history
<1> QED
  BY <1>1, <1>2, <1>3, <1>4, <1>5, <1>6, <1>7, <1>8, <1>9, <1>10 DEF Steps

(* The three parts keep agreeing on the session.                           *)
LEMMA SessionStep == SourceInv /\ Steps => SessionAgrees' /\ RestInv'
<1> SUFFICES ASSUME SourceInv, Steps PROVE SessionAgrees' /\ RestInv'
  OBVIOUS
<1> USE DEF SourceInv, SessionAgrees, RestInv, Idle
<1>1. CASE Start
  BY <1>1 DEF Start, StartCapture, Core!Start
<1>2. CASE StartUnavailable
  <2>1. RestInv'
    BY <1>2 DEF StartUnavailable, Core!EmptyRing
  <2>2. receiver = FALSE
    BY <1>2 DEF StartUnavailable, TypeOK
  <2>3. SessionAgrees'
    BY <1>2, <2>2 DEF StartUnavailable, StopCapture
  <2> QED
    BY <2>1, <2>3
<1>3. CASE Stop
  BY <1>3 DEF Stop, StopCapture, Core!Stop, Core!EmptyRing
<1>4. ASSUME NEW mask \in TabletMasks, NEW flag \in BOOLEAN, TabletProximity(mask, flag)
      PROVE  SessionAgrees' /\ RestInv'
  BY <1>4 DEF TabletProximity, Core!ObserveDevice, Core!ring, adapter
<1>5. ASSUME NEW kind \in Kinds, FirstPointer(kind)
      PROVE  SessionAgrees' /\ RestInv'
  BY <1>5 DEF FirstPointer, Core!ObserveDevice, Core!ring, adapter
<1>6. ASSUME NEW kind \in Kinds, NEW reading \in Values, Submitting(kind, reading)
      PROVE  SessionAgrees' /\ RestInv'
  <2>1. started /\ DrainsOrFails /\ held' = Nothing
    BY <1>6, SubmitEnds DEF Submitting, TypeOK
  <2> QED
    BY <2>1 DEF DrainsOrFails, Failed, StopCapture, adapter
<1>7. ASSUME NEW kind \in Kinds, Ignoring(kind)
      PROVE  SessionAgrees' /\ RestInv'
  BY <1>7 DEF Ignoring, SubmitIgnored, core, adapter
<1>8. CASE RetryTimer
  BY <1>8 DEF RetryTimer, Core!RetryPending, Core!InSession, Core!ring, core, adapter
<1>9. ASSUME NEW decision \in Core!Decisions, Receive(decision)
      PROVE  SessionAgrees' /\ RestInv'
  BY <1>9 DEF Receive, Core!Drain, adapter
<1>10. CASE UNCHANGED vars
  BY <1>10 DEF vars, core, adapter
<1> QED
  BY <1>1, <1>2, <1>3, <1>4, <1>5, <1>6, <1>7, <1>8, <1>9, <1>10 DEF Steps

(* Every way back from the core arms the timer when something waits.       *)
LEMMA RetryStep == SourceInv /\ Steps => RetryArmed'
<1> SUFFICES ASSUME SourceInv, Steps PROVE RetryArmed'
  OBVIOUS
<1> USE DEF SourceInv, RetryArmed, Idle
<1>1. CASE Start
  BY <1>1 DEF Start, StartCapture, NewMonitor, Core!Start, Core!EmptyRing
<1>2. CASE StartUnavailable
  BY <1>2 DEF StartUnavailable, StopCapture, NewMonitor, Core!EmptyRing
<1>3. CASE Stop
  BY <1>3 DEF Stop, StopCapture, NewMonitor, Core!Stop, Core!EmptyRing
<1>4. ASSUME NEW mask \in TabletMasks, NEW flag \in BOOLEAN, TabletProximity(mask, flag)
      PROVE  RetryArmed'
  BY <1>4 DEF TabletProximity, Core!ObserveDevice, Core!ring, retry
<1>5. ASSUME NEW kind \in Kinds, FirstPointer(kind)
      PROVE  RetryArmed'
  BY <1>5 DEF FirstPointer, Core!ObserveDevice, Core!ring, retry
<1>6. ASSUME NEW kind \in Kinds, NEW reading \in Values, Submitting(kind, reading)
      PROVE  RetryArmed'
  <2>1. DrainsOrFails
    BY <1>6, SubmitEnds DEF Submitting, TypeOK
  <2> QED
    BY <2>1 DEF DrainsOrFails, Failed, StopCapture, NewMonitor, retry
<1>7. ASSUME NEW kind \in Kinds, Ignoring(kind)
      PROVE  RetryArmed'
  BY <1>7 DEF Ignoring, SubmitIgnored, RetryIfPending, core, retry, Core!IndInv, Core!TypeOK
<1>8. CASE RetryTimer
  BY <1>8 DEF RetryTimer, TimerTaken, Core!RetryPending, core
<1>9. ASSUME NEW decision \in Core!Decisions, Receive(decision)
      PROVE  RetryArmed'
  BY <1>9 DEF Receive, RetryIfPending, retry
<1>10. CASE UNCHANGED vars
  BY <1>10 DEF vars, core, retry
<1> QED
  BY <1>1, <1>2, <1>3, <1>4, <1>5, <1>6, <1>7, <1>8, <1>9, <1>10 DEF Steps

(* The eraser stays declared.                                              *)
LEMMA EraserStep == SourceInv /\ Steps => EraserInv'
<1> SUFFICES ASSUME SourceInv, Steps PROVE EraserInv'
  OBVIOUS
<1> USE DEF SourceInv, EraserInv, EraserDeclared, devices
<1>1. CASE Start
  BY <1>1 DEF Start, StartCapture, NewMonitor
<1>2. CASE StartUnavailable
  BY <1>2 DEF StartUnavailable, StopCapture, NewMonitor
<1>3. CASE Stop
  BY <1>3 DEF Stop, StopCapture, NewMonitor
<1>4. ASSUME NEW mask \in TabletMasks, NEW flag \in BOOLEAN, TabletProximity(mask, flag)
      PROVE  EraserInv'
  BY <1>4 DEF TabletProximity, Core!ObserveDevice, WithEraser
<1>5. ASSUME NEW kind \in Kinds, FirstPointer(kind)
      PROVE  EraserInv'
  BY <1>5 DEF FirstPointer, NoDeviceYet
<1>6. ASSUME NEW kind \in Kinds, NEW reading \in Values, Submitting(kind, reading)
      PROVE  EraserInv'
  <2>1. DrainsOrFails /\ capabilities \subseteq capabilities'
    BY <1>6, SubmitEnds, SubmitStored DEF Submitting, TypeOK
  <2> QED
    BY <2>1 DEF DrainsOrFails, Failed, StopCapture, NewMonitor
<1>7. ASSUME NEW kind \in Kinds, Ignoring(kind)
      PROVE  EraserInv'
  BY <1>7 DEF Ignoring, SubmitIgnored, core
<1>8. CASE RetryTimer
  BY <1>8 DEF RetryTimer, Core!RetryPending, core
<1>9. ASSUME NEW decision \in Core!Decisions, Receive(decision)
      PROVE  EraserInv'
  BY <1>9 DEF Receive, Core!Drain
<1>10. CASE UNCHANGED vars
  BY <1>10 DEF vars, core
<1> QED
  BY <1>1, <1>2, <1>3, <1>4, <1>5, <1>6, <1>7, <1>8, <1>9, <1>10 DEF Steps

(* The storage of a slot keeps to the deliveries of that slot.             *)
LEMMA StorageStep == SourceInv /\ Steps => StorageInv'
<1> SUFFICES ASSUME SourceInv, Steps PROVE StorageInv'
  OBVIOUS
<1>0. /\ queue \in [Core!Slots -> Core!Delivery] /\ head \in Core!Slots
      /\ arena \in [Core!Slots -> InputSample]
      /\ nextSample \in Nat
      /\ StorageInv
  BY DEF SourceInv, TypeOK, Core!TypeOK
(* Nothing but Submit and Receive touches a sample.                        *)
<1>1. ASSUME UNCHANGED <<queue, arena, nextSample>> PROVE StorageInv'
  BY <1>0, <1>1 DEF StorageInv, Written
<1>2. CASE Start
  BY <1>1, <1>2 DEF Start, Core!Start, Core!counters
<1>3. CASE StartUnavailable
  BY <1>1, <1>3 DEF StartUnavailable
<1>4. CASE Stop
  <2>1. /\ \A slot \in Core!Slots : queue'[slot] = queue[slot] \/ queue'[slot].Sample = 0
        /\ UNCHANGED <<arena, nextSample>>
    BY <1>0, <1>4 DEF Stop, Core!Stop, Core!Cancellation, Core!counters
  <2> QED
    BY <1>0, <2>1 DEF StorageInv, Written
<1>5. ASSUME NEW mask \in TabletMasks, NEW flag \in BOOLEAN, TabletProximity(mask, flag)
      PROVE  StorageInv'
  BY <1>1, <1>5 DEF TabletProximity, Core!ObserveDevice, Core!ring, Core!counters
<1>6. ASSUME NEW kind \in Kinds, FirstPointer(kind)
      PROVE  StorageInv'
  BY <1>1, <1>6 DEF FirstPointer, Core!ObserveDevice, Core!ring, Core!counters
<1>7. ASSUME NEW kind \in Kinds, NEW reading \in Values, Submitting(kind, reading)
      PROVE  StorageInv'
  <2>1. Stored /\ nextSample <= nextSample' /\ arena' = arena
    BY <1>7, SubmitStored DEF Submitting, SourceInv, TypeOK
  <2>2. nextSample' \in Nat
    BY CoreInvStep, SourceStepsCore DEF SourceInv, Core!IndInv, Core!TypeOK
  <2>3. ASSUME NEW slot \in Core!Slots
        PROVE  /\ arena'[slot].Id <= nextSample'
               /\ queue'[slot].Sample <= nextSample'
               /\ queue'[slot].Sample # 0 => queue'[slot].Slot = slot
               /\ queue'[slot].Sample # 0 /\ arena'[slot].Id = queue'[slot].Sample
                  => arena'[slot] = Written(queue'[slot])
    <3>1. /\ arena[slot].Id \in Nat /\ queue[slot].Sample \in Nat
          /\ arena[slot].Id <= nextSample /\ queue[slot].Sample <= nextSample
          /\ queue[slot].Sample # 0 => queue[slot].Slot = slot
          /\ queue[slot].Sample # 0 /\ arena[slot].Id = queue[slot].Sample
             => arena[slot] = Written(queue[slot])
      BY <1>0 DEF StorageInv, InputSample, Core!Delivery
    <3>2. CASE queue'[slot] = queue[slot]
      BY <1>0, <2>1, <2>2, <3>1, <3>2
    <3>3. CASE queue'[slot].Sample = 0
      BY <1>0, <2>1, <2>2, <3>1, <3>3
    <3>4. CASE /\ queue'[slot].Sample = nextSample' /\ nextSample' = nextSample + 1
               /\ queue'[slot].Slot = slot
      BY <1>0, <2>1, <2>2, <3>1, <3>4
    <3> QED
      BY <2>1, <3>2, <3>3, <3>4 DEF Stored
  <2>4. ASSUME NEW slot \in Core!Slots PROVE Written(queue[slot])' = Written(queue'[slot])
    BY DEF Written
  <2> QED
    BY <2>3, <2>4 DEF StorageInv
<1>8. ASSUME NEW kind \in Kinds, Ignoring(kind)
      PROVE  StorageInv'
  BY <1>1, <1>8 DEF Ignoring, SubmitIgnored, core
<1>9. CASE RetryTimer
  BY <1>1, <1>9 DEF RetryTimer, Core!RetryPending, Core!ring, Core!counters, core
<1>10. ASSUME NEW decision \in Core!Decisions, Receive(decision)
       PROVE  StorageInv'
  <2>1. UNCHANGED <<queue, nextSample>>
    BY <1>10 DEF Receive, Core!Drain, Core!counters
  <2>2. CASE queue[head].Sample = 0
    BY <1>1, <1>10, <2>1, <2>2 DEF Receive
  <2>3. CASE queue[head].Sample # 0
    <3>1. queue[head].Slot = head
      BY <1>0, <2>3 DEF StorageInv
    <3>2. Lent(queue[head]) = Written(queue[head])
      BY <1>0, <2>3, <3>1 DEF StorageInv, Lent
    <3>3. arena' = [arena EXCEPT ![head] = Written(queue[head])]
      BY <1>10, <2>3, <3>1, <3>2 DEF Receive
    <3>4. Written(queue[head]).Id = queue[head].Sample
      BY DEF Written
    <3> QED
      BY <1>0, <2>1, <3>3, <3>4 DEF StorageInv, Written
  <2> QED
    BY <2>2, <2>3
<1>11. CASE UNCHANGED vars
  BY <1>1, <1>11 DEF vars, core
<1> QED
  BY <1>2, <1>3, <1>4, <1>5, <1>6, <1>7, <1>8, <1>9, <1>10, <1>11 DEF Steps

(* The members of the adapter and of the monitor keep their types.         *)
Flags == /\ receiver \in BOOLEAN /\ monitor \in BOOLEAN
         /\ eraser \in BOOLEAN /\ observedTablet \in BOOLEAN
         /\ observedPointer \in BOOLEAN /\ retryScheduled \in BOOLEAN

LEMMA FlagsStep == SourceInv /\ Steps => Flags'
<1> SUFFICES ASSUME SourceInv, Steps PROVE Flags'
  OBVIOUS
<1> USE DEF Flags, adapter, devices, retry, RetryIfPending
<1>0. Flags
  BY DEF SourceInv, TypeOK
<1>1. CASE Start
  BY <1>1 DEF Start, StartCapture, NewMonitor
<1>2. CASE StartUnavailable
  BY <1>0, <1>2 DEF StartUnavailable, StopCapture, NewMonitor
<1>3. CASE Stop
  BY <1>3 DEF Stop, StopCapture, NewMonitor
<1>4. ASSUME NEW mask \in TabletMasks, NEW flag \in BOOLEAN, TabletProximity(mask, flag)
      PROVE  Flags'
  BY <1>0, <1>4 DEF TabletProximity
<1>5. ASSUME NEW kind \in Kinds, FirstPointer(kind)
      PROVE  Flags'
  BY <1>0, <1>5 DEF FirstPointer
<1>6. ASSUME NEW kind \in Kinds, NEW reading \in Values, Submitting(kind, reading)
      PROVE  Flags'
  <2>1. DrainsOrFails
    BY <1>6, SubmitEnds DEF Submitting, SourceInv, TypeOK
  <2> QED
    BY <1>0, <2>1 DEF DrainsOrFails, Failed, StopCapture, NewMonitor
<1>7. ASSUME NEW kind \in Kinds, Ignoring(kind)
      PROVE  Flags'
  BY <1>0, <1>7 DEF Ignoring, SubmitIgnored
<1>8. CASE RetryTimer
  BY <1>0, <1>8 DEF RetryTimer, TimerTaken
<1>9. ASSUME NEW decision \in Core!Decisions, Receive(decision)
      PROVE  Flags'
  BY <1>0, <1>9 DEF Receive
<1>10. CASE UNCHANGED vars
  BY <1>0, <1>10 DEF vars
<1> QED
  BY <1>1, <1>2, <1>3, <1>4, <1>5, <1>6, <1>7, <1>8, <1>9, <1>10 DEF Steps

Storage == /\ arena \in [Core!Slots -> InputSample]
           /\ held \in [Kind : Kinds, Reading : {{}}] \union {Nothing}

LEMMA StorageTypeStep == SourceInv /\ Steps => Storage'
<1> SUFFICES ASSUME SourceInv, Steps PROVE Storage'
  OBVIOUS
<1>0. Storage
  BY DEF SourceInv, TypeOK, Storage
<1>1. ASSUME UNCHANGED <<arena, held>> PROVE Storage'
  BY <1>0, <1>1 DEF Storage
<1>2. ASSUME UNCHANGED arena, held' = Nothing PROVE Storage'
  BY <1>0, <1>2 DEF Storage
<1>3. ASSUME NEW kind \in Kinds, FirstPointer(kind)
      PROVE  Storage'
  BY <1>0, <1>3 DEF FirstPointer, Storage
<1>4. ASSUME NEW decision \in Core!Decisions, Receive(decision)
      PROVE  Storage'
  <2>1. /\ queue \in [Core!Slots -> Core!Delivery] /\ head \in Core!Slots
        /\ arena \in [Core!Slots -> InputSample]
    BY DEF SourceInv, TypeOK, Core!TypeOK
  <2>2. queue[head] \in Core!Delivery
    BY <2>1
  <2>3. Written(queue[head]) \in InputSample /\ queue[head].Slot \in Core!Slots
    BY <2>2 DEF Written, InputSample, Core!Delivery
  <2>4. Lent(queue[head]) \in InputSample
    BY <2>1, <2>3 DEF Lent
  <2>5. arena' \in [Core!Slots -> InputSample] /\ held' = held
    BY <1>4, <2>1, <2>3, <2>4 DEF Receive
  <2> QED
    BY <1>0, <2>5 DEF Storage
<1> QED
  BY <1>1, <1>2, <1>3, <1>4 DEF Steps, Start, StartUnavailable, Stop, TabletProximity,
     Submitting, Ignoring, RetryTimer, vars

(* The inductive invariant holds throughout.                               *)
LEMMA SourceInvStep == SourceInv /\ [Next]_vars => SourceInv'
<1> SUFFICES ASSUME SourceInv, [Next]_vars PROVE SourceInv'
  OBVIOUS
<1>1. Steps
  BY NextIsStep DEF SourceInv
<1>2. Core!IndInv'
  BY <1>1, SourceStepsCore, CoreInvStep DEF SourceInv
<1>3. SessionAgrees' /\ RestInv' /\ RetryArmed' /\ StorageInv' /\ EraserInv'
  BY <1>1, SessionStep, RetryStep, StorageStep, EraserStep
<1>4. Flags' /\ Storage'
  BY <1>1, FlagsStep, StorageTypeStep
<1>5. timers' \in 0 .. 1
  BY <1>3 DEF RetryArmed
<1>6. Core!TypeOK'
  BY <1>2 DEF Core!IndInv
<1>7. TypeOK'
  BY <1>4, <1>5, <1>6 DEF TypeOK, Flags, Storage
<1> QED
  BY <1>2, <1>3, <1>7 DEF SourceInv

THEOREM Invariance == Spec => []SourceInv
BY SourceInit, SourceInvStep, PTL DEF Spec

-----------------------------------------------------------------------------
(* Every member keeps its type, and there is never more than one timer.    *)
THEOREM TypeCorrect == Spec => []TypeOK
<1>1. SourceInv => TypeOK
  BY DEF SourceInv
<1> QED
  BY <1>1, Invariance, PTL

(* Monitor, core and adapter agree on the session at each step of each     *)
(* callback, a failure from inside one included.                           *)
THEOREM SessionAlwaysAgrees == Spec => []SessionAgrees
<1>1. SourceInv => SessionAgrees
  BY DEF SourceInv
<1> QED
  BY <1>1, Invariance, PTL

(* Whatever waits for a busy receiver has its timer.                       *)
THEOREM RetryAlwaysArmed == Spec => []RetryArmed
<1>1. SourceInv => RetryArmed
  BY DEF SourceInv
<1> QED
  BY <1>1, Invariance, PTL

(* The receiver is never lent a sample of another lap, contact or session. *)
THEOREM LentSampleIsCurrent == Spec => []LentMatchesDelivery
<1>1. SourceInv => LentMatchesDelivery
  <2> SUFFICES ASSUME SourceInv, queue[head].Sample # 0
               PROVE  Lent(queue[head]) = Written(queue[head])
    BY DEF LentMatchesDelivery
  <2>1. head \in Core!Slots
    BY DEF SourceInv, TypeOK, Core!TypeOK
  <2> QED
    BY <2>1 DEF SourceInv, StorageInv, Lent
<1> QED
  BY <1>1, Invariance, PTL

(* The eraser end is never used undeclared.                                *)
THEOREM EraserAlwaysDeclared == Spec => []EraserDeclared
<1>1. SourceInv => EraserDeclared
  BY DEF SourceInv, EraserInv
<1> QED
  BY <1>1, Invariance, PTL

(* The macOS source, seen through its core, is the core: whatever is       *)
(* proved of every behaviour of the core is true of the source.            *)
THEOREM SourceImplementsCore == Spec => Core!Spec
<1>1. Init => Core!Init
  BY DEF Init
<1>2. SourceInv /\ [Next]_vars => [Core!Next]_(Core!vars)
  BY NextIsStep, SourceStepsCore DEF SourceInv
<1> QED
  BY <1>1, <1>2, Invariance, PTL DEF Spec, Core!Spec

(* In particular, what the receiver of the macOS source is offered is the  *)
(* next delivery it can take, the same again after Busy, and keeps to the  *)
(* contract of every source.                                               *)
THEOREM SourceKeepsCorePromises ==
    Spec => /\ []Core!OffersInSequence
            /\ Core!BusyRetainsHead
            /\ Core!ImplementsContactStream
<1>1. Core!Init => Proved!Init
  BY SameInit
<1>2. [Core!Next]_(Core!vars) => [Proved!Next]_(Proved!vars)
  BY SameNext, SameVars
<1>3. Core!Spec => Proved!Spec
  BY <1>1, <1>2, PTL DEF Core!Spec, Proved!Spec
<1>4. Proved!Spec => []Proved!OffersInSequence
  BY DeviceKnown, Proved!OffersNeverOutOfSequence
     DEF Proved!CapacityAssumption, Proved!DeviceAssumption
<1>5. Proved!Spec => Proved!BusyRetainsHead
  BY DeviceKnown, Proved!BusyNeverReplacesHead
     DEF Proved!CapacityAssumption, Proved!DeviceAssumption
<1>6. Proved!Spec => Proved!ImplementsContactStream
  BY DeviceKnown, Proved!CoreImplementsStream
     DEF Proved!CapacityAssumption, Proved!DeviceAssumption
<1>7. Proved!OffersInSequence => Core!OffersInSequence
  BY DEF Core!OffersInSequence, Proved!OffersInSequence, Core!InSequence, Proved!InSequence
<1>8. Proved!BusyRetainsHead <=> Core!BusyRetainsHead
  BY DEF Core!BusyRetainsHead, Proved!BusyRetainsHead, Core!vars, Proved!vars,
         Core!ring, Proved!ring, Core!counters, Proved!counters,
         Core!current, Proved!current, Core!history, Proved!history
<1>9. Proved!ImplementsContactStream <=> Core!ImplementsContactStream
  BY DEF Core!Stream!Spec, Proved!Stream!Spec, Core!Stream!Init,
         Proved!Stream!Init, Core!Stream!Next, Proved!Stream!Next,
         Core!Stream!vars, Proved!Stream!vars, Core!Stream!Start,
         Proved!Stream!Start, Core!Stream!Deliver,
         Proved!Stream!Deliver, Core!Stream!Reject,
         Proved!Stream!Reject, Core!Stream!Leave, Proved!Stream!Leave,
         Core!Stream!NoContact, Proved!Stream!NoContact,
         Core!Stream!View, Proved!Stream!View, Core!Stream!Opens,
         Proved!Stream!Opens, Core!Stream!Extends,
         Proved!Stream!Extends, Core!Stream!Closes,
         Proved!Stream!Closes, Core!ReceiverView, Proved!ReceiverView,
         Core!ImplementsContactStream, Proved!ImplementsContactStream
<1> QED
  BY <1>3, <1>4, <1>5, <1>6, <1>7, <1>8, <1>9, SourceImplementsCore, PTL
=============================================================================
