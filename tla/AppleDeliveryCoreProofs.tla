----------------------- MODULE AppleDeliveryCoreProofs -----------------------
(***************************************************************************)
(* Theorems about the Apple delivery core, for every ring capacity, every  *)
(* device and any number of captured points.                               *)
(*                                                                         *)
(* The ring lemmas speak of a ring q with n deliveries pending from h, so  *)
(* that one lemma serves a handler that enqueues once and, applied twice,  *)
(* the handler that cancels one contact and begins the next.               *)
(***************************************************************************)
EXTENDS AppleDeliveryCore, TLAPS

(* The pending part of a ring.                                             *)

Slot(h, i)      == (h + i) % Capacity
Entry(q, h, i)  == q[Slot(h, i)]
Put(q, h, n, d) == [q EXCEPT ![Slot(h, n)] = d]
Reached(q, h, s, i) == IF i = 0 THEN s ELSE Position(Entry(q, h, i - 1))

Ring == [Slots -> Delivery]
Seen == [ContactOpen : BOOLEAN, Contact : Nat,
         LastBatchOrdinal : Nat, LastSequence : Nat]

(* PendingInv of a ring whose receiver is at s, with contacts up to c.     *)
Pending(q, h, n, s, c) ==
    \A i \in 0 .. n - 1 :
        /\ Entry(q, h, i).Slot = Slot(h, i)
        /\ Entry(q, h, i).Contact <= c
        /\ InSequence(Reached(q, h, s, i), Entry(q, h, i))

(* SamplesInv of a ring whose receiver has samples up to a, of b captured. *)
Ascending(q, h, n, a, b) ==
    /\ a <= b
    /\ \A i \in 0 .. n - 1 :
        /\ Entry(q, h, i).Sample <= b
        /\ IF Entry(q, h, i).Phase = "Cancel" THEN Entry(q, h, i).Sample = 0
                                              ELSE Entry(q, h, i).Sample > a
        /\ \A j \in 0 .. i - 1 : Entry(q, h, i).Phase # "Cancel"
                => Entry(q, h, j).Sample < Entry(q, h, i).Sample

(* A place past the end of the array wraps to its start.                   *)
LEMMA SlotWraps ==
    ASSUME NEW h \in Slots, NEW i \in 0 .. Capacity
    PROVE  /\ Slot(h, i) = IF h + i < Capacity THEN h + i ELSE h + i - Capacity
           /\ Slot(h, i) \in Slots
BY CapacityAssumption DEF Slots, Slot

(* Every pending place of the ring holds a delivery.                       *)
LEMMA EntryType ==
    ASSUME NEW q \in Ring, NEW h \in Slots, NEW i \in 0 .. Capacity
    PROVE  Entry(q, h, i) \in Delivery
BY SlotWraps DEF Entry, Ring

(* Storing a delivery behind the n pending ones leaves those untouched.    *)
LEMMA PutEntries ==
    ASSUME NEW q \in Ring, NEW h \in Slots,
           NEW n \in 0 .. Capacity - 1, NEW d \in Delivery
    PROVE  /\ Put(q, h, n, d) \in Ring
           /\ Entry(Put(q, h, n, d), h, n) = d
           /\ \A i \in 0 .. n - 1 :
                 Entry(Put(q, h, n, d), h, i) = Entry(q, h, i)
<1>1. \A i \in 0 .. n : Slot(h, i) \in Slots
  BY SlotWraps, CapacityAssumption
<1>2. \A i \in 0 .. n - 1 : Slot(h, i) # Slot(h, n)
  <2> SUFFICES ASSUME NEW i \in 0 .. n - 1 PROVE Slot(h, i) # Slot(h, n)
    OBVIOUS
  <2>1. i \in 0 .. Capacity /\ n \in 0 .. Capacity /\ h \in 0 .. Capacity - 1
    BY CapacityAssumption DEF Slots
  <2>2. Slot(h, i) = IF h + i < Capacity THEN h + i ELSE h + i - Capacity
    BY <2>1, SlotWraps
  <2>3. Slot(h, n) = IF h + n < Capacity THEN h + n ELSE h + n - Capacity
    BY <2>1, SlotWraps
  <2> QED
    BY <2>1, <2>2, <2>3, CapacityAssumption
<1> QED
  BY <1>1, <1>2 DEF Entry, Put, Ring

(* Accepting the head moves every later delivery one place forward.        *)
LEMMA PopEntries ==
    ASSUME NEW q, NEW h \in Slots, NEW n \in 1 .. Capacity
    PROVE  /\ Slot(h, 1) \in Slots
           /\ Entry(q, h, 0) = q[h]
           /\ \A i \in 0 .. n - 2 :
                 /\ Slot(Slot(h, 1), i) = Slot(h, i + 1)
                 /\ Entry(q, Slot(h, 1), i) = Entry(q, h, i + 1)
<1>1. Slot(h, 1) \in Slots
  BY SlotWraps, CapacityAssumption
<1>2. Slot(h, 0) = h
  BY SlotWraps, CapacityAssumption DEF Slots
<1>3. \A i \in 0 .. n - 2 : Slot(Slot(h, 1), i) = Slot(h, i + 1)
  <2> SUFFICES ASSUME NEW i \in 0 .. n - 2
               PROVE  Slot(Slot(h, 1), i) = Slot(h, i + 1)
    OBVIOUS
  <2>1. i \in 0 .. Capacity /\ i + 1 \in 0 .. Capacity /\ 1 \in 0 .. Capacity
    BY CapacityAssumption
  <2> DEFINE g == Slot(h, 1)
  <2>2. g = IF h + 1 < Capacity THEN h + 1 ELSE h + 1 - Capacity
    BY <2>1, SlotWraps
  <2>3. Slot(h, i + 1) = IF h + (i + 1) < Capacity THEN h + (i + 1)
                         ELSE h + (i + 1) - Capacity
    BY <2>1, SlotWraps
  <2>4. g \in Slots
    BY <1>1
  <2> HIDE DEF g
  <2>5. Slot(g, i) = IF g + i < Capacity THEN g + i ELSE g + i - Capacity
    BY <2>1, <2>4, SlotWraps
  <2> QED
    BY <2>1, <2>2, <2>3, <2>5, CapacityAssumption DEF g, Slots
<1> QED
  BY <1>1, <1>2, <1>3 DEF Entry

(* A delivery that follows everything pending may be stored behind it.     *)
LEMMA PutPending ==
    ASSUME NEW q \in Ring, NEW h \in Slots,
           NEW n \in 0 .. Capacity - 1, NEW d \in Delivery,
           NEW s \in Seen, NEW b \in Nat, NEW c \in Nat, b <= c,
           Pending(q, h, n, s, b),
           d.Slot = Slot(h, n), d.Contact <= c,
           InSequence(Reached(q, h, s, n), d)
    PROVE  /\ Pending(Put(q, h, n, d), h, n + 1, s, c)
           /\ Reached(Put(q, h, n, d), h, s, n + 1) = Position(d)
<1> DEFINE r == Put(q, h, n, d)
<1>1. /\ Entry(r, h, n) = d
      /\ \A i \in 0 .. n - 1 : Entry(r, h, i) = Entry(q, h, i)
  BY PutEntries
<1> HIDE DEF r
<1>2. \A i \in 0 .. n : Reached(r, h, s, i) = Reached(q, h, s, i)
  BY <1>1 DEF Reached
<1>3. Reached(r, h, s, n + 1) = Position(d)
  BY <1>1 DEF Reached
<1>4. ASSUME NEW i \in 0 .. n
      PROVE  /\ Entry(r, h, i).Slot = Slot(h, i)
             /\ Entry(r, h, i).Contact <= c
             /\ InSequence(Reached(r, h, s, i), Entry(r, h, i))
  <2>1. CASE i = n
    BY <1>1, <1>2, <2>1
  <2>2. CASE i \in 0 .. n - 1
    <3>1. Entry(q, h, i).Contact \in Nat
      BY EntryType, <2>2, CapacityAssumption DEF Delivery
    <3> QED
      BY <1>1, <1>2, <2>2, <3>1 DEF Pending
  <2> QED
    BY <2>1, <2>2, CapacityAssumption
<1> QED
  BY <1>3, <1>4 DEF Pending, r

(* Once the head is accepted, what is left follows the receiver's new      *)
(* position, and leads to the same place.                                  *)
LEMMA PopPending ==
    ASSUME NEW q, NEW h \in Slots, NEW n \in 1 .. Capacity,
           NEW s, NEW c, Pending(q, h, n, s, c)
    PROVE  /\ Pending(q, Slot(h, 1), n - 1, Position(q[h]), c)
           /\ Reached(q, Slot(h, 1), Position(q[h]), n - 1) = Reached(q, h, s, n)
<1> DEFINE g == Slot(h, 1)
<1>1. /\ Entry(q, h, 0) = q[h]
      /\ \A i \in 0 .. n - 2 : /\ Slot(g, i) = Slot(h, i + 1)
                               /\ Entry(q, g, i) = Entry(q, h, i + 1)
  BY PopEntries
<1> HIDE DEF g
<1>2. \A i \in 0 .. n - 1 : Reached(q, g, Position(q[h]), i) = Reached(q, h, s, i + 1)
  BY <1>1 DEF Reached
<1>3. ASSUME NEW i \in 0 .. n - 2
      PROVE  /\ Entry(q, g, i).Slot = Slot(g, i)
             /\ Entry(q, g, i).Contact <= c
             /\ InSequence(Reached(q, g, Position(q[h]), i), Entry(q, g, i))
  <2>1. i + 1 \in 0 .. n - 1
    OBVIOUS
  <2> QED
    BY <1>1, <1>2, <2>1 DEF Pending
<1> QED
  BY <1>2, <1>3 DEF Pending, g

(* A new sample, or a Cancel without one, keeps the identities ascending.  *)
LEMMA PutAscending ==
    ASSUME NEW q \in Ring, NEW h \in Slots,
           NEW n \in 0 .. Capacity - 1, NEW d \in Delivery,
           NEW a \in Nat, NEW b \in Nat, NEW c \in Nat, b <= c,
           Ascending(q, h, n, a, b),
           IF d.Phase = "Cancel" THEN d.Sample = 0
                                 ELSE d.Sample > b /\ d.Sample <= c
    PROVE  Ascending(Put(q, h, n, d), h, n + 1, a, c)
<1> DEFINE r == Put(q, h, n, d)
<1>1. /\ Entry(r, h, n) = d
      /\ \A i \in 0 .. n - 1 : Entry(r, h, i) = Entry(q, h, i)
  BY PutEntries
<1>2. \A i \in 0 .. n - 1 : Entry(q, h, i).Sample \in Nat
  BY EntryType, CapacityAssumption DEF Delivery
<1>3. d.Sample \in Nat
  BY DEF Delivery
<1> HIDE DEF r
<1>4. a <= c
  BY DEF Ascending
<1>5. ASSUME NEW i \in 0 .. n
      PROVE  /\ Entry(r, h, i).Sample <= c
             /\ IF Entry(r, h, i).Phase = "Cancel"
                THEN Entry(r, h, i).Sample = 0
                ELSE Entry(r, h, i).Sample > a
             /\ \A j \in 0 .. i - 1 : Entry(r, h, i).Phase # "Cancel"
                     => Entry(r, h, j).Sample < Entry(r, h, i).Sample
  <2>1. CASE i = n
    <3>1. d.Sample <= c /\ (d.Phase # "Cancel" => d.Sample > a)
      BY <1>3 DEF Ascending
    <3>2. \A j \in 0 .. n - 1 : d.Phase # "Cancel" => Entry(q, h, j).Sample < d.Sample
      BY <1>2, <1>3 DEF Ascending
    <3> QED
      BY <1>1, <2>1, <3>1, <3>2
  <2>2. CASE i \in 0 .. n - 1
    <3>1. \A j \in 0 .. i : Entry(r, h, j) = Entry(q, h, j)
      BY <1>1, <2>2
    <3>2. Entry(q, h, i).Sample <= c
      BY <1>2, <2>2 DEF Ascending
    <3> QED
      BY <2>2, <3>1, <3>2 DEF Ascending
  <2> QED
    BY <2>1, <2>2, CapacityAssumption
<1> QED
  BY <1>4, <1>5 DEF Ascending, r

(* Accepting the head keeps the samples still pending above every sample   *)
(* the receiver has taken.                                                 *)
LEMMA PopAscending ==
    ASSUME NEW q \in Ring, NEW h \in Slots,
           NEW n \in 1 .. Capacity, NEW a \in Nat, NEW b \in Nat,
           Ascending(q, h, n, a, b)
    PROVE  Ascending(q, Slot(h, 1), n - 1,
                     IF q[h].Sample = 0 THEN a ELSE q[h].Sample, b)
<1> DEFINE g == Slot(h, 1)
           e == IF q[h].Sample = 0 THEN a ELSE q[h].Sample
<1>1. /\ Entry(q, h, 0) = q[h]
      /\ \A i \in 0 .. n - 2 : Entry(q, g, i) = Entry(q, h, i + 1)
  BY PopEntries
<1>2. \A i \in 0 .. n - 1 : Entry(q, h, i).Sample \in Nat
  BY EntryType, CapacityAssumption DEF Delivery
<1>3. e <= b
  BY <1>1, <1>2 DEF Ascending
<1> HIDE DEF g
<1>4. ASSUME NEW i \in 0 .. n - 2
      PROVE  /\ Entry(q, g, i).Sample <= b
             /\ IF Entry(q, g, i).Phase = "Cancel"
                THEN Entry(q, g, i).Sample = 0
                ELSE Entry(q, g, i).Sample > e
             /\ \A j \in 0 .. i - 1 : Entry(q, g, i).Phase # "Cancel"
                     => Entry(q, g, j).Sample < Entry(q, g, i).Sample
  <2>1. i + 1 \in 0 .. n - 1 /\ 0 \in 0 .. i
    OBVIOUS
  <2>2. /\ Entry(q, g, i) = Entry(q, h, i + 1)
        /\ \A j \in 0 .. i - 1 : /\ j + 1 \in 0 .. i
                                 /\ Entry(q, g, j) = Entry(q, h, j + 1)
    BY <1>1
  <2> QED
    BY <1>1, <1>2, <2>1, <2>2 DEF Ascending
<1> QED
  BY <1>3, <1>4 DEF Ascending, g

-----------------------------------------------------------------------------
(* Type correctness, with the facts about the session it rests on.         *)

(* A constructed core (apple_delivery_core.cpp, constructor) is well typed *)
(* and outside a session.                                                  *)
THEOREM TypeInit == Init => TypeOK /\ SessionInv
<1> SUFFICES ASSUME Init PROVE TypeOK /\ SessionInv
  OBVIOUS
<1>1. EmptySlot \in Delivery
  BY CapacityAssumption DEF EmptySlot, Delivery, Slots, Phases
<1>2. queue \in [Slots -> Delivery]
  BY <1>1 DEF Init
<1>3. 0 \in Slots /\ 0 \in 0 .. Capacity
  BY CapacityAssumption DEF Slots
<1> QED
  BY <1>2, <1>3 DEF Init, TypeOK, SessionInv

(* A captured point makes a well typed delivery.                           *)
LEMMA PointType ==
    ASSUME TypeOK, NEW slot \in Slots, NEW c \in Nat, NEW ordinal \in Nat,
           NEW seq \in Nat, NEW phase \in Phases, NEW reading \in Readings
    PROVE  Point(slot, c, ordinal, seq, phase, reading) \in Delivery
BY DeviceAssumption DEF TypeOK, Point, Delivery

(* A Cancel of the core's contact is a well typed delivery.                *)
LEMMA CancellationType ==
    ASSUME TypeOK, NEW slot \in Slots
    PROVE  Cancellation(slot) \in Delivery
BY DEF TypeOK, Cancellation, Delivery, Phases

(* _enqueue with room keeps the ring's members in range.                   *)
LEMMA EnqueueType ==
    ASSUME TypeOK, Room(1), NEW d \in Delivery, Enqueue(d)
    PROVE  /\ queue' \in [Slots -> Delivery]
           /\ head' \in Slots
           /\ size' \in 0 .. Capacity
<1>1. queue' \in [Slots -> Delivery]
  <2>1. queue \in [Slots -> Delivery]
    BY DEF TypeOK
  <2>2. queue' = [queue EXCEPT ![SlotAt(size)] = d]
    BY DEF Enqueue
  <2> QED
    BY <2>1, <2>2
<1>2. size' = size + 1 /\ head' = head /\ size + 1 <= Capacity
  BY DEF Enqueue, Room
<1> QED
  BY <1>1, <1>2, CapacityAssumption DEF TypeOK

(* A pending delivery's place is a slot of the array.                      *)
LEMMA SlotAtType ==
    ASSUME TypeOK, NEW i \in 0 .. Capacity PROVE SlotAt(i) \in Slots
BY SlotWraps DEF SlotAt, Slot, TypeOK

(* _fail leaves the core well typed and outside a session.                 *)
LEMMA FailType ==
    ASSUME TypeOK, ~draining, Fail,
           capabilities' \in SUBSET (Fields \union {"Timestamp"}),
           queue' \in [Slots -> Delivery],
           nextContact' \in Nat, nextSample' \in Nat
    PROVE  TypeOK' /\ SessionInv'
<1>1. 0 \in Slots /\ 0 \in 0 .. Capacity
  BY CapacityAssumption DEF Slots
<1>2. /\ seen' \in [ContactOpen : BOOLEAN, Contact : Nat,
                    LastBatchOrdinal : Nat, LastSequence : Nat]
      /\ seenSample' \in Nat
      /\ failure' \in {"None", "Overflow"}
  BY DEF TypeOK, Fail, Closed
<1> QED
  BY <1>1, <1>2 DEF TypeOK, SessionInv, Fail, EmptyRing, ResetContact

(* A captured point keeps the sample counter and the capability mask well  *)
(* typed.                                                                  *)
LEMMA CaptureType ==
    ASSUME TypeOK, NEW reading \in Readings, Capture(reading)
    PROVE  /\ nextSample' \in Nat
           /\ capabilities' \in SUBSET (Fields \union {"Timestamp"})
           /\ started /\ ~draining
BY DEF TypeOK, Capture, InSession, Fields

(* A handler that has queued something and goes on to _drain leaves the    *)
(* core well typed, inside its session.                                    *)
LEMMA DrainNextType ==
    ASSUME TypeOK, ThenDrain, started,
           queue' \in [Slots -> Delivery], head' \in Slots,
           size' \in 1 .. Capacity,
           capabilities' \in SUBSET (Fields \union {"Timestamp"}),
           nextContact' \in Nat, nextSample' \in Nat,
           contactOpen' \in BOOLEAN, contact' \in Nat,
           batchOrdinal' \in Nat, sequence' \in Nat,
           ~contactOpen' => contact' = 0 /\ batchOrdinal' = 0 /\ sequence' = 0
    PROVE  TypeOK' /\ SessionInv'
<1>1. /\ seen' = seen /\ seenSample' = seenSample /\ failure' = failure
      /\ draining' = TRUE /\ started' = started
  BY DEF ThenDrain, history
<1>2. size' \in 0 .. Capacity /\ size' > 0
  BY CapacityAssumption
<1> QED
  BY <1>1, <1>2, Zenon DEF TypeOK, SessionInv

(* Every entry point of the core, and every turn of _drain, keeps the      *)
(* members well typed and the session flags consistent.                    *)
THEOREM TypeStep == TypeOK /\ SessionInv /\ [Next]_vars => TypeOK' /\ SessionInv'
<1> SUFFICES ASSUME TypeOK, SessionInv, [Next]_vars
             PROVE  TypeOK' /\ SessionInv'
  OBVIOUS
<1>0. /\ 0 \in Slots /\ 0 \in 0 .. Capacity
      /\ SlotAt(size) \in Slots
  BY SlotAtType, CapacityAssumption DEF Slots, TypeOK
<1>1. CASE Start
  <2>1. seen' \in [ContactOpen : BOOLEAN, Contact : Nat,
                   LastBatchOrdinal : Nat, LastSequence : Nat]
    BY <1>1 DEF Start, Closed, TypeOK
  <2>2. /\ queue' = queue /\ head' = 0 /\ size' = 0
        /\ capabilities' = capabilities
        /\ nextContact' = nextContact /\ nextSample' = nextSample
        /\ contactOpen' = FALSE /\ contact' = 0 /\ batchOrdinal' = 0 /\ sequence' = 0
        /\ started' = TRUE /\ draining' = draining
        /\ seenSample' = seenSample /\ failure' = "None"
    BY <1>1 DEF Start, EmptyRing, ResetContact, counters
  <2>3. ~draining
    BY <1>1 DEF Start, SessionInv
  <2>4. 0 \in Nat
    OBVIOUS
  <2> QED
    BY <1>0, <2>1, <2>2, <2>3, <2>4, Zenon DEF TypeOK, SessionInv
<1>2. CASE Stop
  <2>1. seen' \in [ContactOpen : BOOLEAN, Contact : Nat,
                   LastBatchOrdinal : Nat, LastSequence : Nat]
    <3>1. Closed(seen) \in [ContactOpen : BOOLEAN, Contact : Nat,
                            LastBatchOrdinal : Nat, LastSequence : Nat]
      BY DEF Closed, TypeOK
    <3>2. seen' \in {seen, Closed(seen)}
      BY <1>2 DEF Stop, CloseSeen
    <3> QED
      BY <3>1, <3>2 DEF TypeOK
  <2>2. queue' \in [Slots -> Delivery]
    BY <1>0, <1>2, CancellationType DEF Stop, TypeOK
  <2> QED
    BY <1>0, <1>2, <2>1, <2>2
       DEF Stop, TypeOK, SessionInv, EmptyRing, ResetContact, counters
<1>3. ASSUME NEW mask \in Masks, ObserveDevice(mask) PROVE TypeOK' /\ SessionInv'
  <2>1. capabilities' \in SUBSET (Fields \union {"Timestamp"})
    BY <1>3, DeviceAssumption DEF ObserveDevice
  <2> QED
    BY <1>3, <2>1 DEF ObserveDevice, TypeOK, SessionInv, ring, counters, current, history
<1>4. CASE CancelContact
  <2>1. CASE Room(1) /\ Enqueue(Cancellation(SlotAt(size))) /\ ResetContact /\ ThenDrain
    <3>1. Cancellation(SlotAt(size)) \in Delivery
      BY <1>0, CancellationType
    <3>2. /\ queue' \in [Slots -> Delivery] /\ head' \in Slots
          /\ size' \in 0 .. Capacity
      BY <2>1, <3>1, EnqueueType
    <3>3. size' \in 1 .. Capacity
      BY <2>1, <3>2, CapacityAssumption DEF Enqueue, TypeOK
    <3>4. /\ capabilities' = capabilities /\ nextContact' = nextContact
          /\ nextSample' = nextSample /\ started
      BY <1>4 DEF CancelContact, counters, InSession
    <3>5. /\ capabilities \in SUBSET (Fields \union {"Timestamp"})
          /\ nextContact \in Nat /\ nextSample \in Nat
      BY DEF TypeOK
    <3>6. ~contactOpen' /\ contact' = 0 /\ batchOrdinal' = 0 /\ sequence' = 0
          /\ contactOpen' \in BOOLEAN
      BY <2>1 DEF ResetContact
    <3> QED
      BY <2>1, <3>2, <3>3, <3>4, <3>5, <3>6, DrainNextType
  <2>2. CASE Fail /\ UNCHANGED queue
    <3>1. /\ capabilities' = capabilities /\ nextContact' = nextContact
          /\ nextSample' = nextSample /\ ~draining /\ queue' = queue
      BY <1>4, <2>2 DEF CancelContact, counters, InSession
    <3>2. /\ capabilities \in SUBSET (Fields \union {"Timestamp"})
          /\ nextContact \in Nat /\ nextSample \in Nat
          /\ queue \in [Slots -> Delivery]
      BY DEF TypeOK
    <3> QED
      BY <2>2, <3>1, <3>2, FailType
  <2> QED
    BY <1>4, <2>1, <2>2 DEF CancelContact
<1>5. ASSUME NEW reading \in Readings, BeginContact(reading)
      PROVE  TypeOK' /\ SessionInv'
  <2>1. /\ Capture(reading) /\ nextContact' = nextContact + 1
        /\ nextContact + 1 \in Nat
    BY <1>5 DEF BeginContact, TypeOK
  <2>2. CASE /\ Room(1)
             /\ Enqueue(Point(SlotAt(size), nextContact + 1, 1, 1, "Begin", reading))
             /\ OpenContact
             /\ ThenDrain
    <3>1. Point(SlotAt(size), nextContact + 1, 1, 1, "Begin", reading) \in Delivery
      BY <1>0, <2>1, PointType DEF Phases
    <3>2. /\ queue' \in [Slots -> Delivery] /\ head' \in Slots
          /\ size' \in 0 .. Capacity
      BY <2>2, <3>1, EnqueueType
    <3>3. size' \in 1 .. Capacity
      BY <2>2, <3>2, CapacityAssumption DEF Enqueue, TypeOK
    <3>4. contactOpen' = TRUE /\ contact' \in Nat /\ batchOrdinal' = 1 /\ sequence' = 1
      BY <2>1, <2>2 DEF OpenContact
    <3> QED
      BY <2>1, <2>2, <3>2, <3>3, <3>4, CaptureType, DrainNextType
  <2>3. CASE Fail /\ UNCHANGED queue
    <3>1. queue' \in [Slots -> Delivery]
      BY <2>3 DEF TypeOK
    <3> QED
      BY <2>1, <2>3, <3>1, CaptureType, FailType
  <2> QED
    BY <1>5, <2>2, <2>3 DEF BeginContact
<1>6. ASSUME NEW reading \in Readings, RestartContact(reading)
      PROVE  TypeOK' /\ SessionInv'
  <2>1. nextContact + 1 \in Nat /\ Cancellation(SlotAt(size)) \in Delivery
    BY <1>0, CancellationType DEF TypeOK
  <2>2. CASE Room(2) /\ Capture(reading) /\ nextContact' = nextContact + 1
    <3> DEFINE p == Point(SlotAt(size + 1), nextContact + 1, 1, 1, "Begin", reading)
    <3>1. size + 1 \in 0 .. Capacity /\ size + 2 \in 1 .. Capacity
      BY <2>2, CapacityAssumption DEF Room, TypeOK
    <3>2. p \in Delivery
      BY <2>1, <3>1, PointType, SlotAtType DEF Phases
    <3>3. /\ queue' = [queue EXCEPT ![SlotAt(size)] = Cancellation(SlotAt(size)),
                                    ![SlotAt(size + 1)] = p]
          /\ size' = size + 2 /\ head' = head /\ OpenContact /\ ThenDrain
      BY <1>6, <2>2, <3>1 DEF RestartContact, Room, TypeOK
    <3>4. queue' \in [Slots -> Delivery] /\ head' \in Slots /\ size' \in 1 .. Capacity
      <4> HIDE DEF p
      <4> QED
        BY <2>1, <3>1, <3>2, <3>3 DEF TypeOK
    <3>5. contactOpen' = TRUE /\ contact' \in Nat /\ batchOrdinal' = 1 /\ sequence' = 1
      BY <2>1, <3>3 DEF OpenContact
    <3> QED
      BY <2>1, <2>2, <3>3, <3>4, <3>5, CaptureType, DrainNextType
  <2>3. CASE /\ Capture(reading) /\ nextContact' = nextContact + 1
             /\ queue' = [queue EXCEPT ![SlotAt(size)] = Cancellation(SlotAt(size))]
             /\ Fail
    <3>1. queue' \in [Slots -> Delivery]
      BY <2>1, <2>3 DEF TypeOK
    <3> QED
      BY <2>1, <2>3, <3>1, CaptureType, FailType
  <2>4. CASE InSession /\ Fail /\ UNCHANGED <<queue, capabilities, counters>>
    <3>1. /\ capabilities' = capabilities /\ nextContact' = nextContact
          /\ nextSample' = nextSample /\ ~draining /\ queue' = queue
      BY <2>4 DEF counters, InSession
    <3>2. /\ capabilities \in SUBSET (Fields \union {"Timestamp"})
          /\ nextContact \in Nat /\ nextSample \in Nat
          /\ queue \in [Slots -> Delivery]
      BY DEF TypeOK
    <3> QED
      BY <2>4, <3>1, <3>2, FailType
  <2> QED
    BY <1>6, <2>2, <2>3, <2>4 DEF RestartContact
<1>7. ASSUME NEW reading \in Readings, NEW phase \in {"Update", "End"},
             ExtendContact(phase, reading)
      PROVE  TypeOK' /\ SessionInv'
  <2>1. /\ Capture(reading) /\ nextContact' \in Nat
        /\ contact \in Nat /\ batchOrdinal + 1 \in Nat /\ sequence + 1 \in Nat
        /\ contactOpen
    BY <1>7 DEF ExtendContact, TypeOK
  <2> DEFINE p == Point(SlotAt(size), contact, batchOrdinal + 1, sequence + 1,
                        phase, reading)
  <2>2. p \in Delivery
    BY <1>0, <2>1, PointType DEF Phases
  <2>3. CASE /\ Room(1) /\ Enqueue(p) /\ ThenDrain
             /\ \/ ResetContact
                \/ /\ batchOrdinal' = batchOrdinal + 1
                   /\ sequence' = sequence + 1
                   /\ UNCHANGED <<contactOpen, contact>>
    <3>2. /\ queue' \in [Slots -> Delivery] /\ head' \in Slots
          /\ size' \in 0 .. Capacity
      BY <2>2, <2>3, EnqueueType
    <3>3. size' \in 1 .. Capacity
      BY <2>3, <3>2, CapacityAssumption DEF Enqueue, TypeOK
    <3>4. /\ contactOpen' \in BOOLEAN /\ contact' \in Nat
          /\ batchOrdinal' \in Nat /\ sequence' \in Nat
          /\ ~contactOpen' => contact' = 0 /\ batchOrdinal' = 0 /\ sequence' = 0
      <4>1. 0 \in Nat
        OBVIOUS
      <4>2. CASE ResetContact
        BY <4>1, <4>2, Zenon DEF ResetContact
      <4>3. CASE /\ batchOrdinal' = batchOrdinal + 1
                 /\ sequence' = sequence + 1
                 /\ UNCHANGED <<contactOpen, contact>>
        BY <2>1, <4>3, Zenon DEF TypeOK
      <4> QED
        BY <2>3, <4>2, <4>3
    <3> QED
      BY <2>1, <2>3, <3>2, <3>3, <3>4, CaptureType, DrainNextType
  <2>4. CASE Fail /\ UNCHANGED queue
    <3>1. queue' \in [Slots -> Delivery]
      BY <2>4 DEF TypeOK
    <3> QED
      BY <2>1, <2>4, <3>1, CaptureType, FailType
  <2> QED
    BY <1>7, <2>3, <2>4 DEF ExtendContact
<1>8. CASE RetryPending
  BY <1>8 DEF RetryPending, InSession, TypeOK, SessionInv,
              ring, counters, current, history
<1>9. ASSUME NEW decision \in Decisions, Drain(decision)
      PROVE  TypeOK' /\ SessionInv'
  <2>1. /\ queue' = queue /\ capabilities' = capabilities /\ started' = started
        /\ nextContact' = nextContact /\ nextSample' = nextSample
        /\ failure' = failure /\ draining /\ started /\ size > 0
    BY <1>9 DEF Drain, counters, SessionInv
  <2>2. CASE decision = "Accepted"
    <3>1. queue[head] \in Delivery
      BY DEF TypeOK
    <3>2. /\ Position(queue[head]) \in [ContactOpen : BOOLEAN, Contact : Nat,
                                        LastBatchOrdinal : Nat, LastSequence : Nat]
          /\ queue[head].Sample \in Nat
      BY <3>1 DEF Position, Delivery
    <3>3. /\ seen' = Position(queue[head])
          /\ seenSample' = IF queue[head].Sample = 0 THEN seenSample
                                                     ELSE queue[head].Sample
          /\ size' = size - 1 /\ draining' = (size > 1) /\ head' = SlotAt(1)
      BY <1>9, <2>2 DEF Drain, NextHead, SlotAt
    <3>4. head' \in Slots
      BY <3>3, SlotAtType, CapacityAssumption
    <3>5. /\ contactOpen' = contactOpen /\ contact' = contact
          /\ batchOrdinal' = batchOrdinal /\ sequence' = sequence
      BY <1>9, <2>2 DEF Drain, current
    <3>6. size' \in 0 .. Capacity /\ (draining' => size' > 0) /\ draining' \in BOOLEAN
      <4>1. size \in 1 .. Capacity /\ size' = size - 1
        BY <2>1, <3>3, CapacityAssumption DEF TypeOK
      <4>2. size' \in 0 .. Capacity /\ (size > 1 => size' > 0)
        BY <4>1, CapacityAssumption
      <4>3. (size > 1) \in BOOLEAN
        OBVIOUS
      <4>4. (draining' => size > 1) /\ draining' \in BOOLEAN
        <5>1. draining' = (size > 1)
          BY <3>3
        <5> QED
          BY <4>3, <5>1
      <4> QED
        BY <4>2, <4>4, Zenon
    <3>7. seenSample' \in Nat
      BY <3>2, <3>3 DEF TypeOK
    <3>8. seen' \in [ContactOpen : BOOLEAN, Contact : Nat,
                     LastBatchOrdinal : Nat, LastSequence : Nat]
      BY <3>2, <3>3
    <3> QED
      BY <2>1, <3>4, <3>5, <3>6, <3>7, <3>8, Zenon DEF TypeOK, SessionInv
  <2>3. CASE decision = "Busy"
    <3>1. /\ draining' = FALSE /\ head' = head /\ size' = size
          /\ contactOpen' = contactOpen /\ contact' = contact
          /\ batchOrdinal' = batchOrdinal /\ sequence' = sequence
          /\ seen' = seen /\ seenSample' = seenSample
      BY <1>9, <2>3 DEF Drain, current
    <3> QED
      BY <2>1, <3>1, Zenon DEF TypeOK, SessionInv
  <2>4. CASE decision = "Rejected"
    <3>1. /\ draining' = FALSE /\ head' = 0 /\ size' = 0
          /\ contactOpen' = FALSE /\ contact' = 0 /\ batchOrdinal' = 0 /\ sequence' = 0
          /\ seen' = Closed(seen) /\ seenSample' = seenSample
      BY <1>9, <2>4 DEF Drain, Discard, EmptyRing, ResetContact
    <3>2. seen' \in [ContactOpen : BOOLEAN, Contact : Nat,
                     LastBatchOrdinal : Nat, LastSequence : Nat]
      BY <3>1 DEF Closed, TypeOK
    <3>3. 0 \in Nat
      OBVIOUS
    <3> QED
      BY <1>0, <2>1, <3>1, <3>2, <3>3, Zenon DEF TypeOK, SessionInv
  <2> QED
    BY <2>2, <2>3, <2>4 DEF Decisions
<1>10. CASE UNCHANGED vars
  BY <1>10 DEF vars, ring, counters, current, history, TypeOK, SessionInv
<1> QED
  BY <1>1, <1>2, <1>3, <1>4, <1>5, <1>6, <1>7, <1>8, <1>9, <1>10 DEF Next

(* The members of AppleDeliveryCore always have the types                  *)
(* apple_delivery_core.h gives them, whatever the capacity: head and size  *)
(* never leave the fixed array.                                            *)
THEOREM TypeCorrect == Spec => []TypeOK
<1>1. Init => TypeOK /\ SessionInv
  BY TypeInit
<1>2. TypeOK /\ SessionInv /\ [Next]_vars => (TypeOK /\ SessionInv)'
  BY TypeStep
<1> QED
  BY <1>1, <1>2, PTL DEF Spec

-----------------------------------------------------------------------------
(* The inductive invariant, in terms of the ring lemmas.                   *)

(* The parts of the invariant, in the terms of the ring lemmas.            *)
LEMMA RingView ==
    /\ PendingInv <=> Pending(queue, head, size, seen, nextContact)
    /\ SamplesInv <=> Ascending(queue, head, size, seenSample, nextSample)
    /\ \A i : SlotAt(i) = Slot(head, i)
    /\ \A i : After(i) = Reached(queue, head, seen, i)
BY DEF PendingInv, SamplesInv, Pending, Ascending, At, SlotAt, After,
       Slot, Entry, Reached

(* The same for the next state.                                            *)
LEMMA RingViewNext ==
    /\ PendingInv' <=> Pending(queue', head', size', seen', nextContact')
    /\ SamplesInv' <=> Ascending(queue', head', size', seenSample', nextSample')
    /\ After(size)' = Reached(queue', head', seen', size')
BY DEF PendingInv, SamplesInv, Pending, Ascending, At, SlotAt, After,
       Slot, Entry, Reached

(* The type invariant, with the sets the ring lemmas use.                  *)
LEMMA TypeFacts ==
    ASSUME TypeOK
    PROVE  /\ queue \in Ring /\ head \in Slots /\ size \in 0 .. Capacity
           /\ seen \in Seen /\ seenSample \in Nat
           /\ nextContact \in Nat /\ nextSample \in Nat
           /\ contact \in Nat /\ batchOrdinal \in Nat /\ sequence \in Nat
BY DEF TypeOK, Ring, Seen

(* Where the receiver will be once it has taken everything pending.        *)
LEMMA AfterPending ==
    ASSUME IndInv
    PROVE  /\ After(size) \in Seen
           /\ After(size).Contact <= nextContact
           /\ ~After(size).ContactOpen => /\ After(size).LastBatchOrdinal = 0
                                          /\ After(size).LastSequence = 0
<1>1. /\ size \in 0 .. Capacity /\ seen \in Seen
      /\ queue \in Ring /\ head \in Slots
  BY TypeFacts DEF IndInv
<1>2. CASE size = 0
  BY <1>1, <1>2 DEF After, IndInv, CoreAheadInv
<1>3. CASE size # 0
  <2>1. size - 1 \in 0 .. Capacity /\ size - 1 \in 0 .. size - 1
    BY <1>1, <1>3, CapacityAssumption
  <2>2. At(size - 1) = Entry(queue, head, size - 1)
    BY DEF At, Entry, SlotAt, Slot
  <2>3. At(size - 1) \in Delivery
    BY <1>1, <2>1, <2>2, EntryType
  <2>4. At(size - 1).Contact <= nextContact
    BY <2>1 DEF IndInv, PendingInv
  <2>5. After(size) = Position(At(size - 1))
    BY <1>3 DEF After
  <2> QED
    BY <2>3, <2>4, <2>5 DEF Position, Delivery, Seen
<1> QED
  BY <1>2, <1>3

(* A constructed core satisfies the inductive invariant.                   *)
THEOREM InvInit == Init => IndInv
<1> SUFFICES ASSUME Init PROVE IndInv
  OBVIOUS
<1>1. TypeOK /\ SessionInv
  BY TypeInit
<1>2. size = 0 /\ seenSample = 0 /\ nextSample = 0 /\ nextContact = 0 /\ ~started
  BY DEF Init
<1>3. PendingInv /\ SamplesInv
  BY <1>2 DEF PendingInv, SamplesInv
<1>4. CoreAheadInv
  BY <1>2 DEF CoreAheadInv, Init
<1> QED
  BY <1>1, <1>3, <1>4 DEF IndInv

(* A handler that leaves the ring empty and the receiver without a contact,*)
(* or the session over.                                                    *)
LEMMA EmptyStep ==
    ASSUME IndInv, size' = 0, seen' \in {seen, Closed(seen)},
           seenSample' = seenSample,
           nextContact' \in Nat, nextContact' >= nextContact,
           nextSample' \in Nat, nextSample' >= nextSample,
           started' => seen' = Closed(seen) /\ contactOpen' = FALSE
    PROVE  PendingInv' /\ SamplesInv' /\ CoreAheadInv'
<1>1. /\ seen \in Seen /\ seenSample \in Nat
      /\ nextContact \in Nat /\ nextSample \in Nat
      /\ seenSample <= nextSample /\ seen.Contact <= nextContact
  BY TypeFacts DEF IndInv, SamplesInv, CoreAheadInv
<1>2. PendingInv'
  BY DEF PendingInv
<1>3. SamplesInv'
  BY <1>1 DEF SamplesInv
<1>4. /\ seen'.Contact = seen.Contact
      /\ Closed(seen).ContactOpen = FALSE
  BY DEF Closed
<1>5. seen'.ContactOpen => seen' = seen
  BY <1>4
<1>6. CoreAheadInv'
  <2>1. seen'.Contact <= nextContact'
    BY <1>1, <1>4 DEF Seen
  <2>2. seen'.ContactOpen => seen'.Contact # 0 /\ seenSample' # 0
    BY <1>5 DEF IndInv, CoreAheadInv
  <2>3. ~seen'.ContactOpen => seen'.LastBatchOrdinal = 0 /\ seen'.LastSequence = 0
    BY DEF IndInv, CoreAheadInv, Closed
  <2>4. After(size)' = seen'
    BY DEF After
  <2>5. started' => /\ After(size)'.ContactOpen = contactOpen'
                    /\ contactOpen' = FALSE
    BY <1>4, <2>4
  <2> QED
    BY <2>1, <2>2, <2>3, <2>5 DEF CoreAheadInv
<1> QED
  BY <1>2, <1>3, <1>6

(* A handler that enqueues one delivery that follows everything pending.   *)
LEMMA EnqueueStep ==
    ASSUME IndInv, Room(1), NEW d \in Delivery, Enqueue(d),
           seen' = seen, seenSample' = seenSample,
           nextContact' \in Nat, nextContact' >= nextContact,
           nextSample' \in Nat, nextSample' >= nextSample,
           d.Slot = SlotAt(size), d.Contact <= nextContact',
           InSequence(After(size), d),
           IF d.Phase = "Cancel" THEN d.Sample = 0
               ELSE d.Sample > nextSample /\ d.Sample <= nextSample',
           Position(d).ContactOpen = contactOpen',
           contactOpen' => Position(d) =
              [ContactOpen |-> TRUE, Contact |-> contact',
               LastBatchOrdinal |-> batchOrdinal', LastSequence |-> sequence']
    PROVE  PendingInv' /\ SamplesInv' /\ CoreAheadInv'
<1>1. /\ queue \in Ring /\ head \in Slots /\ seen \in Seen
      /\ seenSample \in Nat /\ nextContact \in Nat /\ nextSample \in Nat
      /\ size \in 0 .. Capacity
  BY TypeFacts DEF IndInv
<1>2. size \in 0 .. Capacity - 1
  BY <1>1, CapacityAssumption DEF Room
<1>3. queue' = Put(queue, head, size, d) /\ head' = head /\ size' = size + 1
  BY RingView DEF Enqueue, Put
<1>4. /\ Pending(queue, head, size, seen, nextContact)
      /\ Ascending(queue, head, size, seenSample, nextSample)
      /\ d.Slot = Slot(head, size)
      /\ InSequence(Reached(queue, head, seen, size), d)
  BY RingView DEF IndInv
<1>5. /\ Pending(queue', head', size', seen', nextContact')
      /\ Reached(queue', head', seen', size') = Position(d)
  BY <1>1, <1>2, <1>3, <1>4, PutPending
<1>6. Ascending(queue', head', size', seenSample', nextSample')
  BY <1>1, <1>2, <1>3, <1>4, PutAscending
<1>7. CoreAheadInv'
  BY <1>1, <1>5, RingViewNext DEF CoreAheadInv, IndInv, Seen
<1> QED
  BY <1>5, <1>6, <1>7, RingViewNext

(* The handler that cancels the open contact and begins the next one.      *)
LEMMA RestartStep ==
    ASSUME IndInv, NEW reading \in Readings, contactOpen, Room(2),
           Capture(reading), nextContact' = nextContact + 1,
           queue' = [queue EXCEPT
                ![SlotAt(size)] = Cancellation(SlotAt(size)),
                ![SlotAt(size + 1)] =
                    Point(SlotAt(size + 1), nextContact + 1, 1, 1, "Begin", reading)],
           size' = size + 2, head' = head,
           OpenContact, seen' = seen, seenSample' = seenSample
    PROVE  PendingInv' /\ SamplesInv' /\ CoreAheadInv'
<1> DEFINE d == Cancellation(SlotAt(size))
           p == Point(SlotAt(size + 1), nextContact + 1, 1, 1, "Begin", reading)
           r == Put(queue, head, size, d)
<1>1. /\ queue \in Ring /\ head \in Slots /\ seen \in Seen
      /\ seenSample \in Nat /\ nextContact \in Nat /\ nextSample \in Nat
      /\ size \in 0 .. Capacity /\ TypeOK
      /\ contact \in Nat /\ batchOrdinal \in Nat /\ sequence \in Nat
  BY TypeFacts DEF IndInv
<1>2. size \in 0 .. Capacity - 1 /\ size + 1 \in 0 .. Capacity - 1
  BY <1>1, CapacityAssumption DEF Room
<1>3. started /\ nextSample' = nextSample + 1
  BY DEF Capture, InSession
<1>4. After(size) = [ContactOpen |-> TRUE, Contact |-> contact,
                     LastBatchOrdinal |-> batchOrdinal, LastSequence |-> sequence]
  BY <1>3 DEF IndInv, CoreAheadInv
<1>5. contact <= nextContact
  BY <1>4, AfterPending
<1>6. d \in Delivery /\ p \in Delivery
  BY <1>1, <1>2, SlotAtType, CancellationType, PointType, CapacityAssumption
     DEF Phases
<1>7. /\ d.Slot = Slot(head, size) /\ d.Contact = contact /\ d.Phase = "Cancel"
      /\ d.Sample = 0 /\ d.BatchOrdinal = batchOrdinal + 1 /\ d.Sequence = 0
  BY RingView DEF Cancellation
<1>8. /\ p.Slot = Slot(head, size + 1) /\ p.Contact = nextContact + 1
      /\ p.Phase = "Begin" /\ p.Sample = nextSample + 1
      /\ p.BatchOrdinal = 1 /\ p.Sequence = 1
  BY RingView DEF Point
<1>9. queue' = Put(r, head, size + 1, p)
  BY RingView DEF Put
<1>10. /\ Position(d) = [ContactOpen |-> FALSE, Contact |-> contact,
                         LastBatchOrdinal |-> 0, LastSequence |-> 0]
       /\ Position(p) = [ContactOpen |-> TRUE, Contact |-> nextContact + 1,
                         LastBatchOrdinal |-> 1, LastSequence |-> 1]
  BY <1>7, <1>8 DEF Position
<1> HIDE DEF d, p
<1>11. r \in Ring
  BY <1>1, <1>2, <1>6, PutEntries
<1>12. /\ Pending(r, head, size + 1, seen, nextContact)
       /\ Reached(r, head, seen, size + 1) = Position(d)
  <2>1. Pending(queue, head, size, seen, nextContact)
    BY RingView DEF IndInv
  <2>2. Reached(queue, head, seen, size) = After(size)
    BY RingView
  <2>3. InSequence(After(size), d)
    BY <1>4, <1>7 DEF InSequence
  <2> QED
    BY <1>1, <1>2, <1>5, <1>6, <1>7, <2>1, <2>2, <2>3, PutPending
<1>13. Ascending(r, head, size + 1, seenSample, nextSample)
  <2>1. Ascending(queue, head, size, seenSample, nextSample)
    BY RingView DEF IndInv
  <2> QED
    BY <1>1, <1>2, <1>6, <1>7, <2>1, PutAscending
<1> HIDE DEF r
<1>14. /\ nextContact + 1 \in Nat /\ nextContact <= nextContact + 1
       /\ nextSample + 1 \in Nat /\ nextSample <= nextSample + 1
       /\ nextSample + 1 > nextSample
       /\ size + 2 = (size + 1) + 1
  BY <1>1
<1>15. /\ Pending(queue', head', size', seen', nextContact')
       /\ Reached(queue', head', seen', size') = Position(p)
  <2>1. InSequence(Reached(r, head, seen, size + 1), p)
    BY <1>1, <1>5, <1>8, <1>10, <1>12 DEF InSequence
  <2>2. p.Contact <= nextContact + 1
    BY <1>1, <1>8
  <2>3. /\ Pending(Put(r, head, size + 1, p), head, (size + 1) + 1, seen, nextContact + 1)
        /\ Reached(Put(r, head, size + 1, p), head, seen, (size + 1) + 1) = Position(p)
    BY <1>1, <1>2, <1>6, <1>8, <1>11, <1>12, <1>14, <2>1, <2>2, PutPending
  <2> QED
    BY <1>9, <1>14, <2>3
<1>16. Ascending(queue', head', size', seenSample', nextSample')
  <2>1. Ascending(Put(r, head, size + 1, p), head, (size + 1) + 1,
                  seenSample, nextSample + 1)
    BY <1>1, <1>2, <1>6, <1>8, <1>11, <1>13, <1>14, PutAscending
  <2> QED
    BY <1>3, <1>9, <1>14, <2>1
<1>17. CoreAheadInv'
  <2>1. /\ contactOpen' = TRUE /\ contact' = nextContact + 1
        /\ batchOrdinal' = 1 /\ sequence' = 1
    BY DEF OpenContact
  <2>2. After(size)' = [ContactOpen |-> TRUE, Contact |-> contact',
                        LastBatchOrdinal |-> batchOrdinal', LastSequence |-> sequence']
    BY <1>10, <1>15, <2>1, RingViewNext
  <2>3. After(size)'.ContactOpen = contactOpen'
    <3>1. After(size)'.ContactOpen = TRUE
      BY <2>2
    <3> QED
      BY <2>1, <3>1, Zenon
  <2>4. /\ seen'.Contact <= nextContact'
        /\ seen'.ContactOpen => seen'.Contact # 0 /\ seenSample' # 0
        /\ ~seen'.ContactOpen => seen'.LastBatchOrdinal = 0 /\ seen'.LastSequence = 0
    BY <1>1 DEF CoreAheadInv, IndInv, Seen
  <2> QED
    BY <2>2, <2>3, <2>4 DEF CoreAheadInv
<1> QED
  BY <1>15, <1>16, <1>17, RingViewNext

(* A step that keeps the ring, the receiver and the core's contact.        *)
LEMMA QuietStep ==
    ASSUME IndInv, UNCHANGED <<queue, head, size, nextContact, nextSample,
                               contactOpen, contact, batchOrdinal, sequence,
                               started, seen, seenSample>>
    PROVE  PendingInv' /\ SamplesInv' /\ CoreAheadInv'
<1>1. PendingInv' /\ SamplesInv'
  BY RingView, RingViewNext DEF IndInv
<1>2. After(size)' = After(size)
  BY RingView, RingViewNext
<1> QED
  BY <1>1, <1>2 DEF IndInv, CoreAheadInv

(* The receiver accepts the head.                                          *)
LEMMA AcceptStep ==
    ASSUME IndInv, Drain("Accepted")
    PROVE  PendingInv' /\ SamplesInv' /\ CoreAheadInv'
<1>1. /\ queue \in Ring /\ head \in Slots /\ seen \in Seen
      /\ seenSample \in Nat /\ nextContact \in Nat /\ nextSample \in Nat
      /\ size \in 0 .. Capacity
  BY TypeFacts DEF IndInv
<1>2. size \in 1 .. Capacity
  BY <1>1, CapacityAssumption DEF Drain, IndInv, SessionInv
<1>3. /\ queue' = queue /\ head' = Slot(head, 1) /\ size' = size - 1
      /\ seen' = Position(queue[head])
      /\ seenSample' = IF queue[head].Sample = 0 THEN seenSample
                                                 ELSE queue[head].Sample
      /\ nextContact' = nextContact /\ nextSample' = nextSample
      /\ contactOpen' = contactOpen /\ contact' = contact
      /\ batchOrdinal' = batchOrdinal /\ sequence' = sequence
      /\ started' = started
  BY DEF Drain, NextHead, Slot, counters, current
<1>4. /\ Pending(queue', head', size', seen', nextContact')
      /\ Reached(queue', head', seen', size') = After(size)
  <2>1. Pending(queue, head, size, seen, nextContact)
    BY RingView DEF IndInv
  <2> QED
    BY <1>1, <1>2, <1>3, <2>1, PopPending, RingView
<1>5. Ascending(queue', head', size', seenSample', nextSample')
  <2>1. Ascending(queue, head, size, seenSample, nextSample)
    BY RingView DEF IndInv
  <2> QED
    BY <1>1, <1>2, <1>3, <2>1, PopAscending
<1>6. CoreAheadInv'
  <2>1. /\ queue[head] \in Delivery /\ queue[head].Contact <= nextContact
        /\ InSequence(seen, queue[head])
        /\ IF queue[head].Phase = "Cancel" THEN queue[head].Sample = 0
                                           ELSE queue[head].Sample > seenSample
    <3>1. /\ At(0) = queue[head] /\ 0 \in 0 .. size - 1 /\ After(0) = seen
          /\ queue[head] \in Delivery
      BY <1>1, <1>2, PopEntries DEF At, SlotAt, Entry, Slot, After, Ring
    <3> QED
      BY <3>1 DEF IndInv, PendingInv, SamplesInv
  <2>2. seen'.Contact <= nextContact'
    BY <1>3, <2>1 DEF Position
  <2>3. seen'.ContactOpen => seen'.Contact # 0 /\ seenSample' # 0
    <3>1. CASE queue[head].Phase \in {"Begin", "Update"}
      <4>1. queue[head].Sample # 0
        BY <1>1, <2>1, <3>1 DEF Delivery
      <4>2. queue[head].Contact # 0
        BY <1>1, <2>1, <3>1 DEF Delivery, InSequence, Seen, IndInv, CoreAheadInv
      <4> QED
        BY <1>3, <4>1, <4>2 DEF Position
    <3>2. CASE queue[head].Phase \notin {"Begin", "Update"}
      BY <1>3, <3>2 DEF Position
    <3> QED
      BY <3>1, <3>2
  <2>4. ~seen'.ContactOpen => seen'.LastBatchOrdinal = 0 /\ seen'.LastSequence = 0
    BY <1>3 DEF Position
  <2>5. After(size)' = After(size)
    BY <1>4, RingViewNext
  <2> QED
    BY <1>3, <2>2, <2>3, <2>4, <2>5 DEF CoreAheadInv, IndInv
<1> QED
  BY <1>4, <1>5, <1>6, RingViewNext

(* Every entry point of the core and every turn of _drain preserves the    *)
(* inductive invariant.                                                    *)
THEOREM InvStep == IndInv /\ [Next]_vars => IndInv'
<1> SUFFICES ASSUME IndInv, [Next]_vars
             PROVE  PendingInv' /\ SamplesInv' /\ CoreAheadInv'
  BY TypeStep DEF IndInv
<1> USE DEF IndInv
<1>0. /\ TypeOK /\ size \in 0 .. Capacity /\ SlotAt(size) \in Slots
      /\ nextContact \in Nat /\ nextSample \in Nat
      /\ contact \in Nat /\ batchOrdinal \in Nat /\ sequence \in Nat
      /\ nextContact >= nextContact /\ nextSample >= nextSample
      /\ nextContact + 1 >= nextContact /\ nextSample + 1 >= nextSample
      /\ nextContact + 1 \in Nat /\ nextSample + 1 \in Nat
      /\ contactOpen \in BOOLEAN
  BY TypeFacts, SlotAtType, CapacityAssumption DEF TypeOK
<1>1. CASE Start
  BY <1>0, <1>1, EmptyStep DEF Start, EmptyRing, ResetContact, counters
<1>2. CASE Stop
  BY <1>0, <1>2, EmptyStep DEF Stop, CloseSeen, EmptyRing, ResetContact, counters
<1>3. ASSUME NEW mask \in Masks, ObserveDevice(mask)
      PROVE  PendingInv' /\ SamplesInv' /\ CoreAheadInv'
  BY <1>3, QuietStep DEF ObserveDevice, ring, counters, current, history
<1>4. CASE CancelContact
  <2> DEFINE d == Cancellation(SlotAt(size))
  <2>1. CASE Room(1) /\ Enqueue(d) /\ ResetContact /\ ThenDrain
    <3>1. /\ d.Slot = SlotAt(size) /\ d.Contact = contact /\ d.Phase = "Cancel"
          /\ d.Sample = 0 /\ d.BatchOrdinal = batchOrdinal + 1 /\ d.Sequence = 0
          /\ d \in Delivery
      BY <1>0, CancellationType DEF Cancellation
    <3> HIDE DEF d
    <3>2. After(size) =
             [ContactOpen |-> TRUE, Contact |-> contact,
              LastBatchOrdinal |-> batchOrdinal, LastSequence |-> sequence]
      BY <1>4 DEF CancelContact, InSession, CoreAheadInv
    <3>3. d.Contact <= nextContact
      BY <3>1, <3>2, AfterPending
    <3>4. InSequence(After(size), d)
      BY <3>1, <3>2 DEF InSequence
    <3>5. /\ contactOpen' = FALSE /\ Position(d).ContactOpen = FALSE
          /\ Position(d).ContactOpen = contactOpen'
      BY <2>1, <3>1 DEF ResetContact, Position
    <3>6. /\ seen' = seen /\ seenSample' = seenSample
          /\ nextContact' = nextContact /\ nextSample' = nextSample
      BY <1>4, <2>1 DEF CancelContact, ThenDrain, counters, history
    <3> QED
      BY <1>0, <2>1, <3>1, <3>3, <3>4, <3>5, <3>6, EnqueueStep
  <2>2. CASE Fail
    BY <1>0, <1>4, <2>2, EmptyStep
       DEF Fail, CancelContact, EmptyRing, ResetContact, counters
  <2> QED
    BY <1>4, <2>1, <2>2 DEF CancelContact
<1>5. ASSUME NEW reading \in Readings, BeginContact(reading)
      PROVE  PendingInv' /\ SamplesInv' /\ CoreAheadInv'
  <2> DEFINE d == Point(SlotAt(size), nextContact + 1, 1, 1, "Begin", reading)
  <2>1. /\ nextContact' = nextContact + 1 /\ nextSample' = nextSample + 1
        /\ ~contactOpen /\ started
    BY <1>5 DEF BeginContact, Capture, InSession
  <2>2. CASE Room(1) /\ Enqueue(d) /\ OpenContact /\ ThenDrain
    <3>1. /\ d.Slot = SlotAt(size) /\ d.Contact = nextContact + 1
          /\ d.Phase = "Begin" /\ d.Sample = nextSample + 1
          /\ d.BatchOrdinal = 1 /\ d.Sequence = 1
          /\ d \in Delivery
      BY <1>0, PointType DEF Point, Phases
    <3> HIDE DEF d
    <3>2. After(size).ContactOpen = FALSE
      BY <1>0, <2>1 DEF CoreAheadInv
    <3>3. InSequence(After(size), d)
      BY <1>0, <3>1, <3>2, AfterPending DEF InSequence, Seen
    <3>4. /\ contactOpen' = TRUE /\ contact' = nextContact + 1
          /\ batchOrdinal' = 1 /\ sequence' = 1
      BY <2>2 DEF OpenContact
    <3>5. Position(d) = [ContactOpen |-> TRUE, Contact |-> contact',
                         LastBatchOrdinal |-> batchOrdinal', LastSequence |-> sequence']
      BY <3>1, <3>4 DEF Position
    <3>6. Position(d).ContactOpen = contactOpen'
      <4>1. Position(d).ContactOpen = TRUE
        BY <3>5
      <4> QED
        BY <3>4, <4>1, Zenon
    <3>7. seen' = seen /\ seenSample' = seenSample
      BY <2>2 DEF ThenDrain, history
    <3>8. /\ d.Contact <= nextContact'
          /\ d.Sample > nextSample /\ d.Sample <= nextSample'
      BY <1>0, <2>1, <3>1
    <3> QED
      BY <1>0, <2>1, <2>2, <3>1, <3>3, <3>5, <3>6, <3>7, <3>8, EnqueueStep
  <2>3. CASE Fail
    BY <1>0, <2>1, <2>3, EmptyStep DEF Fail, EmptyRing, ResetContact
  <2> QED
    BY <1>5, <2>2, <2>3 DEF BeginContact
<1>6. ASSUME NEW reading \in Readings, RestartContact(reading)
      PROVE  PendingInv' /\ SamplesInv' /\ CoreAheadInv'
  <2>1. CASE Room(2) /\ ThenDrain
    <3>1. /\ Capture(reading) /\ nextContact' = nextContact + 1
          /\ queue' = [queue EXCEPT
                ![SlotAt(size)] = Cancellation(SlotAt(size)),
                ![SlotAt(size + 1)] =
                    Point(SlotAt(size + 1), nextContact + 1, 1, 1, "Begin", reading)]
          /\ size' = size + 2 /\ head' = head /\ OpenContact /\ contactOpen
      BY <1>0, <1>6, <2>1, CapacityAssumption DEF RestartContact, Room
    <3>2. seen' = seen /\ seenSample' = seenSample
      BY <2>1 DEF ThenDrain, history
    <3> QED
      BY <2>1, <3>1, <3>2, RestartStep
  <2>2. CASE Fail
    <3>1. nextContact' \in {nextContact, nextContact + 1}
      BY <1>6, <2>2 DEF RestartContact, counters
    <3>2. nextSample' \in {nextSample, nextSample + 1}
      BY <1>6, <2>2 DEF RestartContact, Capture, counters
    <3> QED
      BY <1>0, <2>2, <3>1, <3>2, EmptyStep DEF Fail, EmptyRing, ResetContact
  <2> QED
    BY <1>6, <2>1, <2>2 DEF RestartContact
<1>7. ASSUME NEW reading \in Readings, NEW phase \in {"Update", "End"},
             ExtendContact(phase, reading)
      PROVE  PendingInv' /\ SamplesInv' /\ CoreAheadInv'
  <2> DEFINE d == Point(SlotAt(size), contact, batchOrdinal + 1, sequence + 1,
                        phase, reading)
  <2>1. /\ nextContact' = nextContact /\ nextSample' = nextSample + 1
        /\ contactOpen /\ started
    BY <1>7 DEF ExtendContact, Capture, InSession
  <2>2. CASE /\ Room(1) /\ Enqueue(d) /\ ThenDrain
             /\ \/ phase = "End" /\ ResetContact
                \/ /\ phase = "Update"
                   /\ batchOrdinal' = batchOrdinal + 1
                   /\ sequence' = sequence + 1
                   /\ UNCHANGED <<contactOpen, contact>>
    <3>1. /\ d.Slot = SlotAt(size) /\ d.Contact = contact
          /\ d.Phase = phase /\ d.Sample = nextSample + 1
          /\ d.BatchOrdinal = batchOrdinal + 1 /\ d.Sequence = sequence + 1
          /\ d \in Delivery
      BY <1>0, PointType DEF Point, Phases
    <3> HIDE DEF d
    <3>2. After(size) =
             [ContactOpen |-> TRUE, Contact |-> contact,
              LastBatchOrdinal |-> batchOrdinal, LastSequence |-> sequence]
      BY <2>1 DEF CoreAheadInv
    <3>3. d.Contact <= nextContact
      BY <3>1, <3>2, AfterPending
    <3>4. InSequence(After(size), d)
      BY <3>1, <3>2 DEF InSequence
    <3>5. seen' = seen /\ seenSample' = seenSample
      BY <2>2 DEF ThenDrain, history
    <3>6. /\ d.Contact <= nextContact' /\ d.Phase # "Cancel"
          /\ d.Sample > nextSample /\ d.Sample <= nextSample'
      BY <1>0, <2>1, <3>1, <3>3
    <3>7. /\ Position(d).ContactOpen = contactOpen'
          /\ contactOpen' => Position(d) =
                [ContactOpen |-> TRUE, Contact |-> contact',
                 LastBatchOrdinal |-> batchOrdinal', LastSequence |-> sequence']
      <4>1. CASE phase = "End" /\ ResetContact
        <5>1. contactOpen' = FALSE /\ Position(d).ContactOpen = FALSE
          BY <3>1, <4>1 DEF ResetContact, Position
        <5> QED
          BY <5>1, Zenon
      <4>2. CASE /\ phase = "Update"
                 /\ batchOrdinal' = batchOrdinal + 1
                 /\ sequence' = sequence + 1
                 /\ UNCHANGED <<contactOpen, contact>>
        <5>1. contactOpen' = TRUE
          BY <1>0, <2>1, <4>2
        <5>2. Position(d) = [ContactOpen |-> TRUE, Contact |-> contact',
                LastBatchOrdinal |-> batchOrdinal', LastSequence |-> sequence']
          BY <3>1, <4>2 DEF Position
        <5>3. Position(d).ContactOpen = TRUE
          BY <5>2
        <5> QED
          BY <5>1, <5>2, <5>3, Zenon
      <4> QED
        BY <2>2, <4>1, <4>2
    <3> QED
      BY <1>0, <2>1, <2>2, <3>1, <3>4, <3>5, <3>6, <3>7, EnqueueStep
  <2>3. CASE Fail
    BY <1>0, <2>1, <2>3, EmptyStep DEF Fail, EmptyRing, ResetContact
  <2> QED
    BY <1>7, <2>2, <2>3 DEF ExtendContact
<1>8. CASE RetryPending
  BY <1>8, QuietStep DEF RetryPending, ring, counters, current, history
<1>9. ASSUME NEW decision \in Decisions, Drain(decision)
      PROVE  PendingInv' /\ SamplesInv' /\ CoreAheadInv'
  <2>1. CASE decision = "Accepted"
    BY <1>9, <2>1, AcceptStep
  <2>2. CASE decision = "Busy"
    BY <1>9, <2>2, QuietStep DEF Drain, counters, current
  <2>3. CASE decision = "Rejected"
    BY <1>0, <1>9, <2>3, EmptyStep
       DEF Drain, Discard, EmptyRing, ResetContact, counters
  <2> QED
    BY <2>1, <2>2, <2>3 DEF Decisions
<1>10. CASE UNCHANGED vars
  BY <1>10, QuietStep DEF vars, ring, counters, current, history
<1> QED
  BY <1>1, <1>2, <1>3, <1>4, <1>5, <1>6, <1>7, <1>8, <1>9, <1>10 DEF Next

(* The inductive invariant holds in every reachable state of the core, for *)
(* every capacity: each pending delivery follows the one before it, and    *)
(* the core's contact is where the receiver will be.                       *)
THEOREM Invariance == Spec => []IndInv
BY InvInit, InvStep, PTL DEF Spec

-----------------------------------------------------------------------------
(* What follows from the inductive invariant.                              *)

(* What the invariant says of the delivery _drain offers.                  *)
LEMMA HeadFacts ==
    ASSUME IndInv, size > 0
    PROVE  /\ queue[head] \in Delivery
           /\ InSequence(seen, queue[head])
           /\ IF queue[head].Phase = "Cancel" THEN queue[head].Sample = 0
                                              ELSE queue[head].Sample > seenSample
<1>1. queue \in Ring /\ head \in Slots /\ size \in 1 .. Capacity
  BY TypeFacts, CapacityAssumption DEF IndInv
<1>2. /\ At(0) = queue[head] /\ 0 \in 0 .. size - 1 /\ After(0) = seen
      /\ queue[head] \in Delivery
  BY <1>1, PopEntries DEF At, SlotAt, Entry, Slot, After, Ring
<1> QED
  BY <1>2 DEF IndInv, PendingInv, SamplesInv

(* Every delivery offered, at any capacity and after any history, is the   *)
(* next one the receiver can take.                                         *)
THEOREM OffersNeverOutOfSequence == Spec => []OffersInSequence
<1>1. IndInv => OffersInSequence
  BY HeadFacts DEF OffersInSequence
<1> QED
  BY <1>1, Invariance, PTL

(* Nothing but an answer of the receiver moves the head of the ring.       *)
LEMMA HeadStays ==
    ASSUME IndInv, size > 0, NEW d, NEW i \in 1 .. Capacity - 1
    PROVE  [queue EXCEPT ![SlotAt(i)] = d][head] = queue[head]
<1>1. head \in Slots /\ queue \in Ring
  BY TypeFacts DEF IndInv
<1>2. SlotAt(i) = IF head + i < Capacity THEN head + i ELSE head + i - Capacity
  BY <1>1, SlotWraps, CapacityAssumption DEF SlotAt, Slot
<1>3. SlotAt(i) # head
  BY <1>1, <1>2, CapacityAssumption DEF Slots
<1> QED
  BY <1>1, <1>3 DEF Ring

(* An accepted delivery changes what the receiver has seen.                *)
LEMMA AcceptedMovesReceiver ==
    ASSUME IndInv, Drain("Accepted") PROVE seen' # seen
<1>1. size > 0
  BY DEF Drain, IndInv, SessionInv
<1>2. /\ queue[head] \in Delivery /\ InSequence(seen, queue[head])
      /\ seen \in Seen /\ seen' = Position(queue[head])
  BY <1>1, HeadFacts, TypeFacts DEF Drain, IndInv
<1>3. CASE queue[head].Phase \in {"Begin", "Update"}
  <2>1. seen'.LastBatchOrdinal = seen.LastBatchOrdinal + 1
    BY <1>2, <1>3 DEF Position, InSequence
  <2> QED
    BY <1>2, <2>1 DEF Seen
<1>4. CASE queue[head].Phase \notin {"Begin", "Update"}
  <2>1. seen.ContactOpen /\ ~seen'.ContactOpen
    BY <1>2, <1>4 DEF Position, InSequence
  <2> QED
    BY <2>1
<1> QED
  BY <1>3, <1>4

(* No step that leaves the receiver where it is replaces the head of a     *)
(* ring that stays nonempty.                                               *)
LEMMA RetainsStep ==
    ASSUME IndInv, [Next]_vars,
           size > 0, size' > 0, seen' = seen, seenSample' = seenSample
    PROVE  queue'[head'] = queue[head] /\ head' = head
<1>0. size \in 1 .. Capacity
  BY TypeFacts, CapacityAssumption DEF IndInv
<1>1. CASE UNCHANGED <<queue, head>>
  BY <1>1
<1>2. ASSUME NEW d, Enqueue(d), Room(1)
      PROVE  queue'[head'] = queue[head] /\ head' = head
  <2>1. size \in 1 .. Capacity - 1
    BY <1>0, <1>2, CapacityAssumption DEF Room
  <2> QED
    BY <1>2, <2>1, HeadStays DEF Enqueue
<1>3. CASE size' = 0
  BY <1>3
<1>4. ASSUME NEW reading \in Readings, RestartContact(reading), size' = size + 2
      PROVE  queue'[head'] = queue[head] /\ head' = head
  <2>1. Room(2) /\ head' = head
    BY <1>0, <1>4 DEF RestartContact, Fail, EmptyRing
  <2>2. size \in 1 .. Capacity - 1 /\ size + 1 \in 1 .. Capacity - 1
    BY <1>0, <2>1, CapacityAssumption DEF Room
  <2> DEFINE p == Point(SlotAt(size + 1), nextContact + 1, 1, 1, "Begin", reading)
             c == Cancellation(SlotAt(size))
  <2>3. queue' = [queue EXCEPT ![SlotAt(size)] = c, ![SlotAt(size + 1)] = p]
    BY <1>0, <1>4, <2>1, CapacityAssumption DEF RestartContact, Room, Fail, EmptyRing
  <2> HIDE DEF p, c
  <2>4. head \in Slots /\ queue \in Ring
    BY TypeFacts DEF IndInv
  <2>5. SlotAt(size) # head /\ SlotAt(size + 1) # head
    <3>1. /\ SlotAt(size) = IF head + size < Capacity THEN head + size
                                                   ELSE head + size - Capacity
          /\ SlotAt(size + 1) = IF head + (size + 1) < Capacity
                                THEN head + (size + 1)
                                ELSE head + (size + 1) - Capacity
      BY <2>2, <2>4, SlotWraps, CapacityAssumption DEF SlotAt, Slot
    <3> QED
      BY <2>2, <2>4, <3>1, CapacityAssumption DEF Slots
  <2> QED
    BY <2>1, <2>3, <2>4, <2>5 DEF Ring
<1>5. CASE Start \/ Stop \/ \E mask \in Masks : ObserveDevice(mask)
  BY <1>1, <1>3, <1>5 DEF Start, Stop, ObserveDevice, EmptyRing, ring
<1>6. CASE CancelContact
  BY <1>2, <1>3, <1>6 DEF CancelContact, Fail, EmptyRing
<1>7. ASSUME NEW reading \in Readings, BeginContact(reading)
      PROVE  queue'[head'] = queue[head] /\ head' = head
  BY <1>2, <1>3, <1>7 DEF BeginContact, Fail, EmptyRing
<1>8. ASSUME NEW reading \in Readings, RestartContact(reading)
      PROVE  queue'[head'] = queue[head] /\ head' = head
  BY <1>3, <1>4, <1>8 DEF RestartContact, Fail, EmptyRing
<1>9. ASSUME NEW reading \in Readings, NEW phase \in {"Update", "End"},
             ExtendContact(phase, reading)
      PROVE  queue'[head'] = queue[head] /\ head' = head
  BY <1>2, <1>3, <1>9 DEF ExtendContact, Fail, EmptyRing
<1>10. CASE RetryPending
  BY <1>1, <1>10 DEF RetryPending, ring
<1>11. ASSUME NEW decision \in Decisions, Drain(decision)
       PROVE  queue'[head'] = queue[head] /\ head' = head
  <2>1. CASE decision = "Accepted"
    BY <1>11, <2>1, AcceptedMovesReceiver
  <2>2. CASE decision = "Busy"
    BY <1>1, <1>11, <2>2 DEF Drain
  <2>3. CASE decision = "Rejected"
    BY <1>3, <1>11, <2>3 DEF Drain, Discard, EmptyRing
  <2> QED
    BY <2>1, <2>2, <2>3 DEF Decisions
<1>12. CASE UNCHANGED vars
  BY <1>1, <1>12 DEF vars, ring
<1> QED
  BY <1>5, <1>6, <1>7, <1>8, <1>9, <1>10, <1>11, <1>12 DEF Next

(* A delivery the receiver was too busy for stays at the head, in its slot *)
(* and unchanged, whatever is captured meanwhile.                          *)
THEOREM BusyNeverReplacesHead == Spec => BusyRetainsHead
<1>1. IndInv /\ [Next]_vars
      => [size > 0 /\ size' > 0 /\ UNCHANGED <<seen, seenSample>>
          => queue'[head'] = queue[head] /\ head' = head]_vars
  BY RetainsStep
<1> QED
  BY <1>1, Invariance, PTL DEF Spec, BusyRetainsHead

(* With nothing pending, what Stop offers is the Cancel the receiver needs.*)
THEOREM DrainedStopIsExact == Spec => DrainedStopCancelsSeen
<1>1. ASSUME IndInv, Stop, size = 0
      PROVE  IF seen.ContactOpen
             THEN StopOffers # {} /\ \A d \in StopOffers : InSequence(seen, d)
             ELSE StopOffers = {}
  <2>1. started /\ After(size) = seen
    BY <1>1 DEF Stop, After
  <2>2. /\ seen.ContactOpen = contactOpen
        /\ contactOpen => seen =
              [ContactOpen |-> TRUE, Contact |-> contact,
               LastBatchOrdinal |-> batchOrdinal, LastSequence |-> sequence]
    BY <1>1, <2>1 DEF IndInv, CoreAheadInv
  <2>3. CASE contactOpen
    <3> DEFINE d == Cancellation(0)
    <3>1. StopOffers = {d}
      BY <2>3 DEF StopOffers
    <3>2. /\ d.BatchOrdinal = batchOrdinal + 1 /\ d.Contact = contact
          /\ d.Phase = "Cancel" /\ d.Sequence = 0
      BY DEF Cancellation
    <3>3. /\ seen.LastBatchOrdinal = batchOrdinal /\ seen.Contact = contact
          /\ seen.ContactOpen
      BY <2>2, <2>3
    <3> HIDE DEF d
    <3>4. InSequence(seen, d)
      BY <3>2, <3>3 DEF InSequence
    <3> QED
      BY <3>1, <3>3, <3>4
  <2>4. CASE ~contactOpen
    BY <2>2, <2>4 DEF StopOffers
  <2> QED
    BY <2>3, <2>4
<1>2. IndInv /\ [Next]_vars
      => [Stop /\ size = 0
          => IF seen.ContactOpen
             THEN StopOffers # {} /\ \A d \in StopOffers : InSequence(seen, d)
             ELSE StopOffers = {}]_vars
  BY <1>1
<1> QED
  BY <1>2, Invariance, PTL DEF Spec, DrainedStopCancelsSeen

(* A ring of two or more overflows only while a delivery waits.            *)
THEOREM OverflowMeansBusy ==
    ASSUME Capacity >= 2 PROVE Spec => OverflowOnlyWhileBusy
<1>1. ASSUME IndInv, [Next]_vars, failure = "None", failure' = "Overflow"
      PROVE  size > 0
  <2>1. size \in 0 .. Capacity
    BY <1>1, TypeFacts DEF IndInv
  <2>2. CASE CancelContact
    BY <1>1, <2>1, <2>2, CapacityAssumption DEF CancelContact, ThenDrain, history, Room
  <2>3. ASSUME NEW reading \in Readings, BeginContact(reading) PROVE size > 0
    BY <1>1, <2>1, <2>3, CapacityAssumption DEF BeginContact, ThenDrain, history, Room
  <2>4. ASSUME NEW reading \in Readings, RestartContact(reading) PROVE size > 0
    <3>1. ~Room(2)
      BY <1>1, <2>1, <2>4, CapacityAssumption
         DEF RestartContact, ThenDrain, history, Room
    <3> QED
      BY <2>1, <3>1, CapacityAssumption DEF Room
  <2>5. ASSUME NEW reading \in Readings, NEW phase \in {"Update", "End"},
               ExtendContact(phase, reading)
        PROVE  size > 0
    BY <1>1, <2>1, <2>5, CapacityAssumption DEF ExtendContact, ThenDrain, history, Room
  <2>6. CASE Start \/ Stop \/ RetryPending \/ UNCHANGED vars
             \/ (\E mask \in Masks : ObserveDevice(mask))
             \/ (\E decision \in Decisions : Drain(decision))
    BY <1>1, <2>6 DEF Start, Stop, RetryPending, ObserveDevice, Drain, vars, history
  <2> QED
    BY <1>1, <2>2, <2>3, <2>4, <2>5, <2>6 DEF Next
<1>2. IndInv /\ [Next]_vars
      => [failure = "None" /\ failure' = "Overflow" => size > 0]_vars
  BY <1>1
<1> QED
  BY <1>2, Invariance, PTL DEF Spec, OverflowOnlyWhileBusy

-----------------------------------------------------------------------------
(* The core implements the contract of an input source.                    *)

(* The receiver's view, spelled out for an open and a closed contact.      *)
LEMMA ViewOf ==
    /\ seen.ContactOpen => ReceiverView =
          [ContactOpen |-> TRUE, Contact |-> seen.Contact,
           LastBatchOrdinal |-> seen.LastBatchOrdinal,
           LastSampleId |-> seenSample,
           LastCommittedSequence |-> seen.LastSequence]
    /\ ~seen.ContactOpen => ReceiverView = Stream!NoContact
    /\ seen'.ContactOpen => ReceiverView' =
          [ContactOpen |-> TRUE, Contact |-> seen'.Contact,
           LastBatchOrdinal |-> seen'.LastBatchOrdinal,
           LastSampleId |-> seenSample',
           LastCommittedSequence |-> seen'.LastSequence]
    /\ ~seen'.ContactOpen => ReceiverView' = Stream!NoContact
BY DEF ReceiverView, Stream!NoContact

(* An accepted delivery is a Deliver step of the source contract.          *)
LEMMA AcceptDelivers ==
    ASSUME IndInv, Drain("Accepted") PROVE Stream!Deliver
<1> DEFINE d == queue[head]
<1>1. size > 0 /\ started
  BY DEF Drain, IndInv, SessionInv
<1>2. /\ d \in Delivery /\ InSequence(seen, d)
      /\ IF d.Phase = "Cancel" THEN d.Sample = 0 ELSE d.Sample > seenSample
  BY <1>1, HeadFacts
<1>3. /\ seen' = Position(d) /\ started' = started
      /\ seenSample' = IF d.Sample = 0 THEN seenSample ELSE d.Sample
  BY DEF Drain
<1>4. seen \in Seen /\ seenSample \in Nat
  BY TypeFacts DEF IndInv
<1> HIDE DEF d
<1>5. CASE d.Phase \in {"Begin", "Update"}
  <2>1. seen' = [ContactOpen |-> TRUE, Contact |-> d.Contact,
                 LastBatchOrdinal |-> d.BatchOrdinal, LastSequence |-> d.Sequence]
    BY <1>3, <1>5 DEF Position
  <2>2. /\ d.Contact \in Nat /\ d.BatchOrdinal \in Nat /\ d.Sequence \in Nat
        /\ d.Sample \in Nat /\ d.Sample > seenSample /\ d.Phase # "Cancel"
    BY <1>2, <1>5 DEF Delivery
  <2>3. seenSample' = d.Sample
    BY <1>3, <1>4, <2>2
  <2>4. ReceiverView' =
          [ContactOpen |-> TRUE, Contact |-> d.Contact,
           LastBatchOrdinal |-> d.BatchOrdinal, LastSampleId |-> d.Sample,
           LastCommittedSequence |-> d.Sequence]
    BY <2>1, <2>3, ViewOf
  <2>5. ReceiverView' \in Stream!View
    BY <2>2, <2>4 DEF Stream!View
  <2>6. CASE d.Phase = "Begin"
    <3>1. ~seen.ContactOpen /\ d.Contact > seen.Contact
      BY <1>2, <2>6 DEF InSequence
    <3>2. d.Contact # 0 /\ d.Sample # 0
      BY <1>4, <2>2, <3>1 DEF Seen
    <3>3. ReceiverView = Stream!NoContact
      BY <3>1, ViewOf
    <3>4. Stream!Opens(ReceiverView, ReceiverView')
      BY <2>4, <2>5, <3>2, <3>3 DEF Stream!Opens, Stream!NoContact
    <3> QED
      BY <1>1, <1>3, <3>4 DEF Stream!Deliver
  <2>7. CASE d.Phase = "Update"
    <3>1. /\ seen.ContactOpen /\ d.Contact = seen.Contact
          /\ d.BatchOrdinal = seen.LastBatchOrdinal + 1
          /\ d.Sequence = seen.LastSequence + 1
      BY <1>2, <2>7 DEF InSequence
    <3>2. ReceiverView =
            [ContactOpen |-> TRUE, Contact |-> seen.Contact,
             LastBatchOrdinal |-> seen.LastBatchOrdinal,
             LastSampleId |-> seenSample,
             LastCommittedSequence |-> seen.LastSequence]
      BY <3>1, ViewOf
    <3>3. /\ d.BatchOrdinal > seen.LastBatchOrdinal
          /\ d.Sequence >= seen.LastSequence
      BY <1>4, <3>1 DEF Seen
    <3>4. Stream!Extends(ReceiverView, ReceiverView')
      BY <2>2, <2>4, <2>5, <3>1, <3>2, <3>3 DEF Stream!Extends
    <3> QED
      BY <1>1, <1>3, <3>4 DEF Stream!Deliver
  <2> QED
    BY <1>5, <2>6, <2>7
<1>6. CASE d.Phase \notin {"Begin", "Update"}
  <2>1. seen.ContactOpen /\ ~seen'.ContactOpen
    BY <1>2, <1>3, <1>6 DEF InSequence, Position
  <2>2. Stream!Closes(ReceiverView, ReceiverView')
    <3>1. ReceiverView.ContactOpen
      BY <2>1, ViewOf
    <3> QED
      BY <2>1, <3>1, ViewOf DEF Stream!Closes, Stream!NoContact
  <2> QED
    BY <1>1, <1>3, <2>2 DEF Stream!Deliver
<1> QED
  BY <1>5, <1>6

(* Every step of the core is a step of the source contract or leaves its   *)
(* variables alone.                                                        *)
LEMMA StreamStep == IndInv /\ [Next]_vars => [Stream!Next]_(Stream!vars)
<1> SUFFICES ASSUME IndInv, [Next]_vars
             PROVE  Stream!Next \/ UNCHANGED Stream!vars
  OBVIOUS
<1>1. ASSUME UNCHANGED <<started, seen, seenSample>>
      PROVE  UNCHANGED Stream!vars
  BY <1>1 DEF Stream!vars, ReceiverView
<1>2. ASSUME Fail, started PROVE Stream!Leave
  <2>1. started' = FALSE /\ ~seen'.ContactOpen
    BY <1>2 DEF Fail, Closed
  <2> QED
    BY <1>2, <2>1, ViewOf DEF Stream!Leave
<1>3. CASE Start
  <2>1. ~started /\ started' = TRUE /\ ~seen'.ContactOpen
    BY <1>3 DEF Start, Closed
  <2> QED
    BY <2>1, ViewOf DEF Stream!Next, Stream!Start
<1>4. CASE Stop
  <2>1. /\ started /\ started' = FALSE /\ seenSample' = seenSample
        /\ seen' \in {seen, Closed(seen)}
    BY <1>4 DEF Stop, CloseSeen
  <2>2. CASE seen' = seen
    BY <2>1, <2>2 DEF Stream!Next, Stream!Leave, ReceiverView
  <2>3. CASE ~seen'.ContactOpen
    BY <2>1, <2>3, ViewOf DEF Stream!Next, Stream!Leave
  <2> QED
    BY <2>1, <2>2, <2>3 DEF Closed
<1>5. ASSUME NEW mask \in Masks, ObserveDevice(mask) PROVE UNCHANGED Stream!vars
  BY <1>1, <1>5 DEF ObserveDevice, history
<1>6. CASE CancelContact
  BY <1>1, <1>2, <1>6 DEF CancelContact, InSession, ThenDrain, history, Stream!Next
<1>7. ASSUME NEW reading \in Readings, BeginContact(reading)
      PROVE  Stream!Next \/ UNCHANGED Stream!vars
  BY <1>1, <1>2, <1>7
     DEF BeginContact, Capture, InSession, ThenDrain, history, Stream!Next
<1>8. ASSUME NEW reading \in Readings, RestartContact(reading)
      PROVE  Stream!Next \/ UNCHANGED Stream!vars
  BY <1>1, <1>2, <1>8
     DEF RestartContact, Capture, InSession, ThenDrain, history, Stream!Next
<1>9. ASSUME NEW reading \in Readings, NEW phase \in {"Update", "End"},
             ExtendContact(phase, reading)
      PROVE  Stream!Next \/ UNCHANGED Stream!vars
  BY <1>1, <1>2, <1>9
     DEF ExtendContact, Capture, InSession, ThenDrain, history, Stream!Next
<1>10. CASE RetryPending
  BY <1>1, <1>10 DEF RetryPending, history
<1>11. ASSUME NEW decision \in Decisions, Drain(decision)
       PROVE  Stream!Next \/ UNCHANGED Stream!vars
  <2>1. CASE decision = "Accepted"
    BY <1>11, <2>1, AcceptDelivers DEF Stream!Next
  <2>2. CASE decision = "Busy"
    BY <1>1, <1>11, <2>2 DEF Drain
  <2>3. CASE decision = "Rejected"
    <3>1. started /\ started' = started /\ ~seen'.ContactOpen
      BY <1>11, <2>3 DEF Drain, Closed, IndInv, SessionInv
    <3> QED
      BY <3>1, ViewOf DEF Stream!Next, Stream!Reject
  <2> QED
    BY <2>1, <2>2, <2>3 DEF Decisions
<1>12. CASE UNCHANGED vars
  BY <1>1, <1>12 DEF vars, history
<1> QED
  BY <1>3, <1>4, <1>5, <1>6, <1>7, <1>8, <1>9, <1>10, <1>11, <1>12
     DEF Next, Stream!Next

(* Every behaviour of the core, seen from the receiver, is one the source  *)
(* contract allows.                                                        *)
THEOREM CoreImplementsStream == Spec => ImplementsContactStream
<1>1. Init => Stream!Init
  BY DEF Init, Stream!Init, ReceiverView, Stream!NoContact
<1> QED
  BY <1>1, StreamStep, Invariance, PTL
     DEF Spec, ImplementsContactStream, Stream!Spec
=============================================================================
