----------------------- MODULE FakeInputSourceProofs -----------------------
(***************************************************************************)
(* Theorems about the scripted source, for every queue capacity, every set *)
(* of capabilities and every script.                                       *)
(*                                                                         *)
(* The invariant has two halves.  The ring: the slots from head hold what  *)
(* is pending, batch for batch and sample for sample.  The path: what is   *)
(* pending, accepted in order, leads the receiver's state to the script's. *)
(* Both are stated of a ring and of a list of batches, so that one lemma   *)
(* speaks of the state before a step and of the state after it.            *)
(***************************************************************************)
EXTENDS FakeInputSource, BatchValidationProofs

Limit == Capabilities.MaximumBatchSamples

LEMMA ConstantTypes ==
    /\ QueueCapacity \in Nat \ {0}
    /\ Capabilities \in InputSourceCapabilities
    /\ Limit \in Nat \ {0} /\ Limit <= MaximumBatchSamples
    /\ OrdinalValues \in Nat \ {0}
    /\ Batches \subseteq InputBatch
    /\ \A batch \in Batches : batch.BatchOrdinal \in 0 .. OrdinalValues - 1
<1>1. MaximumBatchSamples \in Nat \ {0}
  BY BatchBoundAssumption
<1> QED
  BY <1>1, DescriptorAssumption, ScriptAssumption DEF Creatable, MaximumQueuedBatches, Limit

-----------------------------------------------------------------------------
(* The ring.                                                               *)

Slot(h, i) == (h + i) % QueueCapacity

(* A place past the end of the ring wraps to its start.                    *)
LEMMA SlotWraps ==
    ASSUME NEW h \in Slots, NEW i \in 0 .. QueueCapacity
    PROVE  /\ Slot(h, i) = IF h + i < QueueCapacity THEN h + i ELSE h + i - QueueCapacity
           /\ Slot(h, i) \in Slots
BY ConstantTypes DEF Slots, Slot

(* The slots of different pending batches differ.                          *)
LEMMA SlotsDiffer ==
    ASSUME NEW h \in Slots, NEW n \in 0 .. QueueCapacity - 1, NEW i \in 0 .. n - 1
    PROVE  Slot(h, i) # Slot(h, n)
<1>1. i \in 0 .. QueueCapacity /\ n \in 0 .. QueueCapacity /\ h \in 0 .. QueueCapacity - 1
  BY ConstantTypes DEF Slots
<1>2. /\ Slot(h, i) = IF h + i < QueueCapacity THEN h + i ELSE h + i - QueueCapacity
      /\ Slot(h, n) = IF h + n < QueueCapacity THEN h + n ELSE h + n - QueueCapacity
  BY <1>1, SlotWraps
<1> QED
  BY <1>1, <1>2, ConstantTypes

(* The slot after head is where the rest of the pending batches start.     *)
LEMMA NextSlots ==
    ASSUME NEW h \in Slots, NEW n \in 1 .. QueueCapacity
    PROVE  /\ Slot(h, 0) = h
           /\ Slot(h, 1) \in Slots
           /\ \A i \in 0 .. n - 2 : Slot(Slot(h, 1), i) = Slot(h, i + 1)
<1>1. 1 \in 0 .. QueueCapacity /\ 0 \in 0 .. QueueCapacity /\ h \in 0 .. QueueCapacity - 1
  BY ConstantTypes DEF Slots
<1> DEFINE g == Slot(h, 1)
<1>2. /\ Slot(h, 0) = h
      /\ g = IF h + 1 < QueueCapacity THEN h + 1 ELSE h + 1 - QueueCapacity
      /\ g \in Slots
  BY <1>1, SlotWraps, ConstantTypes
<1> HIDE DEF g
<1>3. ASSUME NEW i \in 0 .. n - 2 PROVE Slot(g, i) = Slot(h, i + 1)
  <2>1. i \in 0 .. QueueCapacity /\ i + 1 \in 0 .. QueueCapacity
    BY ConstantTypes
  <2>2. /\ Slot(g, i) = IF g + i < QueueCapacity THEN g + i ELSE g + i - QueueCapacity
        /\ Slot(h, i + 1) = IF h + (i + 1) < QueueCapacity THEN h + (i + 1)
                            ELSE h + (i + 1) - QueueCapacity
    BY <2>1, <1>2, SlotWraps
  <2> QED
    BY <1>1, <1>2, <2>1, <2>2, ConstantTypes
<1> QED
  BY <1>2, <1>3 DEF g

(* The places of a slot lie in the arena, and those of two slots are apart.*)
LEMMA SlotPlaces ==
    ASSUME NEW s \in Slots, NEW j \in 1 .. Limit
    PROVE  /\ OffsetOf(s) \in Places
           /\ OffsetOf(s) + j - 1 \in Places
           /\ \A t \in Slots : t # s =>
                 OffsetOf(s) + j - 1 \notin OffsetOf(t) .. OffsetOf(t) + Limit - 1
<1>1. /\ s \in Nat /\ s < QueueCapacity /\ Limit \in Nat \ {0} /\ j \in Nat /\ j <= Limit
      /\ QueueCapacity \in Nat
  BY ConstantTypes DEF Slots
<1>2. \A a, b \in Nat : a < b => a * Limit + Limit <= b * Limit
  <2> SUFFICES ASSUME NEW a \in Nat, NEW b \in Nat, a < b
               PROVE  a * Limit + Limit <= b * Limit
    OBVIOUS
  <2>1. b - (a + 1) \in Nat
    OBVIOUS
  <2>2. b * Limit = (a + 1) * Limit + (b - (a + 1)) * Limit
    BY <1>1
  <2>3. (b - (a + 1)) * Limit \in Nat
    BY <1>1, <2>1
  <2>4. (a + 1) * Limit = a * Limit + Limit
    BY <1>1
  <2>5. a * Limit \in Nat /\ b * Limit \in Nat
    BY <1>1
  <2> QED
    BY <1>1, <2>2, <2>3, <2>4, <2>5
<1>3. /\ OffsetOf(s) = s * Limit /\ OffsetOf(s) \in Nat
      /\ Places = 0 .. QueueCapacity * Limit - 1
      /\ QueueCapacity * Limit \in Nat
  BY <1>1 DEF OffsetOf, Limit, Places
<1>4. s * Limit + Limit <= QueueCapacity * Limit
  BY <1>1, <1>2
<1>5. ASSUME NEW t \in Slots, t # s
      PROVE  OffsetOf(s) + j - 1 \notin OffsetOf(t) .. OffsetOf(t) + Limit - 1
  <2>1. t \in Nat /\ OffsetOf(t) = t * Limit /\ t * Limit \in Nat
    BY <1>1 DEF OffsetOf, Limit, Slots
  <2>2. t * Limit + Limit <= s * Limit \/ s * Limit + Limit <= t * Limit
    BY <1>1, <1>2, <1>5, <2>1
  <2> QED
    BY <1>1, <1>3, <2>1, <2>2
<1> QED
  BY <1>1, <1>3, <1>4, <1>5

(* Holds: slot s of the ring q and the arena a hold the batch.             *)
Holds(q, a, s, batch) ==
    /\ q[s].Contact = batch.Contact
    /\ q[s].BatchOrdinal = batch.BatchOrdinal
    /\ q[s].Phase = batch.Phase
    /\ q[s].SampleCount = Len(batch.Samples)
    /\ Len(batch.Samples) <= Limit
    /\ \A j \in 1 .. Len(batch.Samples) : a[OffsetOf(s) + j - 1] = batch.Samples[j]

Stored(q, a, h, batches) ==
    \A i \in 1 .. Len(batches) : Holds(q, a, Slot(h, i - 1), batches[i])

(* Every slot keeps the offset it was created with.                        *)
Partitioned(q) == \A s \in Slots : q[s].SampleOffset = OffsetOf(s)

Ring  == [Slots -> BatchSlot]
Arena == [Places -> InputSample]

(* What Enqueue writes for a batch into slot t.                            *)
Entered(q, t, batch) ==
    [q EXCEPT ![t] = [Contact      |-> batch.Contact,
                      BatchOrdinal |-> batch.BatchOrdinal,
                      Phase        |-> batch.Phase,
                      SampleOffset |-> q[t].SampleOffset,
                      SampleCount  |-> Len(batch.Samples)]]

Copied(a, offset, samples) ==
    [place \in Places |-> IF place \in offset .. offset + Len(samples) - 1
                          THEN samples[place - offset + 1] ELSE a[place]]

(* Storing a batch puts it into its slot and leaves the other slots, and   *)
(* the samples they own, as they were.                                     *)
LEMMA EnterSlot ==
    ASSUME NEW q \in Ring, NEW a \in Arena, NEW t \in Slots, Partitioned(q),
           NEW batch \in InputBatch, batch.BatchOrdinal \in 0 .. OrdinalValues - 1,
           batch.Phase \in Phases, Len(batch.Samples) <= Limit
    PROVE  LET r == Entered(q, t, batch)
               b == Copied(a, q[t].SampleOffset, batch.Samples) IN
           /\ r \in Ring /\ b \in Arena /\ Partitioned(r)
           /\ Holds(r, b, t, batch)
           /\ \A s \in Slots : \A other \in InputBatch :
                 s # t /\ Holds(q, a, s, other) => Holds(r, b, s, other)
<1> DEFINE r == Entered(q, t, batch)
           n == Len(batch.Samples)
           b == Copied(a, OffsetOf(t), batch.Samples)
           entry == [Contact      |-> batch.Contact,
                     BatchOrdinal |-> batch.BatchOrdinal,
                     Phase        |-> batch.Phase,
                     SampleOffset |-> OffsetOf(t),
                     SampleCount  |-> n]
<1>1. /\ batch.Contact \in Nat /\ batch.Samples \in Seq(InputSample) /\ n \in Nat
      /\ q[t].SampleOffset = OffsetOf(t)
      /\ Limit \in Nat \ {0}
  BY ConstantTypes DEF InputBatch, Partitioned
<1>2. OffsetOf(t) \in Places /\ OffsetOf(t) \in Nat
  <2>1. 1 \in 1 .. Limit
    BY <1>1
  <2> QED
    BY <2>1, SlotPlaces DEF Places
<1>3. entry \in BatchSlot
  BY <1>1, <1>2 DEF BatchSlot, Limit
<1>4. r = [q EXCEPT ![t] = entry]
  BY <1>1 DEF Entered
<1> HIDE DEF r
<1>5. r \in Ring /\ r[t] = entry /\ \A s \in Slots : s # t => r[s] = q[s]
  <2> HIDE DEF entry
  <2> QED
    BY <1>3, <1>4 DEF Ring
<1>6. Partitioned(r)
  BY <1>5 DEF Partitioned
<1>7. b \in Arena
  <2>1. ASSUME NEW place \in Places PROVE b[place] \in InputSample
    <3>1. a[place] \in InputSample /\ place \in Int
      BY DEF Arena, Places
    <3>2. place \in OffsetOf(t) .. OffsetOf(t) + n - 1 =>
             batch.Samples[place - OffsetOf(t) + 1] \in InputSample
      <4> SUFFICES ASSUME place \in OffsetOf(t) .. OffsetOf(t) + n - 1
                   PROVE  batch.Samples[place - OffsetOf(t) + 1] \in InputSample
        OBVIOUS
      <4>1. place - OffsetOf(t) + 1 \in 1 .. n
        BY <1>1, <1>2, <3>1
      <4> QED
        BY <1>1, <4>1
    <3> QED
      BY <3>1, <3>2 DEF Copied
  <2> QED
    BY <2>1 DEF Arena, Copied
<1>8. Holds(r, b, t, batch)
  <2>1. ASSUME NEW j \in 1 .. n PROVE b[OffsetOf(t) + j - 1] = batch.Samples[j]
    <3>1. j \in 1 .. Limit
      BY <1>1
    <3>2. OffsetOf(t) + j - 1 \in Places
      BY <3>1, SlotPlaces
    <3>3. /\ OffsetOf(t) + j - 1 \in OffsetOf(t) .. OffsetOf(t) + n - 1
          /\ (OffsetOf(t) + j - 1) - OffsetOf(t) + 1 = j
      BY <1>1, <1>2
    <3> DEFINE place == OffsetOf(t) + j - 1
    <3>4. b[place] = batch.Samples[place - OffsetOf(t) + 1]
      BY <3>2, <3>3 DEF Copied
    <3> QED
      BY <3>3, <3>4
  <2> QED
    BY <1>5, <2>1 DEF Holds
<1>9. ASSUME NEW s \in Slots, NEW other \in InputBatch, s # t, Holds(q, a, s, other)
      PROVE  Holds(r, b, s, other)
  <2>1. r[s] = q[s]
    BY <1>5, <1>9
  <2>2. Len(other.Samples) \in Nat
    BY DEF InputBatch
  <2>3. ASSUME NEW j \in 1 .. Len(other.Samples)
        PROVE  b[OffsetOf(s) + j - 1] = a[OffsetOf(s) + j - 1]
    <3>1. j \in 1 .. Limit
      BY <1>1, <1>9, <2>2 DEF Holds
    <3> DEFINE place == OffsetOf(s) + j - 1
    <3>2. place \in Places /\ place \notin OffsetOf(t) .. OffsetOf(t) + Limit - 1
      BY <1>9, <3>1, SlotPlaces
    <3>3. place \in Int
      BY <3>2 DEF Places
    <3> HIDE DEF place
    <3>4. place \notin OffsetOf(t) .. OffsetOf(t) + n - 1
      BY <1>1, <1>2, <3>2, <3>3
    <3>5. b[place] = a[place]
      BY <3>2, <3>4 DEF Copied
    <3> QED
      BY <3>5 DEF place
  <2> QED
    BY <1>9, <2>1, <2>3 DEF Holds
<1> QED
  BY <1>1, <1>5, <1>6, <1>7, <1>8, <1>9 DEF r

(* Enqueue: the ring then also holds the new batch, behind the others.     *)
LEMMA EnterRing ==
    ASSUME NEW q \in Ring, NEW a \in Arena, NEW h \in Slots, Partitioned(q),
           NEW batches \in Seq(InputBatch), Len(batches) < QueueCapacity,
           Stored(q, a, h, batches),
           NEW batch \in InputBatch, batch.BatchOrdinal \in 0 .. OrdinalValues - 1,
           batch.Phase \in Phases, Len(batch.Samples) <= Limit
    PROVE  LET t == Slot(h, Len(batches))
               r == Entered(q, t, batch)
               b == Copied(a, q[t].SampleOffset, batch.Samples) IN
           /\ t \in Slots
           /\ r \in Ring /\ b \in Arena /\ Partitioned(r)
           /\ Stored(r, b, h, Append(batches, batch))
<1> DEFINE n == Len(batches)
           t == Slot(h, n)
           r == Entered(q, t, batch)
           b == Copied(a, q[t].SampleOffset, batch.Samples)
<1>1. n \in Nat /\ n \in 0 .. QueueCapacity - 1 /\ n \in 0 .. QueueCapacity
  BY ConstantTypes
<1>2. t \in Slots
  BY <1>1, SlotWraps
<1> HIDE DEF t
<1>3. /\ r \in Ring /\ b \in Arena /\ Partitioned(r)
      /\ Holds(r, b, t, batch)
      /\ \A s \in Slots : \A other \in InputBatch :
            s # t /\ Holds(q, a, s, other) => Holds(r, b, s, other)
  BY <1>2, EnterSlot
<1> HIDE DEF r, b
<1>4. ASSUME NEW i \in 1 .. Len(Append(batches, batch))
      PROVE  Holds(r, b, Slot(h, i - 1), Append(batches, batch)[i])
  <2>1. CASE i = n + 1
    <3>1. Append(batches, batch)[i] = batch /\ i - 1 = n
      BY <2>1, <1>1
    <3> QED
      BY <3>1, <1>3 DEF t
  <2>2. CASE i \in 1 .. n
    <3>1. Append(batches, batch)[i] = batches[i] /\ batches[i] \in InputBatch
      BY <2>2, <1>1
    <3>2. i - 1 \in 0 .. n - 1 /\ i - 1 \in 0 .. QueueCapacity
      BY <2>2, <1>1, ConstantTypes
    <3>3. Slot(h, i - 1) \in Slots /\ Slot(h, i - 1) # t
      BY <3>2, <1>1, SlotWraps, SlotsDiffer DEF t
    <3>4. Holds(q, a, Slot(h, i - 1), batches[i])
      BY <2>2 DEF Stored
    <3> QED
      BY <3>1, <3>3, <3>4, <1>3
  <2> QED
    BY <2>1, <2>2, <1>1
<1> QED
  BY <1>2, <1>3, <1>4 DEF Stored, t, r, b

(* Accepting the oldest batch leaves the ring holding the others.          *)
LEMMA LeaveRing ==
    ASSUME NEW q, NEW a, NEW h \in Slots,
           NEW batches \in Seq(InputBatch), Len(batches) \in 1 .. QueueCapacity,
           Stored(q, a, h, batches)
    PROVE  Slot(h, 1) \in Slots /\ Stored(q, a, Slot(h, 1), Tail(batches))
<1> DEFINE n == Len(batches)
<1>1. n \in Nat /\ batches # <<>>
  BY EmptySeq, ConstantTypes
<1>2. /\ Slot(h, 1) \in Slots
      /\ \A i \in 0 .. n - 2 : Slot(Slot(h, 1), i) = Slot(h, i + 1)
  BY NextSlots
<1>3. Len(Tail(batches)) = n - 1 /\ \A i \in 1 .. n - 1 : Tail(batches)[i] = batches[i + 1]
  BY <1>1
<1>4. ASSUME NEW i \in 1 .. n - 1
      PROVE  Holds(q, a, Slot(Slot(h, 1), i - 1), Tail(batches)[i])
  <2>1. i - 1 \in 0 .. n - 2 /\ i + 1 \in 1 .. n /\ (i - 1) + 1 = i /\ (i + 1) - 1 = i
    BY <1>1
  <2>2. Slot(Slot(h, 1), i - 1) = Slot(h, i)
    BY <1>2, <2>1
  <2>3. Holds(q, a, Slot(h, i), batches[i + 1])
    BY <2>1 DEF Stored
  <2> QED
    BY <1>3, <2>2, <2>3
<1> QED
  BY <1>2, <1>3, <1>4 DEF Stored

-----------------------------------------------------------------------------
(* The path.                                                               *)

After(batch, from) == ValidateBatch(batch, Capabilities, from).State

(* Path: st goes from one state to another, a batch at a time.             *)
Path(st, from, batches, to) ==
    /\ st \in [0 .. Len(batches) -> DeliveryState]
    /\ st[0] = from
    /\ st[Len(batches)] = to
    /\ \A i \in 1 .. Len(batches) : /\ Accepts(batches[i], Capabilities, st[i - 1])
                                    /\ st[i] = After(batches[i], st[i - 1])

Leads(from, batches, to) == \E st : Path(st, from, batches, to)

LEMMA LeadsNowhere == ASSUME NEW from \in DeliveryState PROVE Leads(from, <<>>, from)
<1> DEFINE st == [i \in 0 .. 0 |-> from]
<1>1. Path(st, from, <<>>, from)
  <2>1. st \in [0 .. 0 -> DeliveryState] /\ st[0] = from /\ Len(<<>>) = 0
    OBVIOUS
  <2> HIDE DEF st
  <2> QED
    BY <2>1 DEF Path
<1> QED
  BY <1>1 DEF Leads

(* One more batch that the state reached accepts.                          *)
LEMMA LeadsFurther ==
    ASSUME NEW from \in DeliveryState, NEW to \in DeliveryState,
           NEW batches \in Seq(InputBatch), Leads(from, batches, to),
           NEW batch \in InputBatch, Accepts(batch, Capabilities, to)
    PROVE  Leads(from, Append(batches, batch), After(batch, to))
<1> DEFINE n == Len(batches)
           longer == Append(batches, batch)
           end == After(batch, to)
<1>1. PICK st : Path(st, from, batches, to)
  BY DEF Leads
<1> DEFINE further == [i \in 0 .. n + 1 |-> IF i = n + 1 THEN end ELSE st[i]]
<1>2. /\ n \in Nat /\ Len(longer) = n + 1 /\ longer[n + 1] = batch
      /\ \A i \in 1 .. n : longer[i] = batches[i]
  OBVIOUS
<1>3. end \in DeliveryState
  BY ReturnedStateType, ConstantTypes DEF After
<1>4. st \in [0 .. n -> DeliveryState] /\ st[0] = from /\ st[n] = to
  BY <1>1 DEF Path
<1> HIDE DEF longer, end
<1>5. /\ further \in [0 .. n + 1 -> DeliveryState]
      /\ further[0] = from /\ further[n + 1] = end
      /\ \A i \in 0 .. n : further[i] = st[i]
  BY <1>2, <1>3, <1>4
<1> HIDE DEF further
<1>6. ASSUME NEW i \in 1 .. n + 1
      PROVE  /\ Accepts(longer[i], Capabilities, further[i - 1])
             /\ further[i] = After(longer[i], further[i - 1])
  <2>1. CASE i = n + 1
    <3>1. further[i - 1] = to /\ longer[i] = batch /\ further[i] = end
      BY <2>1, <1>2, <1>4, <1>5
    <3> QED
      BY <3>1 DEF end
  <2>2. CASE i \in 1 .. n
    <3>1. further[i - 1] = st[i - 1] /\ further[i] = st[i] /\ longer[i] = batches[i]
      BY <2>2, <1>2, <1>5
    <3> QED
      BY <3>1, <2>2, <1>1 DEF Path
  <2> QED
    BY <2>1, <2>2, <1>2
<1>7. Path(further, from, longer, end)
  BY <1>2, <1>5, <1>6 DEF Path
<1> QED
  BY <1>7 DEF Leads, longer, end

(* The first batch is accepted where the path starts, and the others lead  *)
(* on from there.                                                          *)
LEMMA LeadsFirst ==
    ASSUME NEW from, NEW to, NEW batches \in Seq(InputBatch), batches # <<>>,
           Leads(from, batches, to)
    PROVE  /\ Accepts(batches[1], Capabilities, from)
           /\ Leads(After(batches[1], from), Tail(batches), to)
<1> DEFINE n == Len(batches)
           rest == Tail(batches)
<1>1. PICK st : Path(st, from, batches, to)
  BY DEF Leads
<1> DEFINE later == [i \in 0 .. n - 1 |-> st[i + 1]]
<1>2. /\ n \in Nat /\ n # 0 /\ 1 \in 1 .. n /\ Len(rest) = n - 1
      /\ \A i \in 1 .. n - 1 : rest[i] = batches[i + 1]
  BY EmptySeq
<1>3. Accepts(batches[1], Capabilities, from) /\ st[1] = After(batches[1], from)
  BY <1>1, <1>2 DEF Path
<1> HIDE DEF rest
<1>4. /\ later \in [0 .. n - 1 -> DeliveryState]
      /\ later[0] = st[1] /\ later[n - 1] = to
      /\ \A i \in 0 .. n - 1 : later[i] = st[i + 1]
  BY <1>1, <1>2 DEF Path
<1> HIDE DEF later
<1>5. ASSUME NEW i \in 1 .. n - 1
      PROVE  /\ Accepts(rest[i], Capabilities, later[i - 1])
             /\ later[i] = After(rest[i], later[i - 1])
  <2>1. i + 1 \in 1 .. n /\ i - 1 \in 0 .. n - 1 /\ (i - 1) + 1 = i /\ (i + 1) - 1 = i
    BY <1>2
  <2>2. later[i - 1] = st[i] /\ later[i] = st[i + 1] /\ rest[i] = batches[i + 1]
    BY <1>2, <1>4, <2>1
  <2> QED
    BY <1>1, <2>1, <2>2 DEF Path
<1>6. Path(later, st[1], rest, to)
  BY <1>2, <1>4, <1>5 DEF Path
<1> QED
  BY <1>3, <1>6 DEF Leads, rest

-----------------------------------------------------------------------------
(* The invariant.                                                          *)

TypeInv ==
    /\ slots \in Ring
    /\ arena \in Arena
    /\ head \in Slots
    /\ started \in BOOLEAN /\ failNext \in BOOLEAN
    /\ script \in DeliveryState /\ delivered \in DeliveryState
    /\ deliveredContact \in Nat
    /\ deliveredBatchOrdinal \in 0 .. OrdinalValues - 1
    /\ pending \in Seq(Batches)

RingInv ==
    /\ size = Len(pending)
    /\ size <= QueueCapacity
    /\ Partitioned(slots)
    /\ Stored(slots, arena, head, pending)

PathInv == Leads(delivered, pending, script)

(* What the source remembers of its receiver is where the receiver stands. *)
ReceiverInv ==
    /\ ~started => delivered = Closed
    /\ ~delivered.ContactOpen => delivered = Closed /\ deliveredContact = 0
    /\ delivered.ContactOpen =>
          /\ deliveredContact = delivered.Contact
          /\ deliveredContact # 0
          /\ deliveredBatchOrdinal = delivered.LastBatchOrdinal
          /\ \E batch \in Batches : /\ batch.Phase \in {"Begin", "Update"}
                                    /\ batch.BatchOrdinal = deliveredBatchOrdinal

IndInv == TypeInv /\ RingInv /\ PathInv /\ ReceiverInv

(* A ring from which everything is gone holds nothing, and leads nowhere.  *)
LEMMA Emptied ==
    ASSUME NEW q, NEW a, NEW h
    PROVE  Stored(q, a, h, <<>>) /\ Leads(Closed, <<>>, Closed)
<1>1. Len(<<>>) = 0
  OBVIOUS
<1> QED
  BY <1>1, LeadsNowhere, ClosedType DEF Stored

LEMMA InitHolds == Init => IndInv
<1> SUFFICES ASSUME Init PROVE IndInv
  OBVIOUS
<1>1. /\ slots = [slot \in Slots |->
                  [Contact |-> 0, BatchOrdinal |-> 0, Phase |-> "Begin",
                   SampleOffset |-> OffsetOf(slot), SampleCount |-> 0]]
      /\ arena = [place \in Places |-> NoSample]
      /\ head = 0 /\ size = 0 /\ started = FALSE /\ failNext = FALSE
      /\ script = Closed /\ deliveredContact = 0 /\ deliveredBatchOrdinal = 0
      /\ delivered = Closed /\ pending = <<>>
  BY DEF Init
<1>2. ASSUME NEW slot \in Slots
      PROVE  [Contact |-> 0, BatchOrdinal |-> 0, Phase |-> "Begin",
              SampleOffset |-> OffsetOf(slot), SampleCount |-> 0] \in BatchSlot
  <2>1. 1 \in 1 .. Limit
    BY ConstantTypes
  <2>2. OffsetOf(slot) \in Places
    BY <2>1, SlotPlaces
  <2>3. 0 \in 0 .. Limit /\ 0 \in 0 .. OrdinalValues - 1 /\ "Begin" \in Phases
    BY ConstantTypes DEF Phases
  <2> QED
    BY <2>2, <2>3 DEF BatchSlot, Limit
<1>3. NoSample \in InputSample
  BY DEF NoSample, InputSample, Origins, Readings
<1>4. slots \in Ring /\ Partitioned(slots) /\ arena \in Arena
  BY <1>1, <1>2, <1>3 DEF Ring, Partitioned, Arena
<1>5. 0 \in Slots /\ 0 \in 0 .. OrdinalValues - 1 /\ 0 <= QueueCapacity
  BY ConstantTypes DEF Slots
<1>6. Closed.ContactOpen = FALSE
  BY DEF Closed
<1>7. pending \in Seq(Batches) /\ Len(pending) = 0
  BY <1>1
<1>8. TypeInv
  BY <1>1, <1>4, <1>5, <1>7, ClosedType DEF TypeInv
<1> QED
  BY <1>1, <1>4, <1>5, <1>6, <1>7, <1>8, Emptied DEF IndInv, RingInv, PathInv, ReceiverInv

(* Stop, SourceFailed and a restart leave nothing behind.                  *)
LEMMA ResetHolds ==
    ASSUME IndInv, ResetDelivery PROVE IndInv'
<1>1. /\ head' = 0 /\ size' = 0 /\ started' = FALSE /\ failNext' = FALSE
      /\ script' = Closed /\ deliveredContact' = 0
      /\ delivered' = Closed /\ pending' = <<>>
      /\ slots' = slots /\ arena' = arena /\ deliveredBatchOrdinal' = deliveredBatchOrdinal
  BY DEF ResetDelivery
<1>2. 0 \in Slots /\ 0 <= QueueCapacity
  BY ConstantTypes DEF Slots
<1>3. pending' \in Seq(Batches) /\ Len(pending') = 0
  BY <1>1
<1>4. TypeInv'
  BY <1>1, <1>2, <1>3, ClosedType DEF TypeInv, IndInv
<1>5. RingInv' /\ PathInv'
  BY <1>1, <1>2, <1>3, Emptied DEF RingInv, PathInv, IndInv, Partitioned
<1>6. ReceiverInv'
  BY <1>1 DEF ReceiverInv, Closed
<1> QED
  BY <1>4, <1>5, <1>6 DEF IndInv

(* A rejection leaves nothing queued, and the session going.               *)
LEMMA RejectHolds ==
    ASSUME IndInv, DispatchRejected PROVE IndInv'
<1>1. /\ head' = 0 /\ size' = 0 /\ script' = Closed /\ deliveredContact' = 0
      /\ delivered' = Closed /\ pending' = <<>>
      /\ slots' = slots /\ arena' = arena /\ deliveredBatchOrdinal' = deliveredBatchOrdinal
      /\ started' = started /\ failNext' = failNext
  BY DEF DispatchRejected, Discard
<1>2. 0 \in Slots /\ 0 <= QueueCapacity
  BY ConstantTypes DEF Slots
<1>3. pending' \in Seq(Batches) /\ Len(pending') = 0
  BY <1>1
<1>4. TypeInv'
  BY <1>1, <1>2, <1>3, ClosedType DEF TypeInv, IndInv
<1>5. RingInv' /\ PathInv'
  BY <1>1, <1>2, <1>3, Emptied DEF RingInv, PathInv, IndInv, Partitioned
<1>6. ReceiverInv'
  BY <1>1 DEF ReceiverInv, Closed
<1> QED
  BY <1>4, <1>5, <1>6 DEF IndInv

(* The batch lent to the receiver is the oldest one pending.               *)
LEMMA OfferedIsOldest ==
    ASSUME IndInv, size > 0
    PROVE  /\ pending \in Seq(InputBatch) /\ pending # <<>>
           /\ pending[1] \in Batches /\ pending[1] \in InputBatch
           /\ Offered = pending[1]
<1>1. /\ pending \in Seq(Batches) /\ size = Len(pending) /\ Len(pending) \in Nat
      /\ Batches \subseteq InputBatch /\ head \in Slots
  BY ConstantTypes DEF IndInv, TypeInv, RingInv
<1>2. pending \in Seq(InputBatch) /\ pending # <<>> /\ 1 \in 1 .. Len(pending)
  BY <1>1, EmptySeq
<1>3. pending[1] \in Batches /\ pending[1] \in InputBatch
  BY <1>1, <1>2
<1> DEFINE batch == pending[1]
<1>4. Holds(slots, arena, head, batch)
  <2>1. QueueCapacity \in 1 .. QueueCapacity
    BY ConstantTypes
  <2>2. Slot(head, 0) = head
    BY <1>1, <2>1, NextSlots
  <2>3. Holds(slots, arena, Slot(head, 1 - 1), pending[1])
    BY <1>2 DEF IndInv, RingInv, Stored
  <2> QED
    BY <2>2, <2>3
<1>5. slots[head].SampleOffset = OffsetOf(head)
  BY <1>1 DEF IndInv, RingInv, Partitioned
<1> HIDE DEF batch
<1>6. batch \in InputBatch
  BY <1>3 DEF batch
<1>7. batch.Samples \in Seq(InputSample)
  BY <1>6 DEF InputBatch
<1>8. [i \in 1 .. slots[head].SampleCount |-> arena[slots[head].SampleOffset + i - 1]]
        = batch.Samples
  <2>1. [i \in 1 .. Len(batch.Samples) |-> arena[OffsetOf(head) + i - 1]] = batch.Samples
    BY <1>4, <1>7 DEF Holds
  <2> QED
    BY <1>4, <1>5, <2>1 DEF Holds
<1>9. batch = [Contact |-> batch.Contact, BatchOrdinal |-> batch.BatchOrdinal,
               Phase |-> batch.Phase, Samples |-> batch.Samples]
  BY <1>6 DEF InputBatch
<1>10. Offered = [Contact |-> slots[head].Contact, BatchOrdinal |-> slots[head].BatchOrdinal,
                  Phase |-> slots[head].Phase, Samples |-> batch.Samples]
  BY <1>8 DEF Offered
<1> QED
  BY <1>2, <1>3, <1>4, <1>9, <1>10 DEF Holds, batch

(* Enqueue stores the batch behind the others, and takes the path on.      *)
LEMMA EnqueueHolds ==
    ASSUME IndInv, NEW batch \in Batches, Enqueue(batch) PROVE IndInv'
<1>1. /\ slots \in Ring /\ arena \in Arena /\ head \in Slots
      /\ script \in DeliveryState /\ delivered \in DeliveryState
      /\ pending \in Seq(Batches) /\ pending \in Seq(InputBatch)
      /\ batch \in InputBatch /\ batch.BatchOrdinal \in 0 .. OrdinalValues - 1
      /\ Len(pending) \in Nat
  <2>1. pending \in Seq(Batches) /\ Batches \subseteq InputBatch
    BY ConstantTypes DEF IndInv, TypeInv
  <2>2. pending \in Seq(InputBatch)
    BY <2>1
  <2> QED
    BY <2>1, <2>2, ConstantTypes DEF IndInv, TypeInv
<1>2. /\ size = Len(pending) /\ size < QueueCapacity /\ size + 1 <= QueueCapacity
      /\ Partitioned(slots) /\ Stored(slots, arena, head, pending)
  <2>1. size = Len(pending) /\ size <= QueueCapacity /\ size # QueueCapacity
    BY DEF IndInv, RingInv, Enqueue
  <2> QED
    BY <1>1, <2>1, ConstantTypes DEF IndInv, RingInv
<1>3. Accepts(batch, Capabilities, script)
  BY DEF Enqueue
<1>4. batch.Phase \in Phases /\ Len(batch.Samples) <= Limit
  BY <1>1, <1>3, AcceptedMoves, ConstantTypes DEF Limit
<1> DEFINE t == Slot(head, Len(pending))
           r == Entered(slots, t, batch)
           b == Copied(arena, slots[t].SampleOffset, batch.Samples)
           longer == Append(pending, batch)
<1>5. TailSlot = t
  BY <1>2 DEF TailSlot, Slot
<1>6. /\ slots' = r /\ arena' = b
      /\ script' = After(batch, script)
      /\ size' = size + 1
      /\ pending' = longer
      /\ head' = head /\ started' = started /\ failNext' = failNext /\ delivered' = delivered
      /\ deliveredContact' = deliveredContact
      /\ deliveredBatchOrdinal' = deliveredBatchOrdinal
  BY <1>5 DEF Enqueue, CopyFrom, Entered, Copied, After, last
<1>7. /\ r \in Ring /\ b \in Arena /\ Partitioned(r)
      /\ Stored(r, b, head, longer)
  BY <1>1, <1>2, <1>4, EnterRing
<1>8. longer \in Seq(Batches) /\ Len(longer) = Len(pending) + 1
  BY <1>1
<1>9. After(batch, script) \in DeliveryState
  BY <1>1, ReturnedStateType, ConstantTypes DEF After
<1>10. Leads(delivered, longer, After(batch, script))
  BY <1>1, <1>3, LeadsFurther DEF IndInv, PathInv
<1> HIDE DEF r, b, longer
<1>11. TypeInv'
  BY <1>6, <1>7, <1>8, <1>9 DEF IndInv, TypeInv
<1>12. RingInv'
  BY <1>2, <1>6, <1>7, <1>8 DEF RingInv
<1>13. PathInv'
  BY <1>6, <1>10 DEF PathInv
<1>14. ReceiverInv'
  BY <1>6 DEF IndInv, ReceiverInv
<1> QED
  BY <1>11, <1>12, <1>13, <1>14 DEF IndInv

(* What accepting the oldest batch makes of the receiver's state.          *)
LEMMA AcceptedMovesReceiver ==
    ASSUME IndInv, DispatchAccepted
    PROVE  /\ Accepts(pending[1], Capabilities, delivered)
           /\ delivered' = After(pending[1], delivered)
           /\ delivered' \in DeliveryState
           /\ Leads(delivered', Tail(pending), script)
<1>1. size > 0
  <2>1. size # 0 /\ size = Len(pending) /\ pending \in Seq(Batches)
    BY DEF IndInv, RingInv, TypeInv, DispatchAccepted, Dispatching
  <2> QED
    BY <2>1
<1>2. /\ pending \in Seq(InputBatch) /\ pending # <<>> /\ pending[1] \in InputBatch
      /\ Offered = pending[1]
  BY <1>1, OfferedIsOldest
<1>3. delivered' = After(pending[1], delivered)
  BY <1>2 DEF DispatchAccepted, After
<1>4. /\ Accepts(pending[1], Capabilities, delivered)
      /\ Leads(After(pending[1], delivered), Tail(pending), script)
  BY <1>2, LeadsFirst DEF IndInv, PathInv
<1>5. delivered' \in DeliveryState
  BY <1>2, <1>3, ReturnedStateType, ConstantTypes DEF After, IndInv, TypeInv
<1> QED
  BY <1>3, <1>4, <1>5

(* DispatchNext, answered Accepted.                                        *)
LEMMA AcceptHolds ==
    ASSUME IndInv, DispatchAccepted PROVE IndInv'
<1> DEFINE batch == pending[1]
<1>1. /\ slots' = slots /\ arena' = arena /\ started' = started /\ failNext' = failNext
      /\ script' = script /\ started
      /\ head' = Slot(head, 1) /\ size' = size - 1 /\ pending' = Tail(pending)
      /\ size # 0
  BY DEF DispatchAccepted, Dispatching, NextHead, Slot
<1>2. /\ pending \in Seq(Batches) /\ size = Len(pending) /\ Len(pending) \in Nat
      /\ size \in 1 .. QueueCapacity /\ size > 0 /\ head \in Slots
      /\ Stored(slots, arena, head, pending)
  <2>1. /\ pending \in Seq(Batches) /\ size = Len(pending) /\ size <= QueueCapacity
        /\ head \in Slots /\ Stored(slots, arena, head, pending)
    BY DEF IndInv, RingInv, TypeInv
  <2> QED
    BY <1>1, <2>1, ConstantTypes
<1>3. /\ pending \in Seq(InputBatch) /\ pending # <<>>
      /\ batch \in Batches /\ batch \in InputBatch /\ Offered = batch
  BY <1>2, OfferedIsOldest
<1>4. /\ slots[head].Contact = batch.Contact
      /\ slots[head].BatchOrdinal = batch.BatchOrdinal
      /\ slots[head].Phase = batch.Phase
  BY <1>3 DEF Offered
<1>5. Slot(head, 1) \in Slots /\ Stored(slots, arena, Slot(head, 1), Tail(pending))
  BY <1>2, <1>3, LeaveRing
<1>6. Tail(pending) \in Seq(Batches) /\ Len(Tail(pending)) = size - 1
  BY <1>2, <1>3
<1>7. /\ Accepts(batch, Capabilities, delivered)
      /\ delivered' = After(batch, delivered)
      /\ delivered' \in DeliveryState
      /\ Leads(delivered', Tail(pending), script)
  BY AcceptedMovesReceiver
<1>8. /\ deliveredContact' = IF batch.Phase \in {"End", "Cancel"} THEN 0 ELSE batch.Contact
      /\ deliveredBatchOrdinal' = batch.BatchOrdinal
  BY <1>4 DEF DispatchAccepted, RecordDelivered
<1>9. batch.Contact \in Nat /\ batch.BatchOrdinal \in 0 .. OrdinalValues - 1
  BY <1>3, ConstantTypes DEF InputBatch
<1> HIDE DEF batch
<1>10. TypeInv'
  BY <1>1, <1>5, <1>6, <1>7, <1>8, <1>9 DEF IndInv, TypeInv
<1>11. RingInv'
  <2>1. size - 1 <= QueueCapacity
    BY <1>2, ConstantTypes
  <2> QED
    BY <1>1, <1>5, <1>6, <2>1 DEF IndInv, RingInv
<1>12. PathInv'
  BY <1>1, <1>7 DEF PathInv
<1>13. ReceiverInv'
  <2>1. delivered \in DeliveryState /\ Closed.ContactOpen = FALSE
    BY DEF IndInv, TypeInv, Closed
  <2>2. /\ batch.Phase \in Phases /\ batch.Contact # 0
        /\ batch.Phase \in {"Begin", "Update"} =>
              /\ delivered'.ContactOpen
              /\ delivered'.Contact = batch.Contact
              /\ delivered'.LastBatchOrdinal = batch.BatchOrdinal
        /\ batch.Phase \in {"End", "Cancel"} => delivered' = Closed
    BY <1>3, <1>7, <2>1, AcceptedMoves, ConstantTypes DEF After
  <2>3. CASE batch.Phase \in {"End", "Cancel"}
    BY <1>1, <1>8, <2>1, <2>2, <2>3 DEF ReceiverInv
  <2>4. CASE batch.Phase \in {"Begin", "Update"}
    BY <1>1, <1>3, <1>8, <2>2, <2>4 DEF ReceiverInv
  <2> QED
    BY <2>2, <2>3, <2>4 DEF Phases
<1> QED
  BY <1>10, <1>11, <1>12, <1>13 DEF IndInv

(* Every step keeps the invariant.                                         *)
LEMMA StepHolds == IndInv /\ [Next]_vars => IndInv'
<1> SUFFICES ASSUME IndInv, [Next]_vars PROVE IndInv'
  OBVIOUS
<1>1. CASE UNCHANGED vars
  BY <1>1 DEF vars, queue, last, history, IndInv, TypeInv, RingInv, PathInv, ReceiverInv
<1>2. CASE Start
  <2>1. /\ started' = TRUE
        /\ slots' = slots /\ arena' = arena /\ head' = head /\ size' = size
        /\ failNext' = failNext /\ script' = script /\ delivered' = delivered
        /\ pending' = pending /\ deliveredContact' = deliveredContact
        /\ deliveredBatchOrdinal' = deliveredBatchOrdinal
    BY <1>2 DEF Start, queue, last, history
  <2> QED
    BY <2>1 DEF IndInv, TypeInv, RingInv, PathInv, ReceiverInv
<1>3. CASE FailNext
  <2>1. /\ failNext' = TRUE
        /\ slots' = slots /\ arena' = arena /\ head' = head /\ size' = size
        /\ started' = started /\ script' = script /\ delivered' = delivered
        /\ pending' = pending /\ deliveredContact' = deliveredContact
        /\ deliveredBatchOrdinal' = deliveredBatchOrdinal
    BY <1>3 DEF FailNext, queue, last, history
  <2> QED
    BY <2>1 DEF IndInv, TypeInv, RingInv, PathInv, ReceiverInv
<1>4. CASE Stop \/ DispatchFailure
  BY <1>4, ResetHolds DEF Stop, DispatchFailure
<1>5. CASE \E batch \in Batches : Enqueue(batch)
  BY <1>5, EnqueueHolds
<1>6. CASE DispatchAccepted
  BY <1>6, AcceptHolds
<1>7. CASE DispatchRejected
  BY <1>7, RejectHolds
<1> QED
  BY <1>1, <1>2, <1>3, <1>4, <1>5, <1>6, <1>7 DEF Next

(* In every state the ring holds what is pending, and what is pending      *)
(* leads the receiver's state to the script's.                             *)
THEOREM Invariance == Spec => []IndInv
BY InitHolds, StepHolds, PTL DEF Spec

-----------------------------------------------------------------------------
(* The state stays within its type.                                        *)
THEOREM TypeCorrect == Spec => []TypeOK
<1>1. IndInv => TypeOK
  <2> SUFFICES ASSUME IndInv PROVE TypeOK
    OBVIOUS
  <2>1. arena \in [Places -> InputSample \union {NoSample}]
    BY DEF IndInv, TypeInv, Arena
  <2>2. pending \in Seq(Batches) /\ Batches \subseteq InputBatch
    BY ConstantTypes DEF IndInv, TypeInv
  <2>3. pending \in Seq(InputBatch) /\ Len(pending) \in Nat
    BY <2>2
  <2>4. size \in 0 .. QueueCapacity
    BY <2>3, ConstantTypes DEF IndInv, RingInv
  <2> QED
    BY <2>1, <2>3, <2>4 DEF IndInv, TypeInv, Ring, TypeOK
<1> QED
  BY <1>1, Invariance, PTL

(* What DispatchNext offers is the oldest batch enqueued and not yet gone, *)
(* sample for sample, however often the ring has wrapped.                  *)
THEOREM OffersOldestBatch == Spec => []OffersOldest
<1>1. IndInv => OffersOldest
  <2> SUFFICES ASSUME IndInv PROVE OffersOldest
    OBVIOUS
  <2>1. size = Len(pending)
    BY DEF IndInv, RingInv
  <2>2. ASSUME size > 0 PROVE Offered = Head(pending)
    BY <2>2, OfferedIsOldest
  <2> QED
    BY <2>1, <2>2 DEF OffersOldest
<1> QED
  BY <1>1, Invariance, PTL

(* A receiver that checks every batch with ValidateBatch never has cause   *)
(* to refuse one: what was checked against the script when it was enqueued *)
(* passes the receiver's own state when it is offered.                     *)
THEOREM OffersPassTheRules == Spec => []OffersObeyRules
<1>1. IndInv => OffersObeyRules
  <2> SUFFICES ASSUME IndInv, size > 0 PROVE Accepts(Offered, Capabilities, delivered)
    BY DEF OffersObeyRules
  <2>1. pending \in Seq(InputBatch) /\ pending # <<>> /\ Offered = pending[1]
    BY OfferedIsOldest
  <2>2. Accepts(pending[1], Capabilities, delivered)
    BY <2>1, LeadsFirst DEF IndInv, PathInv
  <2> QED
    BY <2>1, <2>2
<1> QED
  BY <1>1, Invariance, PTL

(* The recursion of ScriptLeadsReceiver has a value, and it follows the    *)
(* path.                                                                   *)
LEMMA ReachedFollowsPath ==
    ASSUME NEW st, NEW from, NEW batches \in Seq(InputBatch), NEW to,
           Path(st, from, batches, to)
    PROVE  /\ \E reached : reached = [n \in 0 .. Len(batches) |->
                  IF n = 0 THEN from
                  ELSE ValidateBatch(batches[n], Capabilities, reached[n - 1]).State]
           /\ \A reached : reached = [n \in 0 .. Len(batches) |->
                  IF n = 0 THEN from
                  ELSE ValidateBatch(batches[n], Capabilities, reached[n - 1]).State]
                 => reached[Len(batches)] = to
<1> DEFINE N == Len(batches)
           Body(f) == [n \in 0 .. N |->
                          IF n = 0 THEN from
                          ELSE ValidateBatch(batches[n], Capabilities, f[n - 1]).State]
<1>1. N \in Nat
  OBVIOUS
<1>2. st = Body(st)
  <2>1. st \in [0 .. N -> DeliveryState]
    BY DEF Path
  <2>2. ASSUME NEW n \in 0 .. N PROVE st[n] = Body(st)[n]
    <3>1. CASE n = 0
      BY <3>1 DEF Path
    <3>2. CASE n # 0
      <4>1. n \in 1 .. N
        BY <1>1, <3>2
      <4>2. st[n] = ValidateBatch(batches[n], Capabilities, st[n - 1]).State
        BY <4>1 DEF Path, After
      <4> QED
        BY <4>2, <3>2
    <3> QED
      BY <3>1, <3>2
  <2> QED
    BY <2>1, <2>2
<1>3. ASSUME NEW reached, reached = Body(reached) PROVE reached[N] = to
  <2>1. \A n \in 0 .. N : reached[n] = Body(reached)[n]
    BY <1>3
  <2> DEFINE S == {n \in Nat : n <= N => reached[n] = st[n]}
  <2>2. 0 \in S
    <3>1. Body(reached)[0] = from /\ 0 \in 0 .. N
      BY <1>1
    <3> QED
      BY <3>1, <2>1 DEF Path
  <2>3. ASSUME NEW n \in S PROVE n + 1 \in S
    <3> SUFFICES ASSUME n + 1 <= N PROVE reached[n + 1] = st[n + 1]
      OBVIOUS
    <3>1. n \in Nat /\ n + 1 \in 1 .. N /\ n + 1 \in 0 .. N /\ n + 1 # 0
          /\ (n + 1) - 1 = n /\ reached[n] = st[n]
      BY <1>1
    <3>2. Body(reached)[n + 1] = ValidateBatch(batches[n + 1], Capabilities, reached[n]).State
      BY <3>1
    <3>3. st[n + 1] = ValidateBatch(batches[n + 1], Capabilities, st[n]).State
      BY <3>1 DEF Path, After
    <3>4. reached[n + 1] = Body(reached)[n + 1]
      BY <2>1, <3>1
    <3> QED
      BY <3>1, <3>2, <3>3, <3>4
  <2>4. S = Nat
    <3> HIDE DEF S
    <3>1. S \in SUBSET Nat
      BY DEF S
    <3> QED
      BY <2>2, <2>3, <3>1, Induction
  <2> QED
    BY <1>1, <2>4 DEF Path
<1> QED
  BY <1>2, <1>3

(* The script stands where the receiver will stand once everything queued  *)
(* is accepted.                                                            *)
THEOREM ScriptLeads == Spec => []ScriptLeadsReceiver
<1>1. IndInv => ScriptLeadsReceiver
  <2> SUFFICES ASSUME IndInv PROVE ScriptLeadsReceiver
    OBVIOUS
  <2>1. pending \in Seq(Batches) /\ Batches \subseteq InputBatch
    BY ConstantTypes DEF IndInv, TypeInv
  <2>2. pending \in Seq(InputBatch)
    BY <2>1
  <2>3. PICK st : Path(st, delivered, pending, script)
    BY DEF IndInv, PathInv, Leads
  <2> DEFINE Body(f) == [n \in 0 .. Len(pending) |->
                            IF n = 0 THEN delivered
                            ELSE ValidateBatch(pending[n], Capabilities, f[n - 1]).State]
             reached == CHOOSE f : f = Body(f)
  <2>4. /\ \E f : f = Body(f)
        /\ \A f : f = Body(f) => f[Len(pending)] = script
    BY <2>2, <2>3, ReachedFollowsPath
  <2>5. ScriptLeadsReceiver <=> script = reached[Len(pending)]
    BY DEF ScriptLeadsReceiver
  <2> HIDE DEF Body
  <2>6. reached = Body(reached)
    BY <2>4
  <2> QED
    BY <2>4, <2>5, <2>6
<1> QED
  BY <1>1, Invariance, PTL

-----------------------------------------------------------------------------
(* The Cancel of Stop.                                                     *)

(* An ordinal is left for a Cancel after every batch that leaves a contact *)
(* open; with the last one used up, the Cancel would wrap to ordinal 0.    *)
OrdinalsRemain ==
    \A batch \in Batches :
        batch.Phase \in {"Begin", "Update"} => batch.BatchOrdinal + 1 < OrdinalValues

(* A batch without samples is accepted for what it is and where it stands. *)
LEMMA EmptyBatchAccepted ==
    ASSUME NEW batch \in InputBatch, batch.Samples = <<>>, NEW state \in DeliveryState,
           Fits(batch, Capabilities), Stands(batch, state)
    PROVE  Accepts(batch, Capabilities, state)
<1>1. PICK totals : TotalsOf(batch, Prior(batch, state), totals)
  BY PriorType, TotalsExist
<1>2. \A i \in 1 .. Len(batch.Samples) :
         Passes(batch, Capabilities, Prior(batch, state), totals[i - 1], i)
  <2>1. Len(batch.Samples) = 0
    OBVIOUS
  <2> QED
    BY <2>1
<1> QED
  BY <1>1, <1>2, AcceptsMeans, ConstantTypes

(* Stop offers a Cancel exactly when the receiver has a contact open, and  *)
(* that Cancel passes the delivery rules.                                  *)
THEOREM StopCancels == ASSUME OrdinalsRemain PROVE Spec => StopCancelsDelivered
<1>1. ASSUME IndInv
      PROVE  IF delivered.ContactOpen
             THEN \E batch \in StopOffers : Accepts(batch, Capabilities, delivered)
             ELSE StopOffers = {}
  <2>1. CASE ~delivered.ContactOpen
    BY <1>1, <2>1 DEF IndInv, ReceiverInv, StopOffers
  <2>2. CASE delivered.ContactOpen
    <3>1. Closed.ContactOpen = FALSE
      BY DEF Closed
    <3>2. /\ started
          /\ deliveredContact = delivered.Contact /\ deliveredContact # 0
          /\ deliveredBatchOrdinal = delivered.LastBatchOrdinal
          /\ \E batch \in Batches : /\ batch.Phase \in {"Begin", "Update"}
                                    /\ batch.BatchOrdinal = deliveredBatchOrdinal
      BY <1>1, <2>2, <3>1 DEF IndInv, ReceiverInv, TypeInv
    <3>3. /\ delivered \in DeliveryState /\ deliveredContact \in Nat
          /\ deliveredBatchOrdinal \in Nat
      BY <1>1, ConstantTypes DEF IndInv, TypeInv
    <3>4. deliveredBatchOrdinal + 1 < OrdinalValues
      BY <3>2 DEF OrdinalsRemain
    <3>5. (deliveredBatchOrdinal + 1) % OrdinalValues = deliveredBatchOrdinal + 1
      BY <3>3, <3>4, ConstantTypes
    <3> DEFINE cancel == [Contact      |-> deliveredContact,
                          BatchOrdinal |-> deliveredBatchOrdinal + 1,
                          Phase        |-> "Cancel",
                          Samples      |-> <<>>]
    <3>6. StopOffers = {cancel}
      BY <3>2, <3>5 DEF StopOffers
    <3>7. cancel \in InputBatch
      BY <3>3, EmptySeq DEF InputBatch, Phases
    <3>8. Fits(cancel, Capabilities)
      <4>1. Len(<<>>) = 0 /\ 0 <= MaximumBatchSamples /\ 0 <= Limit
        BY ConstantTypes, BatchBoundAssumption
      <4> QED
        BY <3>2, <4>1 DEF Fits, Phases, Limit
    <3>9. Stands(cancel, delivered)
      BY <2>2, <3>2, <3>3 DEF Stands
    <3>10. cancel.Samples = <<>>
      OBVIOUS
    <3> HIDE DEF cancel
    <3>11. Accepts(cancel, Capabilities, delivered)
      BY <3>3, <3>7, <3>8, <3>9, <3>10, EmptyBatchAccepted
    <3> QED
      BY <2>2, <3>6, <3>11
  <2> QED
    BY <2>1, <2>2
<1>2. IndInv =>
         [Stop => IF delivered.ContactOpen
                  THEN \E batch \in StopOffers : Accepts(batch, Capabilities, delivered)
                  ELSE StopOffers = {}]_vars
  BY <1>1
<1> QED
  BY <1>2, Invariance, PTL DEF StopCancelsDelivered

-----------------------------------------------------------------------------
(* The source contract.                                                    *)

(* What the source contract sees of the receiver's state.                  *)
LEMMA ViewOf ==
    ASSUME IndInv
    PROVE  /\ delivered = Closed => ReceiverView = Stream!NoContact
           /\ ~delivered.ContactOpen => ReceiverView = Stream!NoContact
           /\ ReceiverView.ContactOpen = delivered.ContactOpen
           /\ ReceiverView.Contact = delivered.Contact
           /\ ReceiverView.LastBatchOrdinal = delivered.LastBatchOrdinal
           /\ ReceiverView.LastSampleId = delivered.LastSampleId
           /\ ReceiverView.LastCommittedSequence = delivered.LastCommittedSequence
<1>1. delivered = Closed => ReceiverView = Stream!NoContact
  BY DEF Closed, ReceiverView, Stream!NoContact
<1>2. ~delivered.ContactOpen => delivered = Closed
  BY DEF IndInv, ReceiverInv
<1> QED
  BY <1>1, <1>2 DEF ReceiverView

LEMMA ViewType ==
    ASSUME NEW seen \in DeliveryState
    PROVE  [ContactOpen |-> seen.ContactOpen, Contact |-> seen.Contact,
            LastBatchOrdinal |-> seen.LastBatchOrdinal,
            LastSampleId |-> seen.LastSampleId,
            LastCommittedSequence |-> seen.LastCommittedSequence] \in Stream!View
BY DEF DeliveryState, Stream!View

(* An accepted batch opens, extends or closes the receiver's contact.      *)
LEMMA AcceptDelivers == ASSUME IndInv, DispatchAccepted PROVE Stream!Deliver
<1> DEFINE batch == pending[1]
<1>1. /\ batch \in InputBatch
      /\ Accepts(batch, Capabilities, delivered)
      /\ delivered' = After(batch, delivered)
      /\ delivered' \in DeliveryState /\ delivered \in DeliveryState
  <2>1. size # 0 /\ size = Len(pending) /\ pending \in Seq(Batches)
    BY DEF IndInv, RingInv, TypeInv, DispatchAccepted, Dispatching
  <2>2. size > 0
    BY <2>1
  <2> QED
    BY <2>2, OfferedIsOldest, AcceptedMovesReceiver DEF IndInv, TypeInv
<1>2. started /\ started' = started
  BY DEF DispatchAccepted, Dispatching
<1>3. IndInv'
  BY AcceptHolds
<1>4. /\ ReceiverView' \in Stream!View
      /\ ReceiverView'.ContactOpen = delivered'.ContactOpen
      /\ ReceiverView'.Contact = delivered'.Contact
      /\ ReceiverView'.LastBatchOrdinal = delivered'.LastBatchOrdinal
      /\ ReceiverView'.LastSampleId = delivered'.LastSampleId
      /\ ReceiverView'.LastCommittedSequence = delivered'.LastCommittedSequence
      /\ delivered' = Closed => ReceiverView' = Stream!NoContact
  <2>1. ReceiverView' \in Stream!View
    BY <1>1, ViewType DEF ReceiverView
  <2>2. delivered' = Closed => ReceiverView' = Stream!NoContact
    BY DEF ReceiverView, Closed, Stream!NoContact
  <2> QED
    BY <2>1, <2>2 DEF ReceiverView
<1> HIDE DEF batch
<1>5. /\ batch.Phase \in Phases
      /\ batch.Contact # 0
      /\ batch.Phase = "Begin" =>
            /\ ~delivered.ContactOpen
            /\ delivered'.ContactOpen
            /\ delivered'.LastSampleId # 0
      /\ batch.Phase # "Begin" => delivered.ContactOpen /\ delivered.Contact = batch.Contact
      /\ batch.Phase = "Update" =>
            /\ delivered'.ContactOpen
            /\ batch.BatchOrdinal > delivered.LastBatchOrdinal
            /\ delivered'.LastSampleId > delivered.LastSampleId
            /\ delivered'.LastCommittedSequence >= delivered.LastCommittedSequence
      /\ batch.Phase \in {"Begin", "Update"} =>
            /\ delivered'.Contact = batch.Contact
            /\ delivered'.LastBatchOrdinal = batch.BatchOrdinal
      /\ batch.Phase \in {"End", "Cancel"} => delivered' = Closed
  BY <1>1, AcceptedMoves, ConstantTypes DEF After
<1>6. CASE batch.Phase = "Begin"
  <2>1. Stream!Opens(ReceiverView, ReceiverView')
    BY <1>4, <1>5, <1>6, ViewOf DEF Stream!Opens
  <2> QED
    BY <1>2, <2>1 DEF Stream!Deliver
<1>7. CASE batch.Phase = "Update"
  <2>1. Stream!Extends(ReceiverView, ReceiverView')
    BY <1>4, <1>5, <1>7, ViewOf DEF Stream!Extends
  <2> QED
    BY <1>2, <2>1 DEF Stream!Deliver
<1>8. CASE batch.Phase \in {"End", "Cancel"}
  <2>1. Stream!Closes(ReceiverView, ReceiverView')
    BY <1>4, <1>5, <1>8, ViewOf DEF Stream!Closes
  <2> QED
    BY <1>2, <2>1 DEF Stream!Deliver
<1> QED
  BY <1>5, <1>6, <1>7, <1>8 DEF Phases

(* Every step of the source is one the contract allows, or none of it.     *)
LEMMA StreamStep == IndInv /\ [Next]_vars => [Stream!Next]_(Stream!vars)
<1> SUFFICES ASSUME IndInv, [Next]_vars
             PROVE  Stream!Next \/ UNCHANGED Stream!vars
  OBVIOUS
<1>1. ASSUME started' = started, delivered' = delivered PROVE UNCHANGED Stream!vars
  BY <1>1 DEF Stream!vars, ReceiverView
<1>2. CASE UNCHANGED vars
  BY <1>1, <1>2 DEF vars, history
<1>3. CASE Start
  <2>1. ~started /\ started' = TRUE /\ delivered' = delivered
    BY <1>3 DEF Start, history
  <2>2. delivered = Closed
    BY <2>1 DEF IndInv, ReceiverInv
  <2>3. ReceiverView' = Stream!NoContact
    BY <2>1, <2>2 DEF ReceiverView, Closed, Stream!NoContact
  <2> QED
    BY <2>1, <2>3 DEF Stream!Start, Stream!Next
<1>4. CASE ResetDelivery
  <2>1. started' = FALSE /\ delivered' = Closed
    BY <1>4 DEF ResetDelivery
  <2>2. ReceiverView' = Stream!NoContact
    BY <2>1 DEF ReceiverView, Closed, Stream!NoContact
  <2>3. CASE started
    BY <2>1, <2>2, <2>3 DEF Stream!Leave, Stream!Next
  <2>4. CASE ~started
    <3>1. delivered = Closed /\ started = FALSE
      BY <2>4 DEF IndInv, ReceiverInv, TypeInv
    <3> QED
      BY <1>1, <2>1, <3>1
  <2> QED
    BY <2>3, <2>4
<1>5. CASE FailNext
  BY <1>1, <1>5 DEF FailNext, history
<1>6. CASE \E batch \in Batches : Enqueue(batch)
  BY <1>1, <1>6 DEF Enqueue
<1>7. CASE DispatchAccepted
  BY <1>7, AcceptDelivers DEF Stream!Next
<1>8. CASE DispatchRejected
  <2>1. started /\ started' = started /\ delivered' = Closed
    BY <1>8 DEF DispatchRejected, Dispatching
  <2>2. ReceiverView' = Stream!NoContact
    BY <2>1 DEF ReceiverView, Closed, Stream!NoContact
  <2> QED
    BY <2>1, <2>2 DEF Stream!Reject, Stream!Next
<1> QED
  BY <1>2, <1>3, <1>4, <1>5, <1>6, <1>7, <1>8 DEF Next, Stop, DispatchFailure

(* A scripted source keeps the promises every source makes.                *)
THEOREM SourceImplementsStream == Spec => ImplementsContactStream
<1>1. Init => Stream!Init
  BY DEF Init, Stream!Init, ReceiverView, Closed, Stream!NoContact
<1> QED
  BY <1>1, StreamStep, Invariance, PTL
     DEF Spec, ImplementsContactStream, Stream!Spec
=============================================================================
