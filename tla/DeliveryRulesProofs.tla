------------------------ MODULE DeliveryRulesProofs ------------------------
(***************************************************************************)
(* Theorems about ValidateBatch and the delivery rules, for every source,  *)
(* every set of batches and contacts of every length.                      *)
(*                                                                         *)
(* The rules are told of a whole history; ValidateBatch looks at one       *)
(* sample and four numbers.  Between the two stands SampleRule: what the   *)
(* rules ask of one sample, given all that came before it.  A history      *)
(* obeys the rules when its batches form one contact and every sample its  *)
(* rule; and the totals of the scan, which bound the history seen so far,  *)
(* decide the rule of the next sample.                                     *)
(***************************************************************************)
EXTENDS DeliveryRules, BatchValidationProofs

-----------------------------------------------------------------------------
(* Places.                                                                 *)

LEMMA PlacesAre ==
    ASSUME NEW batches, NEW p
    PROVE  p \in Places(batches) <=>
              \E b \in 1 .. Len(batches) : \E i \in 1 .. Len(batches[b].Samples) : p = <<b, i>>
BY DEF Places

LEMMA PlaceOf ==
    ASSUME NEW batches, NEW b \in 1 .. Len(batches), NEW i \in 1 .. Len(batches[b].Samples)
    PROVE  <<b, i>> \in Places(batches)
BY PlacesAre

LEMMA PlaceIs ==
    ASSUME NEW batches, NEW p \in Places(batches)
    PROVE  /\ p = <<p[1], p[2]>>
           /\ p[1] \in 1 .. Len(batches)
           /\ p[2] \in 1 .. Len(batches[p[1]].Samples)
<1>1. PICK b \in 1 .. Len(batches) :
         \E i \in 1 .. Len(batches[b].Samples) : p = <<b, i>>
  BY PlacesAre
<1>2. PICK i \in 1 .. Len(batches[b].Samples) : p = <<b, i>>
  BY <1>1
<1> QED
  BY <1>2

(* A place of a history holds a sample, and of two places one is before    *)
(* the other.                                                              *)
LEMMA SampleAt ==
    ASSUME NEW batches \in Seq(InputBatch), NEW p \in Places(batches)
    PROVE  /\ p[1] \in Nat /\ p[2] \in Nat
           /\ batches[p[1]] \in InputBatch
           /\ At(batches, p) \in InputSample
           /\ At(batches, p).Id \in Nat /\ At(batches, p).Sequence \in Nat
           /\ At(batches, p).Time \in Nat /\ At(batches, p).Corrects \in Nat
<1>1. p[1] \in 1 .. Len(batches) /\ p[2] \in 1 .. Len(batches[p[1]].Samples)
  BY PlaceIs
<1>2. p[1] \in Nat /\ batches[p[1]] \in InputBatch
  BY <1>1
<1>3. batches[p[1]].Samples \in Seq(InputSample)
  BY <1>2 DEF InputBatch
<1>4. p[2] \in Nat /\ At(batches, p) \in InputSample
  BY <1>1, <1>3 DEF At
<1> QED
  BY <1>2, <1>4 DEF InputSample

LEMMA BeforeOrAfter ==
    ASSUME NEW batches \in Seq(InputBatch), NEW p \in Places(batches), NEW q \in Places(batches)
    PROVE  p = q \/ Before(p, q) \/ Before(q, p)
<1>1. p = <<p[1], p[2]>> /\ q = <<q[1], q[2]>>
  BY PlaceIs
<1>2. p[1] \in Nat /\ p[2] \in Nat /\ q[1] \in Nat /\ q[2] \in Nat
  BY SampleAt
<1>3. CASE p[1] = q[1] /\ p[2] = q[2]
  BY <1>1, <1>3
<1>4. CASE ~(p[1] = q[1] /\ p[2] = q[2])
  BY <1>2, <1>4 DEF Before
<1> QED
  BY <1>3, <1>4

-----------------------------------------------------------------------------
(* The rules, sample by sample.                                            *)

SampleRule(batches, q) ==
    LET sample == At(batches, q) IN
    /\ SoundSample(sample)
    /\ \A p \in Places(batches) : Before(p, q) =>
          LET earlier == At(batches, p) IN
          /\ earlier.Id < sample.Id
          /\ "Timestamp" \in Capabilities.Available => earlier.Time <= sample.Time
          /\ Committed(earlier) /\ sample.Origin # "Corrected" =>
                earlier.Sequence < sample.Sequence
          /\ p[1] = q[1] =>
                /\ earlier.Sequence <= sample.Sequence
                /\ earlier.Origin = "Predicted" /\ sample.Origin = "Predicted" =>
                      earlier.Sequence < sample.Sequence
                /\ earlier.Origin = "Corrected" /\ sample.Origin = "Corrected" =>
                      earlier.Corrects # sample.Corrects
    /\ sample.Origin = "Corrected" => Replaces(batches, q[1], q[2])

(* The six rules, told of the whole history, ask of each sample its rule.  *)
LEMMA ObeysBySample ==
    ASSUME NEW batches \in Seq(InputBatch)
    PROVE  Obeys(batches) <=>
              OneContact(batches) /\ \A q \in Places(batches) : SampleRule(batches, q)
<1>1. ASSUME Obeys(batches), NEW q \in Places(batches) PROVE SampleRule(batches, q)
  <2>1. q = <<q[1], q[2]>> /\ q[1] \in 1 .. Len(batches)
        /\ q[2] \in 1 .. Len(batches[q[1]].Samples)
    BY PlaceIs
  <2>2. SoundSample(At(batches, q))
    BY <1>1 DEF Obeys, Sound
  <2>3. ASSUME NEW p \in Places(batches), Before(p, q)
        PROVE  /\ At(batches, p).Id < At(batches, q).Id
               /\ "Timestamp" \in Capabilities.Available =>
                     At(batches, p).Time <= At(batches, q).Time
               /\ Committed(At(batches, p)) /\ At(batches, q).Origin # "Corrected" =>
                     At(batches, p).Sequence < At(batches, q).Sequence
    BY <1>1, <2>3 DEF Obeys, Ordered, Ahead
  <2>4. ASSUME NEW p \in Places(batches), Before(p, q), p[1] = q[1]
        PROVE  /\ At(batches, p).Sequence <= At(batches, q).Sequence
               /\ At(batches, p).Origin = "Predicted" /\ At(batches, q).Origin = "Predicted" =>
                     At(batches, p).Sequence < At(batches, q).Sequence
               /\ At(batches, p).Origin = "Corrected" /\ At(batches, q).Origin = "Corrected" =>
                     At(batches, p).Corrects # At(batches, q).Corrects
    <3>1. p[2] \in Nat /\ q[2] \in Nat /\ q[1] \in Nat
      BY SampleAt
    <3>2. p[2] \in 1 .. Len(batches[q[1]].Samples)
      BY <2>4, PlaceIs
    <3>3. p[2] \in 1 .. q[2] - 1
      BY <2>4, <3>1, <3>2 DEF Before
    <3> QED
      BY <1>1, <2>1, <2>4, <3>3 DEF Obeys, Advancing, Corrections, At
  <2>5. At(batches, q).Origin = "Corrected" => Replaces(batches, q[1], q[2])
    BY <1>1, <2>1 DEF Obeys, Corrections, At
  <2> QED
    BY <2>2, <2>3, <2>4, <2>5 DEF SampleRule
<1>2. ASSUME OneContact(batches), \A q \in Places(batches) : SampleRule(batches, q)
      PROVE  Obeys(batches)
  <2>1. Sound(batches) /\ Ordered(batches) /\ Ahead(batches)
    BY <1>2 DEF Sound, Ordered, Ahead, SampleRule
  <2>2. ASSUME NEW b \in 1 .. Len(batches), NEW j \in 1 .. Len(batches[b].Samples),
               NEW i \in 1 .. j - 1
        PROVE  LET samples == batches[b].Samples IN
               /\ samples[i].Sequence <= samples[j].Sequence
               /\ samples[i].Origin = "Predicted" /\ samples[j].Origin = "Predicted" =>
                     samples[i].Sequence < samples[j].Sequence
               /\ samples[i].Origin = "Corrected" /\ samples[j].Origin = "Corrected" =>
                     samples[i].Corrects # samples[j].Corrects
    <3> DEFINE p == <<b, i>>
               q == <<b, j>>
    <3>1. Len(batches[b].Samples) \in Nat
      BY DEF InputBatch
    <3>2. i \in 1 .. Len(batches[b].Samples)
      BY <3>1
    <3>3. p \in Places(batches) /\ q \in Places(batches)
      BY <3>2, PlaceOf
    <3>4. p[1] = b /\ p[2] = i /\ q[1] = b /\ q[2] = j
      OBVIOUS
    <3> HIDE DEF p, q
    <3>5. Before(p, q)
      BY <3>1, <3>4 DEF Before
    <3>6. At(batches, p) = batches[b].Samples[i] /\ At(batches, q) = batches[b].Samples[j]
      BY <3>4 DEF At
    <3> QED
      BY <1>2, <3>3, <3>4, <3>5, <3>6 DEF SampleRule
  <2>3. ASSUME NEW b \in 1 .. Len(batches), NEW j \in 1 .. Len(batches[b].Samples),
               batches[b].Samples[j].Origin = "Corrected"
        PROVE  Replaces(batches, b, j)
    <3>1. <<b, j>> \in Places(batches)
      BY PlaceOf
    <3>2. SampleRule(batches, <<b, j>>)
      BY <1>2, <3>1
    <3> QED
      BY <2>3, <3>2 DEF SampleRule, At
  <2>4. Advancing(batches)
    BY <2>2 DEF Advancing
  <2>5. Corrections(batches)
    BY <2>2, <2>3 DEF Corrections
  <2> QED
    BY <1>2, <2>1, <2>4, <2>5 DEF Obeys
<1>3. Obeys(batches) => OneContact(batches)
  BY DEF Obeys
<1> QED
  BY <1>1, <1>2, <1>3

-----------------------------------------------------------------------------
(* One more batch.                                                         *)

(* The places of a history and of one batch more.                          *)
LEMMA PlacesGrow ==
    ASSUME NEW batches \in Seq(InputBatch), NEW batch \in InputBatch
    PROVE  LET longer == Append(batches, batch)
               n == Len(batches) + 1 IN
           /\ longer \in Seq(InputBatch) /\ Len(longer) = n /\ longer[n] = batch
           /\ \A b \in 1 .. n - 1 : longer[b] = batches[b]
           /\ Places(batches) \subseteq Places(longer)
           /\ \A i \in 1 .. Len(batch.Samples) : <<n, i>> \in Places(longer)
           /\ \A p \in Places(longer) :
                 \/ p \in Places(batches)
                 \/ \E i \in 1 .. Len(batch.Samples) : p = <<n, i>>
           /\ \A p \in Places(batches) : /\ p[1] \in 1 .. n - 1
                                         /\ At(longer, p) = At(batches, p)
           /\ \A i \in 1 .. Len(batch.Samples) : At(longer, <<n, i>>) = batch.Samples[i]
<1> DEFINE longer == Append(batches, batch)
           n == Len(batches) + 1
<1>1. /\ longer \in Seq(InputBatch) /\ Len(longer) = n /\ longer[n] = batch
      /\ \A b \in 1 .. n - 1 : longer[b] = batches[b]
      /\ n \in Nat /\ n \in 1 .. n /\ 1 .. n - 1 \subseteq 1 .. n
      /\ Len(batches) = n - 1
      /\ \A b \in 1 .. n : b = n \/ b \in 1 .. n - 1
  OBVIOUS
<1> HIDE DEF longer, n
<1>2. ASSUME NEW p \in Places(batches)
      PROVE  p \in Places(longer) /\ p[1] \in 1 .. n - 1 /\ At(longer, p) = At(batches, p)
  <2>1. p = <<p[1], p[2]>> /\ p[1] \in 1 .. n - 1 /\ p[2] \in 1 .. Len(batches[p[1]].Samples)
    BY <1>1, PlaceIs
  <2>2. longer[p[1]] = batches[p[1]] /\ p[1] \in 1 .. Len(longer)
    BY <1>1, <2>1
  <2>3. <<p[1], p[2]>> \in Places(longer)
    BY <2>1, <2>2, PlaceOf
  <2> QED
    BY <2>1, <2>2, <2>3 DEF At
<1>3. ASSUME NEW i \in 1 .. Len(batch.Samples)
      PROVE  <<n, i>> \in Places(longer) /\ At(longer, <<n, i>>) = batch.Samples[i]
  BY <1>1, PlaceOf DEF At
<1>4. ASSUME NEW p \in Places(longer)
      PROVE  \/ p \in Places(batches)
             \/ \E i \in 1 .. Len(batch.Samples) : p = <<n, i>>
  <2>1. p = <<p[1], p[2]>> /\ p[1] \in 1 .. n /\ p[2] \in 1 .. Len(longer[p[1]].Samples)
    BY <1>1, PlaceIs
  <2>2. CASE p[1] = n
    BY <1>1, <2>1, <2>2
  <2>3. CASE p[1] \in 1 .. n - 1
    <3>1. longer[p[1]] = batches[p[1]] /\ p[1] \in 1 .. Len(batches)
      BY <1>1, <2>3
    <3>2. <<p[1], p[2]>> \in Places(batches)
      BY <2>1, <3>1, PlaceOf
    <3> QED
      BY <2>1, <3>2
  <2> QED
    BY <1>1, <2>1, <2>2, <2>3
<1> QED
  BY <1>1, <1>2, <1>3, <1>4 DEF longer, n

(* A batch more changes nothing about the samples before it.               *)
LEMMA RuleOfPrefix ==
    ASSUME NEW batches \in Seq(InputBatch), NEW batch \in InputBatch,
           NEW q \in Places(batches)
    PROVE  SampleRule(Append(batches, batch), q) <=> SampleRule(batches, q)
<1> DEFINE longer == Append(batches, batch)
           n == Len(batches) + 1
<1>1. /\ \A b \in 1 .. n - 1 : longer[b] = batches[b]
      /\ Places(batches) \subseteq Places(longer)
      /\ \A p \in Places(longer) :
            \/ p \in Places(batches)
            \/ \E i \in 1 .. Len(batch.Samples) : p = <<n, i>>
      /\ \A p \in Places(batches) : p[1] \in 1 .. n - 1 /\ At(longer, p) = At(batches, p)
  BY PlacesGrow
<1>2. n \in Nat
  OBVIOUS
<1> HIDE DEF longer, n
<1>3. q[1] \in 1 .. n - 1 /\ At(longer, q) = At(batches, q)
  BY <1>1
<1>4. \A p \in Places(longer) : Before(p, q) => p \in Places(batches)
  <2> SUFFICES ASSUME NEW i \in 1 .. Len(batch.Samples) PROVE ~Before(<<n, i>>, q)
    BY <1>1
  <2> QED
    BY <1>2, <1>3 DEF Before
<1>5. Replaces(longer, q[1], q[2]) <=> Replaces(batches, q[1], q[2])
  <2>1. longer[q[1]] = batches[q[1]] /\ (q[1] > 1 => longer[q[1] - 1] = batches[q[1] - 1])
    BY <1>1, <1>2, <1>3
  <2> QED
    BY <2>1 DEF Replaces
<1>6. \A p \in Places(batches) : p \in Places(longer) /\ At(longer, p) = At(batches, p)
  BY <1>1
<1>7. SampleRule(longer, q) <=>
        /\ SoundSample(At(batches, q))
        /\ \A p \in Places(batches) : Before(p, q) =>
              LET earlier == At(batches, p)
                  sample == At(batches, q) IN
              /\ earlier.Id < sample.Id
              /\ "Timestamp" \in Capabilities.Available => earlier.Time <= sample.Time
              /\ Committed(earlier) /\ sample.Origin # "Corrected" =>
                    earlier.Sequence < sample.Sequence
              /\ p[1] = q[1] =>
                    /\ earlier.Sequence <= sample.Sequence
                    /\ earlier.Origin = "Predicted" /\ sample.Origin = "Predicted" =>
                          earlier.Sequence < sample.Sequence
                    /\ earlier.Origin = "Corrected" /\ sample.Origin = "Corrected" =>
                          earlier.Corrects # sample.Corrects
        /\ At(batches, q).Origin = "Corrected" => Replaces(batches, q[1], q[2])
  BY <1>3, <1>4, <1>5, <1>6 DEF SampleRule
<1> QED
  BY <1>7 DEF SampleRule, longer

(* OpenContact: the batches of a contact that is not closed.               *)
OpenContact(batches) ==
    /\ OneContact(batches)
    /\ \A b \in 1 .. Len(batches) : batches[b].Phase \in {"Begin", "Update"}

(* One batch more is still one contact when it fits and stands right.      *)
LEMMA OneContactGrows ==
    ASSUME NEW batches \in Seq(InputBatch), OpenContact(batches),
           NEW batch \in InputBatch, NEW from \in DeliveryState,
           batches = <<>> => ~from.ContactOpen,
           batches # <<>> => /\ from.ContactOpen
                             /\ from.Contact = batches[1].Contact
                             /\ from.LastBatchOrdinal = batches[Len(batches)].BatchOrdinal
    PROVE  OneContact(Append(batches, batch)) <=>
              Fits(batch, Capabilities) /\ Stands(batch, from)
<1> DEFINE longer == Append(batches, batch)
           n == Len(batches) + 1
<1>1. /\ Len(longer) = n /\ longer[n] = batch
      /\ \A b \in 1 .. n - 1 : longer[b] = batches[b]
      /\ n \in Nat /\ n \in 1 .. n /\ 1 .. n - 1 \subseteq 1 .. n
      /\ Len(batches) = n - 1
      /\ \A b \in 1 .. n : b = n \/ b \in 1 .. n - 1
      /\ \A b \in 1 .. n - 1 : b # n
      /\ batches = <<>> <=> n = 1
  BY EmptySeq
<1> HIDE DEF longer, n
<1> DEFINE Place(b, whole) ==
              /\ WellFormed(whole[b])
              /\ whole[b].Phase = "Begin" <=> b = 1
              /\ whole[b].Phase \in {"End", "Cancel"} => b = Len(whole)
              /\ b > 1 => /\ whole[b].Contact = whole[1].Contact
                          /\ whole[b].BatchOrdinal > whole[b - 1].BatchOrdinal
<1>2. ASSUME NEW b \in 1 .. n - 1 PROVE Place(b, longer)
  <2>1. Place(b, batches)
    BY <1>1 DEF OpenContact, OneContact
  <2>2. batches[b].Phase \in {"Begin", "Update"}
    BY <1>1 DEF OpenContact
  <2>3. longer[b] = batches[b] /\ longer[1] = batches[1]
        /\ (b > 1 => longer[b - 1] = batches[b - 1])
    BY <1>1
  <2> QED
    BY <2>1, <2>2, <2>3
<1>3. Fits(batch, Capabilities) <=> WellFormed(batch)
  BY DEF Fits, WellFormed
<1>4. batch.Phase \in {"End", "Cancel"} => n = Len(longer)
  BY <1>1
<1>5. Place(n, longer) <=> Fits(batch, Capabilities) /\ Stands(batch, from)
  <2>1. CASE n = 1
    <3>1. Place(n, longer) <=> WellFormed(batch) /\ batch.Phase = "Begin"
      BY <1>1, <2>1
    <3>2. ~from.ContactOpen
      BY <1>1, <2>1
    <3>3. Stands(batch, from) <=> batch.Phase = "Begin"
      BY <3>2 DEF Stands
    <3> QED
      BY <1>3, <3>1, <3>3
  <2>2. CASE n # 1
    <3>1. n > 1 /\ n - 1 \in 1 .. n - 1 /\ 1 \in 1 .. n - 1
      BY <1>1, <2>2
    <3>2. longer[1] = batches[1] /\ longer[n - 1] = batches[n - 1]
      BY <1>1, <3>1
    <3>3. /\ from.ContactOpen /\ from.Contact = batches[1].Contact
          /\ from.LastBatchOrdinal = batches[n - 1].BatchOrdinal
      BY <1>1, <2>2
    <3>4. Place(n, longer) <=>
             /\ WellFormed(batch)
             /\ batch.Phase # "Begin"
             /\ batch.Contact = batches[1].Contact
             /\ batch.BatchOrdinal > batches[n - 1].BatchOrdinal
      BY <1>1, <2>2, <3>1, <3>2
    <3>5. Stands(batch, from) <=>
             /\ batch.Phase # "Begin"
             /\ batch.Contact = batches[1].Contact
             /\ batch.BatchOrdinal > batches[n - 1].BatchOrdinal
      BY <3>3 DEF Stands
    <3> QED
      BY <1>3, <3>4, <3>5
  <2> QED
    BY <2>1, <2>2
<1>6. OneContact(longer) <=> \A b \in 1 .. n : Place(b, longer)
  BY <1>1 DEF OneContact
<1> HIDE DEF Place
<1>7. (\A b \in 1 .. n : Place(b, longer)) <=> Place(n, longer)
  BY <1>1, <1>2
<1> QED
  BY <1>5, <1>6, <1>7 DEF longer

-----------------------------------------------------------------------------
(* What the totals stand for.                                              *)

(* Bounds: the three numbers bound the samples at the places P, and each   *)
(* is zero or that of one of them.                                         *)
Bounds(batches, P, id, time, committed) ==
    /\ \A p \in P : LET sample == At(batches, p) IN
          /\ sample.Id <= id
          /\ sample.Time <= time
          /\ Committed(sample) => sample.Sequence <= committed
    /\ id # 0 => \E p \in P : At(batches, p).Id = id
    /\ time # 0 => \E p \in P : At(batches, p).Time = time
    /\ committed # 0 => \E p \in P : /\ Committed(At(batches, p))
                                     /\ At(batches, p).Sequence = committed

Named(sample) == [Id |-> sample.Id, Sequence |-> sample.Sequence]

(* Lists: the predictions are those among the first k samples, and the     *)
(* last of them has the greatest sequence.                                 *)
Lists(predictions, samples, k) ==
    /\ predictions \in Seq(Prediction)
    /\ \A j \in 1 .. k : samples[j].Origin = "Predicted" =>
          \E m \in 1 .. Len(predictions) : predictions[m] = Named(samples[j])
    /\ \A m \in 1 .. Len(predictions) :
          \E j \in 1 .. k : /\ samples[j].Origin = "Predicted"
                            /\ predictions[m] = Named(samples[j])
    /\ \A m \in 1 .. Len(predictions) :
          predictions[m].Sequence <= predictions[Len(predictions)].Sequence

(* The predictions of the batch before, which is what may be corrected.    *)
Correctable(predictions, batches) ==
    IF batches = <<>> THEN predictions = <<>>
    ELSE LET samples == batches[Len(batches)].Samples IN
         Lists(predictions, samples, Len(samples))

(* The places before sample k + 1 of batch n.                              *)
SeenAt(batches, n, k) == {p \in Places(batches) : p[1] < n \/ p[2] <= k}

(* A sample corrects a prediction of the batch before exactly when the     *)
(* list of predictions the state keeps has it.                             *)
LEMMA MatchMeans ==
    ASSUME NEW batches \in Seq(InputBatch), NEW batch \in InputBatch,
           NEW previous, Correctable(previous.PreviousPredictions, batches),
           NEW i \in 1 .. Len(batch.Samples)
    PROVE  MatchesPreviousPrediction(previous, batch.Samples[i]) <=>
              Replaces(Append(batches, batch), Len(batches) + 1, i)
<1> DEFINE longer == Append(batches, batch)
           n == Len(batches) + 1
           predictions == previous.PreviousPredictions
           sample == batch.Samples[i]
<1>1. /\ longer[n] = batch /\ \A b \in 1 .. n - 1 : longer[b] = batches[b]
      /\ n \in Nat /\ Len(batches) = n - 1 /\ (batches = <<>> <=> n = 1)
  BY EmptySeq
<1>2. MatchesPreviousPrediction(previous, sample) <=>
         \E m \in 1 .. Len(predictions) : /\ predictions[m].Id = sample.Corrects
                                          /\ predictions[m].Sequence = sample.Sequence
  BY DEF MatchesPreviousPrediction
<1> HIDE DEF longer, n, predictions
<1>3. CASE n = 1
  <2>1. ~Replaces(longer, n, i)
    BY <1>3 DEF Replaces
  <2>2. predictions = <<>>
    BY <1>1, <1>3 DEF Correctable, predictions
  <2>3. Len(predictions) = 0
    BY <2>2
  <2> QED
    BY <1>2, <2>1, <2>3 DEF longer, n
<1>4. CASE n # 1
  <2> DEFINE samples == batches[n - 1].Samples
             matches(j) == /\ samples[j].Origin = "Predicted"
                           /\ samples[j].Id = sample.Corrects
                           /\ samples[j].Sequence = sample.Sequence
  <2>1. n > 1 /\ n - 1 \in 1 .. n - 1
    BY <1>1, <1>4
  <2>2. longer[n - 1] = batches[n - 1]
    BY <1>1, <2>1
  <2>3. Lists(predictions, samples, Len(samples))
    BY <1>1, <1>4 DEF Correctable, predictions
  <2>4. Replaces(longer, n, i) <=> \E j \in 1 .. Len(samples) : matches(j)
    BY <1>1, <2>1, <2>2 DEF Replaces
  <2> HIDE DEF samples
  <2>5. ASSUME NEW m \in 1 .. Len(predictions), predictions[m].Id = sample.Corrects,
               predictions[m].Sequence = sample.Sequence
        PROVE  \E j \in 1 .. Len(samples) : matches(j)
    <3>1. PICK j \in 1 .. Len(samples) : /\ samples[j].Origin = "Predicted"
                                         /\ predictions[m] = Named(samples[j])
      BY <2>3 DEF Lists
    <3> QED
      BY <2>5, <3>1 DEF Named
  <2>6. ASSUME NEW j \in 1 .. Len(samples), matches(j)
        PROVE  \E m \in 1 .. Len(predictions) : /\ predictions[m].Id = sample.Corrects
                                                /\ predictions[m].Sequence = sample.Sequence
    <3>1. PICK m \in 1 .. Len(predictions) : predictions[m] = Named(samples[j])
      BY <2>3, <2>6 DEF Lists
    <3> QED
      BY <2>6, <3>1 DEF Named
  <2> QED
    BY <1>2, <2>4, <2>5, <2>6 DEF longer, n
<1> QED
  BY <1>3, <1>4

(* A replacement has a sequence, because what it replaces has one.         *)
LEMMA ReplacementNumbered ==
    ASSUME NEW batches \in Seq(InputBatch), NEW batch \in InputBatch,
           \A p \in Places(batches) : SampleRule(batches, p),
           NEW i \in 1 .. Len(batch.Samples),
           Replaces(Append(batches, batch), Len(batches) + 1, i)
    PROVE  batch.Samples[i].Sequence # 0
<1> DEFINE n == Len(batches) + 1
           longer == Append(batches, batch)
<1>1. /\ longer[n] = batch /\ \A b \in 1 .. n - 1 : longer[b] = batches[b]
      /\ n \in Nat /\ Len(batches) = n - 1
  OBVIOUS
<1> HIDE DEF n, longer
<1>2. n > 1 /\ \E j \in 1 .. Len(longer[n - 1].Samples) :
                  longer[n - 1].Samples[j].Sequence = longer[n].Samples[i].Sequence
  BY DEF Replaces, n, longer
<1>3. n - 1 \in 1 .. n - 1
  BY <1>1, <1>2
<1>4. PICK j \in 1 .. Len(batches[n - 1].Samples) :
         batches[n - 1].Samples[j].Sequence = batch.Samples[i].Sequence
  BY <1>1, <1>2, <1>3
<1>5. <<n - 1, j>> \in Places(batches)
  BY <1>1, <1>3, PlaceOf
<1>6. SoundSample(At(batches, <<n - 1, j>>))
  BY <1>5 DEF SampleRule
<1> QED
  BY <1>4, <1>6 DEF SoundSample, At

(* What comes before a sample: the history, and the samples of its batch   *)
(* before it.                                                              *)
LEMMA SeenBefore ==
    ASSUME NEW batches \in Seq(InputBatch), NEW batch \in InputBatch,
           NEW k \in 0 .. Len(batch.Samples) - 1
    PROVE  LET longer == Append(batches, batch)
               n == Len(batches) + 1
               seen == SeenAt(longer, n, k) IN
           /\ \A p \in Places(longer) : Before(p, <<n, k + 1>>) <=> p \in seen
           /\ seen \subseteq Places(longer)
           /\ \A j \in 1 .. k : <<n, j>> \in seen
           /\ \A p \in seen : p[1] = n => p[2] \in 1 .. k /\ p = <<n, p[2]>>
<1> DEFINE longer == Append(batches, batch)
           n == Len(batches) + 1
           seen == SeenAt(longer, n, k)
<1>1. /\ longer \in Seq(InputBatch) /\ Len(longer) = n /\ longer[n] = batch /\ n \in Nat
      /\ \A i \in 1 .. Len(batch.Samples) : <<n, i>> \in Places(longer)
  BY PlacesGrow
<1>2. k \in Nat /\ Len(batch.Samples) \in Nat
  BY DEF InputBatch
<1> HIDE DEF longer, n
<1>3. ASSUME NEW p \in Places(longer)
      PROVE  /\ p = <<p[1], p[2]>> /\ p[1] \in 1 .. n
             /\ p[2] \in Nat /\ p[2] >= 1
  BY <1>1, PlaceIs, SampleAt
<1>4. ASSUME NEW p \in Places(longer) PROVE Before(p, <<n, k + 1>>) <=> p \in seen
  <2>1. Before(p, <<n, k + 1>>) <=> p[1] < n \/ (p[1] = n /\ p[2] < k + 1)
    BY DEF Before
  <2>2. p[1] \in 1 .. n /\ p[2] \in Nat
    BY <1>3
  <2> QED
    BY <1>1, <1>2, <2>1, <2>2 DEF SeenAt
<1>5. \A j \in 1 .. k : <<n, j>> \in seen
  BY <1>1, <1>2 DEF SeenAt
<1>6. ASSUME NEW p \in seen, p[1] = n PROVE p[2] \in 1 .. k /\ p = <<n, p[2]>>
  <2>1. p \in Places(longer) /\ p[2] <= k
    BY <1>1, <1>6 DEF SeenAt
  <2> QED
    BY <1>2, <1>3, <1>6, <2>1
<1> QED
  BY <1>4, <1>5, <1>6 DEF SeenAt, longer, n

(* The heart of the matter: when every sample before it obeys its rule,    *)
(* the totals decide the rule of the next sample.                          *)
LEMMA SampleDecided ==
    ASSUME NEW batches \in Seq(InputBatch),
           \A p \in Places(batches) : SampleRule(batches, p),
           NEW batch \in InputBatch, NEW k \in 0 .. Len(batch.Samples) - 1,
           \A j \in 1 .. k :
              SampleRule(Append(batches, batch), <<Len(batches) + 1, j>>),
           NEW previous, Correctable(previous.PreviousPredictions, batches),
           NEW totals \in Totals,
           Bounds(Append(batches, batch), SeenAt(Append(batches, batch), Len(batches) + 1, k),
                  totals.SampleId, totals.Timestamp, totals.CommittedSequence),
           Lists(totals.Predictions, batch.Samples, k)
    PROVE  Passes(batch, Capabilities, previous, totals, k + 1) <=>
              SampleRule(Append(batches, batch), <<Len(batches) + 1, k + 1>>)
<1> DEFINE longer == Append(batches, batch)
           n == Len(batches) + 1
           seen == SeenAt(longer, n, k)
           samples == batch.Samples
           sample == samples[k + 1]
<1>1. /\ longer \in Seq(InputBatch) /\ Len(longer) = n /\ longer[n] = batch /\ n \in Nat
      /\ \A i \in 1 .. Len(samples) : <<n, i>> \in Places(longer)
      /\ \A i \in 1 .. Len(samples) : At(longer, <<n, i>>) = samples[i]
  BY PlacesGrow
<1>2. /\ \A p \in Places(longer) : Before(p, <<n, k + 1>>) <=> p \in seen
      /\ seen \subseteq Places(longer)
      /\ \A j \in 1 .. k : <<n, j>> \in seen
      /\ \A p \in seen : p[1] = n => p[2] \in 1 .. k /\ p = <<n, p[2]>>
  BY SeenBefore
<1>3. /\ samples \in Seq(InputSample) /\ k \in Nat /\ Len(samples) \in Nat
      /\ k + 1 \in 1 .. Len(samples)
      /\ \A j \in 1 .. k : j \in 1 .. Len(samples) /\ j \in Nat
      /\ (k + 1) - 1 = k
  BY DEF InputBatch
<1>4. \A i \in 1 .. Len(samples) : samples[i].Id \in Nat /\ samples[i].Sequence \in Nat
                                   /\ samples[i].Time \in Nat
  <2>1. \A x \in InputSample : x.Id \in Nat /\ x.Sequence \in Nat /\ x.Time \in Nat
    BY DEF InputSample
  <2> QED
    BY <1>3, <2>1
<1>5. /\ sample \in InputSample /\ sample.Id \in Nat /\ sample.Sequence \in Nat
      /\ sample.Time \in Nat /\ sample.Origin \in Origins \union {"Undefined"}
  <2>1. sample \in InputSample
    BY <1>3
  <2> HIDE DEF sample
  <2> QED
    BY <2>1 DEF InputSample
<1>6. \A p \in seen : At(longer, p).Id \in Nat /\ At(longer, p).Sequence \in Nat
                      /\ At(longer, p).Time \in Nat
  BY <1>1, <1>2, SampleAt
<1>7. totals.SampleId \in Nat /\ totals.Timestamp \in Nat /\ totals.CommittedSequence \in Nat
  BY DEF Totals
<1>8. Bounds(longer, seen, totals.SampleId, totals.Timestamp, totals.CommittedSequence)
  OBVIOUS
<1>9. Replaces(longer, n, k + 1) <=> MatchesPreviousPrediction(previous, sample)
  BY <1>3, MatchMeans
<1>10. Replaces(longer, n, k + 1) => sample.Sequence # 0
  BY <1>3, ReplacementNumbered
<1>11. ASSUME NEW j \in 1 .. k, NEW i \in 1 .. j - 1
       PROVE  /\ samples[i].Sequence <= samples[j].Sequence
              /\ i \in 1 .. k
  <2>1. i \in 1 .. k /\ i < j /\ j \in 1 .. Len(samples) /\ i \in 1 .. Len(samples)
    BY <1>3
  <2>2. SampleRule(longer, <<n, j>>)
    OBVIOUS
  <2>3. Before(<<n, i>>, <<n, j>>)
    BY <2>1 DEF Before
  <2> QED
    BY <1>1, <2>1, <2>2, <2>3 DEF SampleRule
<1> HIDE DEF longer, n, seen
<1> DEFINE older(p) == At(longer, p)
<1>12. sample.Id # 0 =>
          (totals.SampleId < sample.Id <=> \A p \in seen : older(p).Id < sample.Id)
  <2> HIDE DEF sample
  <2> QED
    BY <1>5, <1>6, <1>7, <1>8 DEF Bounds
<1>13. totals.Timestamp <= sample.Time <=> \A p \in seen : older(p).Time <= sample.Time
  <2> HIDE DEF sample
  <2> QED
    BY <1>5, <1>6, <1>7, <1>8 DEF Bounds
<1>14. totals.CommittedSequence < sample.Sequence <=>
          /\ sample.Sequence # 0
          /\ \A p \in seen : Committed(older(p)) => older(p).Sequence < sample.Sequence
  <2> HIDE DEF sample
  <2> QED
    BY <1>5, <1>6, <1>7, <1>8 DEF Bounds
<1>15. (k + 1 > 1 => samples[k].Sequence <= sample.Sequence) <=>
          \A j \in 1 .. k : samples[j].Sequence <= sample.Sequence
  <2>1. CASE k = 0
    BY <2>1
  <2>2. CASE k # 0
    <3>1. k \in 1 .. k /\ k + 1 > 1
      BY <1>3, <2>2
    <3>2. ASSUME samples[k].Sequence <= sample.Sequence, NEW j \in 1 .. k
          PROVE  samples[j].Sequence <= sample.Sequence
      <4>1. CASE j = k
        BY <3>2, <4>1
      <4>2. CASE j # k
        <5>1. j \in 1 .. k - 1
          BY <1>3, <4>2
        <5>2. samples[j].Sequence <= samples[k].Sequence
          BY <1>11, <3>1, <5>1
        <5>3. samples[j].Sequence \in Nat /\ samples[k].Sequence \in Nat
          BY <1>3, <1>4, <3>1
        <5> HIDE DEF sample
        <5> QED
          BY <1>5, <3>2, <5>2, <5>3
      <4> QED
        BY <4>1, <4>2
    <3> QED
      BY <3>1, <3>2
  <2> QED
    BY <2>1, <2>2
<1>16. (totals.Predictions # <<>> =>
           totals.Predictions[Len(totals.Predictions)].Sequence < sample.Sequence) <=>
          \A j \in 1 .. k : samples[j].Origin = "Predicted" =>
                               samples[j].Sequence < sample.Sequence
  <2> DEFINE listed == totals.Predictions
             m == Len(listed)
  <2>1. listed \in Seq(Prediction) /\ m \in Nat /\ (listed # <<>> <=> m \in 1 .. m)
    BY EmptySeq DEF Totals
  <2>2. \A i \in 1 .. m : listed[i].Sequence \in Nat
    <3>1. \A x \in Prediction : x.Sequence \in Nat
      BY DEF Prediction
    <3> QED
      BY <2>1, <3>1
  <2>3. Lists(listed, samples, k)
    OBVIOUS
  <2> HIDE DEF listed, m, sample
  <2>4. ASSUME listed # <<>> => listed[m].Sequence < sample.Sequence,
               NEW j \in 1 .. k, samples[j].Origin = "Predicted"
        PROVE  samples[j].Sequence < sample.Sequence
    <3>1. PICK i \in 1 .. m : listed[i] = Named(samples[j])
      BY <2>3, <2>4 DEF Lists, m
    <3>2. m \in 1 .. m
      BY <2>1
    <3>3. listed[i].Sequence = samples[j].Sequence /\ listed[i].Sequence <= listed[m].Sequence
      BY <2>3, <3>1 DEF Lists, Named, m
    <3>4. listed[m].Sequence < sample.Sequence
      BY <2>1, <2>4, <3>2
    <3> QED
      BY <1>5, <2>2, <3>2, <3>3, <3>4, SMTT(30)
  <2>5. ASSUME \A j \in 1 .. k : samples[j].Origin = "Predicted" =>
                                    samples[j].Sequence < sample.Sequence,
               listed # <<>>
        PROVE  listed[m].Sequence < sample.Sequence
    <3>1. m \in 1 .. m
      BY <2>1, <2>5
    <3>2. PICK j \in 1 .. k : /\ samples[j].Origin = "Predicted"
                              /\ listed[m] = Named(samples[j])
      BY <2>3, <3>1 DEF Lists, m
    <3> QED
      BY <2>5, <3>2 DEF Named
  <2> QED
    BY <2>4, <2>5 DEF listed, m
<1>17. Validate(sample, Capabilities) = "None" /\ sample.Sequence # 0 <=> SoundSample(sample)
  <2> HIDE DEF sample
  <2> QED
    BY <1>5, ValidateMeans DEF SoundSample
<1>18. sample.Origin \in {"Corrected", "Predicted"} \/
       sample.Origin \notin {"Corrected", "Predicted"}
  OBVIOUS
<1> DEFINE fresh == \A j \in 1 .. k : ~(/\ samples[j].Origin = "Corrected"
                                         /\ samples[j].Corrects = sample.Corrects)
           ahead == \A p \in seen : Committed(older(p)) => older(p).Sequence < sample.Sequence
           advances == \A j \in 1 .. k : samples[j].Sequence <= sample.Sequence
           further == \A j \in 1 .. k : samples[j].Origin = "Predicted" =>
                                           samples[j].Sequence < sample.Sequence
           newest == \A p \in seen : older(p).Id < sample.Id
           later == \A p \in seen : older(p).Time <= sample.Time
(* Both sides as the same seven conditions.                                *)
<1>19. Passes(batch, Capabilities, previous, totals, k + 1) <=>
          /\ SoundSample(sample)
          /\ newest
          /\ "Timestamp" \in Capabilities.Available => later
          /\ sample.Origin # "Corrected" => ahead
          /\ advances
          /\ sample.Origin = "Predicted" => further
          /\ sample.Origin = "Corrected" => Replaces(longer, n, k + 1) /\ fresh
  <2>1. Passes(batch, Capabilities, previous, totals, k + 1) <=>
          /\ Validate(sample, Capabilities) = "None"
          /\ totals.SampleId < sample.Id
          /\ k + 1 > 1 => samples[k].Sequence <= sample.Sequence
          /\ "Timestamp" \in Capabilities.Available => totals.Timestamp <= sample.Time
          /\ sample.Origin = "Corrected" =>
                MatchesPreviousPrediction(previous, sample) /\ fresh
          /\ sample.Origin # "Corrected" => totals.CommittedSequence < sample.Sequence
          /\ sample.Origin = "Predicted" =>
                (totals.Predictions # <<>> =>
                   totals.Predictions[Len(totals.Predictions)].Sequence < sample.Sequence)
    <3>1. totals.SampleId < sample.Id <=> sample.Id > totals.SampleId
      BY <1>5, <1>7
    <3>2. fresh <=> \A earlier \in 1 .. (k + 1) - 1 :
                       ~(/\ batch.Samples[earlier].Origin = "Corrected"
                         /\ batch.Samples[earlier].Corrects = sample.Corrects)
      BY <1>3
    <3> HIDE DEF fresh
    <3> QED
      BY <1>3, <3>1, <3>2 DEF Passes
  <2>2. SoundSample(sample) => sample.Id # 0
    BY DEF SoundSample
  <2>3. Validate(sample, Capabilities) = "None" => sample.Id # 0
    BY <1>5, ValidateMeans
  <2> HIDE DEF sample, fresh, ahead, advances, further, newest, later
  <2>4. sample.Id # 0 => (totals.SampleId < sample.Id <=> newest)
    BY <1>12 DEF newest
  <2>5. totals.Timestamp <= sample.Time <=> later
    BY <1>13 DEF later
  <2>6. totals.CommittedSequence < sample.Sequence <=> sample.Sequence # 0 /\ ahead
    BY <1>14 DEF ahead
  <2>7. (k + 1 > 1 => samples[k].Sequence <= sample.Sequence) <=> advances
    BY <1>15 DEF advances
  <2>8. (totals.Predictions # <<>> =>
           totals.Predictions[Len(totals.Predictions)].Sequence < sample.Sequence) <=> further
    BY <1>16 DEF further
  <2> QED
    BY <1>9, <1>10, <1>17, <2>1, <2>2, <2>3, <2>4, <2>5, <2>6, <2>7, <2>8
<1>20. SampleRule(longer, <<n, k + 1>>) <=>
          /\ SoundSample(sample)
          /\ newest
          /\ "Timestamp" \in Capabilities.Available => later
          /\ sample.Origin # "Corrected" => ahead
          /\ advances
          /\ sample.Origin = "Predicted" => further
          /\ sample.Origin = "Corrected" => Replaces(longer, n, k + 1) /\ fresh
  <2>1. At(longer, <<n, k + 1>>) = sample /\ <<n, k + 1>>[1] = n /\ <<n, k + 1>>[2] = k + 1
    BY <1>1, <1>3
  <2> DEFINE within(p) ==
                /\ older(p).Sequence <= sample.Sequence
                /\ older(p).Origin = "Predicted" /\ sample.Origin = "Predicted" =>
                      older(p).Sequence < sample.Sequence
                /\ older(p).Origin = "Corrected" /\ sample.Origin = "Corrected" =>
                      older(p).Corrects # sample.Corrects
  <2>2. (\A p \in seen : p[1] = n => within(p)) <=>
           /\ advances
           /\ sample.Origin = "Predicted" => further
           /\ sample.Origin = "Corrected" => fresh
    <3>1. \A j \in 1 .. k : <<n, j>> \in seen /\ <<n, j>>[1] = n /\ older(<<n, j>>) = samples[j]
      BY <1>1, <1>2, <1>3
    <3>2. \A p \in seen : p[1] = n => p[2] \in 1 .. k /\ older(p) = samples[p[2]]
      BY <1>1, <1>2, <1>3
    <3> HIDE DEF older, sample
    <3>3. ASSUME \A p \in seen : p[1] = n => within(p)
          PROVE  /\ advances
                 /\ sample.Origin = "Predicted" => further
                 /\ sample.Origin = "Corrected" => fresh
      <4>1. \A j \in 1 .. k : within(<<n, j>>)
        BY <3>1, <3>3
      <4> QED
        BY <3>1, <4>1
    <3>4. ASSUME advances,
                 sample.Origin = "Predicted" => further,
                 sample.Origin = "Corrected" => fresh,
                 NEW p \in seen, p[1] = n
          PROVE  within(p)
      BY <3>2, <3>4
    <3> QED
      BY <3>3, <3>4
  <2>3. SampleRule(longer, <<n, k + 1>>) <=>
           /\ SoundSample(sample)
           /\ \A p \in seen :
                 /\ older(p).Id < sample.Id
                 /\ "Timestamp" \in Capabilities.Available => older(p).Time <= sample.Time
                 /\ Committed(older(p)) /\ sample.Origin # "Corrected" =>
                       older(p).Sequence < sample.Sequence
                 /\ p[1] = n => within(p)
           /\ sample.Origin = "Corrected" => Replaces(longer, n, k + 1)
    BY <1>2, <2>1 DEF SampleRule
  <2> HIDE DEF within, older, sample
  <2>4. (\A p \in seen :
            /\ older(p).Id < sample.Id
            /\ "Timestamp" \in Capabilities.Available => older(p).Time <= sample.Time
            /\ Committed(older(p)) /\ sample.Origin # "Corrected" =>
                  older(p).Sequence < sample.Sequence
            /\ p[1] = n => within(p)) <=>
        /\ newest
        /\ "Timestamp" \in Capabilities.Available => later
        /\ sample.Origin # "Corrected" => ahead
        /\ \A p \in seen : p[1] = n => within(p)
    OBVIOUS
  <2> HIDE DEF fresh, ahead, advances, further, newest, later
  <2> QED
    BY <2>2, <2>3, <2>4
<1> HIDE DEF sample, fresh, ahead, advances, further, newest, later
<1> QED
  BY <1>19, <1>20 DEF longer, n

LEMMA OneMore ==
    ASSUME NEW S, NEW s \in Seq(S), NEW e \in S
    PROVE  LET m == Len(s) IN
           /\ Append(s, e) \in Seq(S) /\ Len(Append(s, e)) = m + 1
           /\ Append(s, e)[m + 1] = e
           /\ \A i \in 1 .. m : Append(s, e)[i] = s[i]
           /\ m + 1 \in 1 .. m + 1
           /\ \A i \in 1 .. m + 1 : i \in 1 .. m \/ i = m + 1
           /\ \A i \in 1 .. m : i \in 1 .. m + 1
OBVIOUS

(* Once the next sample has obeyed its rule, the totals cover it too.      *)
LEMMA TotalsCover ==
    ASSUME NEW batches \in Seq(InputBatch),
           NEW batch \in InputBatch, NEW k \in 0 .. Len(batch.Samples) - 1,
           SampleRule(Append(batches, batch), <<Len(batches) + 1, k + 1>>),
           NEW totals \in Totals,
           Bounds(Append(batches, batch), SeenAt(Append(batches, batch), Len(batches) + 1, k),
                  totals.SampleId, totals.Timestamp, totals.CommittedSequence),
           Lists(totals.Predictions, batch.Samples, k)
    PROVE  LET next == Scanned(batch.Samples[k + 1], totals) IN
           /\ Bounds(Append(batches, batch),
                     SeenAt(Append(batches, batch), Len(batches) + 1, k + 1),
                     next.SampleId, next.Timestamp, next.CommittedSequence)
           /\ Lists(next.Predictions, batch.Samples, k + 1)
<1> DEFINE longer == Append(batches, batch)
           n == Len(batches) + 1
           seen == SeenAt(longer, n, k)
           place == <<n, k + 1>>
           samples == batch.Samples
           sample == samples[k + 1]
           next == Scanned(sample, totals)
<1>1. /\ longer \in Seq(InputBatch) /\ Len(longer) = n /\ n \in Nat
      /\ \A i \in 1 .. Len(samples) : <<n, i>> \in Places(longer)
      /\ \A i \in 1 .. Len(samples) : At(longer, <<n, i>>) = samples[i]
  BY PlacesGrow
<1>2. /\ \A p \in Places(longer) : Before(p, place) <=> p \in seen
      /\ seen \subseteq Places(longer)
      /\ \A j \in 1 .. k : <<n, j>> \in seen
  BY SeenBefore
<1>3. /\ samples \in Seq(InputSample) /\ k \in Nat /\ Len(samples) \in Nat
      /\ k + 1 \in 1 .. Len(samples)
      /\ \A j \in 1 .. k : j \in 1 .. Len(samples)
      /\ \A j \in 1 .. k + 1 : j \in 1 .. k \/ j = k + 1
      /\ \A j \in 1 .. k : j \in 1 .. k + 1
      /\ k + 1 \in 1 .. k + 1
  BY DEF InputBatch
<1>4. place \in Places(longer) /\ At(longer, place) = sample
  BY <1>1, <1>3
<1>5. SampleRule(longer, place)
  OBVIOUS
<1>6. ASSUME NEW p \in SeenAt(longer, n, k + 1) PROVE p \in seen \/ p = place
  <2>1. p \in Places(longer) /\ (p[1] < n \/ p[2] <= k + 1)
    BY <1>6 DEF SeenAt
  <2>2. p = <<p[1], p[2]>> /\ p[1] \in 1 .. n /\ p[2] \in Nat
    BY <1>1, <2>1, PlaceIs, SampleAt
  <2>3. CASE p[1] < n \/ p[2] <= k
    BY <2>1, <2>3 DEF SeenAt
  <2>4. CASE ~(p[1] < n \/ p[2] <= k)
    <3>1. p[1] = n /\ p[2] = k + 1
      BY <1>1, <1>3, <2>1, <2>2, <2>4
    <3> QED
      BY <2>2, <3>1
  <2> QED
    BY <2>3, <2>4
<1>7. seen \subseteq SeenAt(longer, n, k + 1) /\ place \in SeenAt(longer, n, k + 1)
  <2>1. \A p \in seen : p \in Places(longer) /\ (p[1] < n \/ p[2] <= k + 1)
    <3> SUFFICES ASSUME NEW p \in seen
                 PROVE  p \in Places(longer) /\ (p[1] < n \/ p[2] <= k + 1)
      OBVIOUS
    <3>1. p \in Places(longer) /\ (p[1] < n \/ p[2] <= k)
      BY DEF SeenAt
    <3>2. p[2] \in Nat
      BY <1>1, <3>1, SampleAt
    <3> QED
      BY <1>3, <3>1, <3>2
  <2> QED
    BY <1>3, <1>4, <2>1 DEF SeenAt
<1>8. /\ sample.Id \in Nat /\ sample.Sequence \in Nat /\ sample.Time \in Nat
  <2>1. sample \in InputSample
    BY <1>3
  <2> HIDE DEF sample
  <2> QED
    BY <2>1 DEF InputSample
<1>9. \A p \in seen : At(longer, p).Id \in Nat /\ At(longer, p).Sequence \in Nat
                      /\ At(longer, p).Time \in Nat
  BY <1>1, <1>2, SampleAt
<1>10. totals.SampleId \in Nat /\ totals.Timestamp \in Nat /\ totals.CommittedSequence \in Nat
       /\ totals.Predictions \in Seq(Prediction)
  BY DEF Totals
<1>11. Bounds(longer, seen, totals.SampleId, totals.Timestamp, totals.CommittedSequence)
  OBVIOUS
<1>12. /\ next.SampleId = sample.Id
       /\ next.Timestamp = Maximum(totals.Timestamp, sample.Time)
       /\ next.CommittedSequence = IF sample.Origin = "Predicted" THEN totals.CommittedSequence
                                   ELSE Maximum(totals.CommittedSequence, sample.Sequence)
       /\ next.Predictions = IF sample.Origin = "Predicted"
                             THEN Append(totals.Predictions, Named(sample))
                             ELSE totals.Predictions
  BY DEF Scanned, Named
<1>13. \A p \in seen : At(longer, p).Id < sample.Id
  BY <1>2, <1>4, <1>5 DEF SampleRule
<1>14. \A j \in 1 .. k : samples[j].Sequence <= sample.Sequence
  <2> SUFFICES ASSUME NEW j \in 1 .. k PROVE samples[j].Sequence <= sample.Sequence
    OBVIOUS
  <2>1. <<n, j>> \in seen /\ <<n, j>>[1] = n /\ At(longer, <<n, j>>) = samples[j]
    BY <1>1, <1>2, <1>3
  <2>2. <<n, j>> \in Places(longer) /\ Before(<<n, j>>, place)
    BY <1>2, <2>1
  <2>3. place[1] = n
    OBVIOUS
  <2> QED
    BY <1>4, <1>5, <2>1, <2>2, <2>3 DEF SampleRule
<1> HIDE DEF longer, n, seen, place, next
<1>15. Bounds(longer, SeenAt(longer, n, k + 1),
              next.SampleId, next.Timestamp, next.CommittedSequence)
  <2> DEFINE id == next.SampleId
             time == next.Timestamp
             committed == next.CommittedSequence
  <2> HIDE DEF sample
  <2>1. /\ id \in Nat /\ time \in Nat /\ committed \in Nat
        /\ id = sample.Id /\ totals.Timestamp <= time /\ sample.Time <= time
        /\ time = totals.Timestamp \/ time = sample.Time
        /\ totals.CommittedSequence <= committed
        /\ Committed(sample) => sample.Sequence <= committed
        /\ \/ committed = totals.CommittedSequence
           \/ committed = sample.Sequence /\ Committed(sample)
    BY <1>8, <1>10, <1>12, SMTT(30) DEF Maximum, Committed
  <2> HIDE DEF id, time, committed
  <2>2. ASSUME NEW p \in SeenAt(longer, n, k + 1)
        PROVE  /\ At(longer, p).Id <= id
               /\ At(longer, p).Time <= time
               /\ Committed(At(longer, p)) => At(longer, p).Sequence <= committed
    <3>1. CASE p \in seen
      <4>1. /\ At(longer, p).Id \in Nat /\ At(longer, p).Sequence \in Nat
            /\ At(longer, p).Time \in Nat
        BY <1>9, <3>1
      <4>2. /\ At(longer, p).Time <= totals.Timestamp
            /\ Committed(At(longer, p)) =>
                  At(longer, p).Sequence <= totals.CommittedSequence
        BY <1>11, <3>1 DEF Bounds
      <4>3. At(longer, p).Id < sample.Id
        BY <1>13, <3>1
      <4>4. At(longer, p).Id <= id
        BY <1>8, <2>1, <4>1, <4>3
      <4>5. At(longer, p).Time <= time
        BY <1>10, <2>1, <4>1, <4>2
      <4>6. Committed(At(longer, p)) => At(longer, p).Sequence <= committed
        BY <1>10, <2>1, <4>1, <4>2
      <4> QED
        BY <4>4, <4>5, <4>6
    <3>2. CASE p = place
      BY <1>4, <1>8, <2>1, <3>2
    <3> QED
      BY <1>6, <3>1, <3>2
  <2>3. id # 0 => \E p \in SeenAt(longer, n, k + 1) : At(longer, p).Id = id
    BY <1>4, <1>7, <2>1
  <2>4. time # 0 => \E p \in SeenAt(longer, n, k + 1) : At(longer, p).Time = time
    BY <1>4, <1>7, <1>11, <2>1 DEF Bounds
  <2>5. committed # 0 => \E p \in SeenAt(longer, n, k + 1) :
                             /\ Committed(At(longer, p))
                             /\ At(longer, p).Sequence = committed
    BY <1>4, <1>7, <1>11, <2>1 DEF Bounds
  <2> QED
    BY <2>2, <2>3, <2>4, <2>5 DEF Bounds, id, time, committed
<1>16. Lists(next.Predictions, samples, k + 1)
  <2> DEFINE listed == totals.Predictions
             m == Len(listed)
  <2>1. Lists(listed, samples, k) /\ m \in Nat
    BY <1>10
  <2>2. CASE sample.Origin # "Predicted"
    <3>1. next.Predictions = listed
      BY <1>12, <2>2
    <3> HIDE DEF listed, samples
    <3>2. samples[k + 1].Origin # "Predicted"
      BY <2>2 DEF samples
    <3>3. ASSUME NEW j \in 1 .. k + 1, samples[j].Origin = "Predicted"
          PROVE  \E i \in 1 .. Len(listed) : listed[i] = Named(samples[j])
      <4>1. j \in 1 .. k
        BY <1>3, <3>2, <3>3
      <4> QED
        BY <2>1, <3>3, <4>1 DEF Lists
    <3>4. ASSUME NEW i \in 1 .. Len(listed)
          PROVE  \E j \in 1 .. k + 1 : /\ samples[j].Origin = "Predicted"
                                       /\ listed[i] = Named(samples[j])
      <4>1. PICK j \in 1 .. k : /\ samples[j].Origin = "Predicted"
                                /\ listed[i] = Named(samples[j])
        BY <2>1 DEF Lists
      <4> QED
        BY <1>3, <4>1
    <3>5. /\ listed \in Seq(Prediction)
          /\ \A i \in 1 .. Len(listed) : listed[i].Sequence <= listed[Len(listed)].Sequence
      BY <2>1 DEF Lists
    <3>6. Lists(listed, samples, k + 1)
      BY <3>3, <3>4, <3>5 DEF Lists
    <3> QED
      BY <3>1, <3>6
  <2>3. CASE sample.Origin = "Predicted"
    <3> DEFINE longerList == Append(listed, Named(sample))
    <3>1. next.Predictions = longerList
      BY <1>12, <2>3
    <3>2. Named(sample) \in Prediction
      BY <1>8 DEF Named, Prediction
    <3>3. /\ longerList \in Seq(Prediction) /\ Len(longerList) = m + 1
          /\ longerList[m + 1] = Named(sample)
          /\ \A i \in 1 .. m : longerList[i] = listed[i]
          /\ m + 1 \in 1 .. m + 1
          /\ \A i \in 1 .. m + 1 : i \in 1 .. m \/ i = m + 1
          /\ \A i \in 1 .. m : i \in 1 .. m + 1
      BY <1>10, <3>2, OneMore
    <3> HIDE DEF longerList, listed
    <3>4. ASSUME NEW j \in 1 .. k + 1, samples[j].Origin = "Predicted"
          PROVE  \E i \in 1 .. Len(longerList) : longerList[i] = Named(samples[j])
      <4>1. CASE j = k + 1
        BY <3>3, <4>1
      <4>2. CASE j \in 1 .. k
        <5>1. PICK i \in 1 .. m : listed[i] = Named(samples[j])
          BY <2>1, <3>4, <4>2 DEF Lists
        <5> QED
          BY <3>3, <5>1
      <4> QED
        BY <1>3, <4>1, <4>2
    <3>5. ASSUME NEW i \in 1 .. Len(longerList)
          PROVE  \E j \in 1 .. k + 1 : /\ samples[j].Origin = "Predicted"
                                       /\ longerList[i] = Named(samples[j])
      <4>1. CASE i = m + 1
        BY <1>3, <2>3, <3>3, <4>1
      <4>2. CASE i \in 1 .. m
        <5>1. PICK j \in 1 .. k : /\ samples[j].Origin = "Predicted"
                                  /\ listed[i] = Named(samples[j])
          BY <2>1, <4>2 DEF Lists
        <5> QED
          BY <1>3, <3>3, <4>2, <5>1
      <4> QED
        BY <3>3, <4>1, <4>2
    <3>6. ASSUME NEW i \in 1 .. Len(longerList)
          PROVE  longerList[i].Sequence <= longerList[Len(longerList)].Sequence
      <4>1. longerList[Len(longerList)].Sequence = sample.Sequence
        BY <3>3 DEF Named
      <4>2. CASE i = m + 1
        BY <1>8, <3>3, <4>1, <4>2
      <4>3. CASE i \in 1 .. m
        <5>1. PICK j \in 1 .. k : listed[i] = Named(samples[j])
          BY <2>1, <4>3 DEF Lists
        <5>2. longerList[i].Sequence = samples[j].Sequence
          BY <3>3, <4>3, <5>1, SMTT(30) DEF Named
        <5> QED
          BY <1>14, <4>1, <5>2
      <4> QED
        BY <3>3, <4>2, <4>3
    <3>7. longerList \in Seq(Prediction)
      BY <3>3
    <3>8. Lists(longerList, samples, k + 1)
      BY <3>4, <3>5, <3>6, <3>7 DEF Lists
    <3> QED
      BY <3>1, <3>8
  <2> QED
    BY <2>2, <2>3
<1> QED
  BY <1>15, <1>16 DEF longer, n, next

(* Before the first sample stand the places of the history, and after the  *)
(* last all places.                                                        *)
LEMMA SeenWhole ==
    ASSUME NEW batches \in Seq(InputBatch), NEW batch \in InputBatch
    PROVE  LET longer == Append(batches, batch)
               n == Len(batches) + 1 IN
           /\ SeenAt(longer, n, Len(batch.Samples)) = Places(longer)
           /\ SeenAt(longer, n, 0) = Places(batches)
<1> DEFINE longer == Append(batches, batch)
           n == Len(batches) + 1
<1>1. /\ Places(batches) \subseteq Places(longer)
      /\ \A p \in Places(longer) :
            \/ p \in Places(batches)
            \/ \E i \in 1 .. Len(batch.Samples) : p = <<n, i>>
      /\ \A p \in Places(batches) : p[1] \in 1 .. n - 1
  BY PlacesGrow
<1>2. n \in Nat /\ Len(batch.Samples) \in Nat
  BY DEF InputBatch
<1> HIDE DEF longer, n
<1>3. ASSUME NEW p \in Places(longer) PROVE p[1] < n \/ p[2] <= Len(batch.Samples)
  <2>1. CASE p \in Places(batches)
    BY <1>1, <1>2, <2>1
  <2>2. ASSUME NEW i \in 1 .. Len(batch.Samples), p = <<n, i>>
        PROVE  p[2] <= Len(batch.Samples)
    BY <1>2, <2>2
  <2> QED
    BY <1>1, <2>1, <2>2
<1>4. ASSUME NEW p \in Places(longer), p[1] < n \/ p[2] <= 0 PROVE p \in Places(batches)
  <2>1. ASSUME NEW i \in 1 .. Len(batch.Samples), p = <<n, i>> PROVE FALSE
    BY <1>2, <1>4, <2>1
  <2> QED
    BY <1>1, <2>1
<1>5. ASSUME NEW p \in Places(batches) PROVE p \in Places(longer) /\ p[1] < n
  BY <1>1, <1>2
<1> QED
  BY <1>3, <1>4, <1>5 DEF SeenAt, longer, n

LEMMA BoundsCarry ==
    ASSUME NEW batches \in Seq(InputBatch), NEW batch \in InputBatch,
           NEW id, NEW time, NEW committed,
           Bounds(batches, Places(batches), id, time, committed)
    PROVE  Bounds(Append(batches, batch), Places(batches), id, time, committed)
<1>1. \A p \in Places(batches) : At(Append(batches, batch), p) = At(batches, p)
  BY PlacesGrow
<1> QED
  BY <1>1 DEF Bounds

(* The scan of a whole batch: every sample passes exactly when every       *)
(* sample obeys its rule, and the totals then cover the longer history.    *)
LEMMA ScanDecides ==
    ASSUME NEW batches \in Seq(InputBatch),
           \A p \in Places(batches) : SampleRule(batches, p),
           NEW batch \in InputBatch,
           NEW previous \in DeliveryState,
           Bounds(batches, Places(batches), previous.LastSampleId,
                  previous.LastTimestamp, previous.LastCommittedSequence),
           Correctable(previous.PreviousPredictions, batches),
           NEW totals, TotalsOf(batch, previous, totals)
    PROVE  LET longer == Append(batches, batch)
               n == Len(batches) + 1
               N == Len(batch.Samples)
               rules == \A i \in 1 .. N : SampleRule(longer, <<n, i>>) IN
           /\ rules <=> \A i \in 1 .. N :
                           Passes(batch, Capabilities, previous, totals[i - 1], i)
           /\ rules => /\ Bounds(longer, Places(longer), totals[N].SampleId,
                                 totals[N].Timestamp, totals[N].CommittedSequence)
                       /\ Lists(totals[N].Predictions, batch.Samples, N)
<1> DEFINE longer == Append(batches, batch)
           n == Len(batches) + 1
           N == Len(batch.Samples)
           Rule(i) == SampleRule(longer, <<n, i>>)
           Pass(i) == Passes(batch, Capabilities, previous, totals[i - 1], i)
           Cover(k) == /\ Bounds(longer, SeenAt(longer, n, k), totals[k].SampleId,
                                 totals[k].Timestamp, totals[k].CommittedSequence)
                       /\ Lists(totals[k].Predictions, batch.Samples, k)
           Decided(k) == /\ (\A i \in 1 .. k : Rule(i)) <=> (\A i \in 1 .. k : Pass(i))
                         /\ (\A i \in 1 .. k : Rule(i)) => Cover(k)
           S == {k \in Nat : k <= N => Decided(k)}
<1>1. N \in Nat
  BY DEF InputBatch
<1>2. /\ \A k \in 0 .. N : totals[k] \in Totals
      /\ totals[0] = Unscanned(previous).Scan
      /\ \A i \in 1 .. N : totals[i] = Scanned(batch.Samples[i], totals[i - 1])
  BY DEF TotalsOf
<1>3. Cover(0)
  <2>1. /\ totals[0].SampleId = previous.LastSampleId
        /\ totals[0].Timestamp = previous.LastTimestamp
        /\ totals[0].CommittedSequence = previous.LastCommittedSequence
        /\ totals[0].Predictions = <<>>
    BY <1>2 DEF Unscanned
  <2>2. Bounds(longer, SeenAt(longer, n, 0), totals[0].SampleId,
               totals[0].Timestamp, totals[0].CommittedSequence)
    <3>1. SeenAt(longer, n, 0) = Places(batches)
      BY SeenWhole
    <3>2. Bounds(longer, Places(batches), previous.LastSampleId,
                 previous.LastTimestamp, previous.LastCommittedSequence)
      BY BoundsCarry
    <3> HIDE DEF longer, n
    <3> QED
      BY <2>1, <3>1, <3>2
  <2>3. Lists(<<>>, batch.Samples, 0)
    BY EmptySeq DEF Lists
  <2> HIDE DEF longer, n
  <2> QED
    BY <2>1, <2>2, <2>3
<1>4. ASSUME NEW k \in Nat, k + 1 <= N, Decided(k) PROVE Decided(k + 1)
  <2>1. /\ k \in 0 .. N - 1 /\ k \in 0 .. N /\ k + 1 \in 1 .. N /\ (k + 1) - 1 = k
        /\ \A i \in 1 .. k + 1 : i \in 1 .. k \/ i = k + 1
        /\ \A i \in 1 .. k : i \in 1 .. k + 1
        /\ k + 1 \in 1 .. k + 1
    BY <1>1, <1>4
  <2>2. totals[k] \in Totals /\ totals[k + 1] = Scanned(batch.Samples[k + 1], totals[k])
    BY <1>2, <2>1
  <2>3. ASSUME \A i \in 1 .. k : Rule(i)
        PROVE  /\ Pass(k + 1) <=> Rule(k + 1)
               /\ Rule(k + 1) => Cover(k + 1)
    <3>1. Cover(k)
      BY <1>4, <2>3
    <3>2. Passes(batch, Capabilities, previous, totals[k], k + 1) <=> Rule(k + 1)
      BY <2>1, <2>2, <2>3, <3>1, SampleDecided
    <3>3. Rule(k + 1) => Cover(k + 1)
      <4> DEFINE now == totals[k]
      <4>1. now \in Totals /\ Bounds(longer, SeenAt(longer, n, k), now.SampleId,
                                     now.Timestamp, now.CommittedSequence)
            /\ Lists(now.Predictions, batch.Samples, k)
        BY <2>2, <3>1
      <4> HIDE DEF now
      <4> DEFINE next == Scanned(batch.Samples[k + 1], now)
      <4>2. Rule(k + 1) => /\ Bounds(longer, SeenAt(longer, n, k + 1), next.SampleId,
                                     next.Timestamp, next.CommittedSequence)
                           /\ Lists(next.Predictions, batch.Samples, k + 1)
        BY <2>1, <4>1, TotalsCover
      <4>3. totals[k + 1] = next
        BY <2>2 DEF now
      <4> HIDE DEF next, Rule, longer, n
      <4> QED
        BY <4>2, <4>3
    <3> QED
      BY <2>1, <3>2, <3>3
  <2> HIDE DEF Rule, Pass, Cover
  <2>4. CASE \A i \in 1 .. k : Rule(i)
    <3>1. \A i \in 1 .. k : Pass(i)
      BY <1>4, <2>4
    <3>2. (\A i \in 1 .. k + 1 : Rule(i)) <=> Rule(k + 1)
      BY <2>1, <2>4
    <3>3. (\A i \in 1 .. k + 1 : Pass(i)) <=> Pass(k + 1)
      BY <2>1, <3>1
    <3> QED
      BY <2>3, <2>4, <3>2, <3>3
  <2>5. CASE ~\A i \in 1 .. k : Rule(i)
    <3>1. ~\A i \in 1 .. k : Pass(i)
      BY <1>4, <2>5
    <3>2. ~(\A i \in 1 .. k + 1 : Rule(i)) /\ ~(\A i \in 1 .. k + 1 : Pass(i))
      BY <2>1, <2>5, <3>1
    <3> QED
      BY <3>2
  <2> QED
    BY <2>4, <2>5
<1>5. Decided(0)
  BY <1>3
<1> HIDE DEF Decided
<1>6. 0 \in S /\ \A k \in S : k + 1 \in S
  <2>1. 0 \in S
    BY <1>5
  <2>2. ASSUME NEW k \in S PROVE k + 1 \in S
    <3>1. k \in Nat /\ k + 1 \in Nat /\ (k + 1 <= N => k <= N)
      BY <1>1
    <3> HIDE DEF N
    <3> QED
      BY <1>4, <3>1
  <2> QED
    BY <2>1, <2>2
<1>7. S = Nat
  <2>1. S \in SUBSET Nat
    OBVIOUS
  <2> HIDE DEF S
  <2> QED
    BY <1>6, <2>1, Induction
<1>8. Decided(N)
  BY <1>1, <1>7
<1>9. SeenAt(longer, n, N) = Places(longer)
  BY SeenWhole
<1> QED
  BY <1>8, <1>9 DEF Decided

-----------------------------------------------------------------------------
(* The summary.                                                            *)

(* Summary: the state of fixed size stands for the open contact.           *)
Summary(batches, s) ==
    /\ OpenContact(batches)
    /\ Obeys(batches)
    /\ batches = <<>> => s = Closed
    /\ batches # <<>> => /\ s.ContactOpen
                         /\ s.Contact = batches[1].Contact
                         /\ s.LastBatchOrdinal = batches[Len(batches)].BatchOrdinal
    /\ Bounds(batches, Places(batches), s.LastSampleId, s.LastTimestamp,
              s.LastCommittedSequence)
    /\ Correctable(s.PreviousPredictions, batches)

LEMMA NoBatches == /\ <<>> \in Seq(InputBatch)
                   /\ Places(<<>>) = {}
                   /\ Summary(<<>>, Closed)
<1>1. <<>> \in Seq(InputBatch) /\ Len(<<>>) = 0 /\ 1 .. 0 = {}
  BY EmptySeq
<1>2. Places(<<>>) = {}
  BY <1>1, PlacesAre
<1>3. OpenContact(<<>>)
  BY <1>1 DEF OpenContact, OneContact
<1>4. Obeys(<<>>)
  BY <1>1, <1>2, <1>3, ObeysBySample DEF OpenContact
<1>5. Bounds(<<>>, {}, 0, 0, 0)
  BY DEF Bounds
<1>6. /\ Closed.LastSampleId = 0 /\ Closed.LastTimestamp = 0
      /\ Closed.LastCommittedSequence = 0 /\ Closed.PreviousPredictions = <<>>
  BY DEF Closed
<1>7. Correctable(<<>>, <<>>)
  BY DEF Correctable
<1> QED
  BY <1>1, <1>2, <1>3, <1>4, <1>5, <1>6, <1>7 DEF Summary

(* What the samples of a batch are checked against says what the state     *)
(* says of the samples before.                                             *)
LEMMA PriorCarries ==
    ASSUME NEW batches, NEW s \in DeliveryState, Summary(batches, s),
           NEW batch \in InputBatch, Stands(batch, s)
    PROVE  LET prior == Prior(batch, s) IN
           /\ prior.LastSampleId = s.LastSampleId
           /\ prior.LastTimestamp = s.LastTimestamp
           /\ prior.LastCommittedSequence = s.LastCommittedSequence
           /\ prior.PreviousPredictions = s.PreviousPredictions
           /\ prior.ContactOpen
           /\ prior.Contact = batch.Contact
<1>1. CASE batch.Phase = "Begin"
  <2>1. ~s.ContactOpen
    BY <1>1 DEF Stands
  <2>2. s = Closed
    BY <2>1 DEF Summary
  <2>3. Prior(batch, s) = Opened(batch)
    BY <1>1 DEF Prior
  <2> QED
    BY <2>2, <2>3 DEF Opened, Closed
<1>2. CASE batch.Phase # "Begin"
  BY <1>2 DEF Stands, Prior
<1> QED
  BY <1>1, <1>2

(* The verdict on one batch, and the state after it.                       *)
LEMMA Verdict ==
    ASSUME NEW batches \in Seq(InputBatch), NEW s \in DeliveryState, Summary(batches, s),
           NEW batch \in InputBatch
    PROVE  LET longer == Append(batches, batch)
               after == ValidateBatch(batch, Capabilities, s).State IN
           /\ Accepts(batch, Capabilities, s) <=> Obeys(longer)
           /\ Accepts(batch, Capabilities, s) =>
                 IF after.ContactOpen THEN Summary(longer, after) ELSE after = Closed
<1> DEFINE longer == Append(batches, batch)
           n == Len(batches) + 1
           N == Len(batch.Samples)
           prior == Prior(batch, s)
           accepts == Accepts(batch, Capabilities, s)
           after == ValidateBatch(batch, Capabilities, s).State
           stands == Fits(batch, Capabilities) /\ Stands(batch, s)
           rules == \A i \in 1 .. N : SampleRule(longer, <<n, i>>)
<1>1. /\ longer \in Seq(InputBatch) /\ Len(longer) = n /\ longer[n] = batch /\ n \in Nat
      /\ \A b \in 1 .. n - 1 : longer[b] = batches[b]
      /\ Places(batches) \subseteq Places(longer)
      /\ \A i \in 1 .. N : <<n, i>> \in Places(longer)
      /\ \A p \in Places(longer) :
            p \in Places(batches) \/ \E i \in 1 .. N : p = <<n, i>>
  BY PlacesGrow
<1>2. /\ longer # <<>> /\ N \in Nat
      /\ n \in 1 .. n /\ n >= 1
      /\ n = 1 \/ 1 \in 1 .. n - 1
      /\ n = 1 <=> batches = <<>>
      /\ \A b \in 1 .. n : b = n \/ b \in 1 .. n - 1
      /\ n - 1 = Len(batches)
  <2>1. N \in Nat
    BY DEF InputBatch
  <2>2. Len(batches) \in Nat /\ (Len(batches) = 0 <=> batches = <<>>)
    BY EmptySeq
  <2>3. longer # <<>>
    BY <1>1, <2>2
  <2> HIDE DEF longer
  <2> QED
    BY <2>1, <2>2, <2>3
<1>3. OneContact(longer) <=> stands
  <2>1. batches = <<>> => ~s.ContactOpen
    BY DEF Summary, Closed
  <2> QED
    BY <2>1, OneContactGrows DEF Summary
<1>4. \A p \in Places(batches) : SampleRule(batches, p)
  BY ObeysBySample DEF Summary
<1>5. \A p \in Places(batches) : SampleRule(longer, p)
  BY <1>4, RuleOfPrefix
<1>6. Obeys(longer) <=> stands /\ rules
  <2>1. Obeys(longer) <=> OneContact(longer) /\ \A q \in Places(longer) : SampleRule(longer, q)
    BY <1>1, ObeysBySample
  <2> HIDE DEF longer, n, N
  <2>2. (\A q \in Places(longer) : SampleRule(longer, q)) <=> rules
    BY <1>1, <1>5
  <2> HIDE DEF rules, stands
  <2> QED
    BY <1>3, <2>1, <2>2
<1>7. prior \in DeliveryState
  BY PriorType
<1>8. PICK totals : TotalsOf(batch, prior, totals)
  BY <1>7, TotalsExist
<1> DEFINE passes == \A i \in 1 .. N : Passes(batch, Capabilities, prior, totals[i - 1], i)
<1>9. /\ accepts <=> stands /\ passes
      /\ accepts => after = StateAfter(batch, prior, totals[N])
  BY <1>8, AcceptsMeans, OfferAssumption
<1>10. ASSUME stands
       PROVE  /\ rules <=> passes
              /\ rules => /\ Bounds(longer, Places(longer), totals[N].SampleId,
                                    totals[N].Timestamp, totals[N].CommittedSequence)
                          /\ Lists(totals[N].Predictions, batch.Samples, N)
  <2>1. /\ prior.LastSampleId = s.LastSampleId
        /\ prior.LastTimestamp = s.LastTimestamp
        /\ prior.LastCommittedSequence = s.LastCommittedSequence
        /\ prior.PreviousPredictions = s.PreviousPredictions
    BY <1>10, PriorCarries
  <2>2. /\ Bounds(batches, Places(batches), prior.LastSampleId, prior.LastTimestamp,
                  prior.LastCommittedSequence)
        /\ Correctable(prior.PreviousPredictions, batches)
    <3> HIDE DEF prior
    <3> QED
      BY <2>1 DEF Summary
  <2> HIDE DEF prior
  <2> QED
    BY <1>4, <1>7, <1>8, <2>2, ScanDecides
<1>11. ASSUME accepts
       PROVE  IF after.ContactOpen THEN Summary(longer, after) ELSE after = Closed
  <2>1. stands /\ Obeys(longer)
        /\ Bounds(longer, Places(longer), totals[N].SampleId,
                  totals[N].Timestamp, totals[N].CommittedSequence)
        /\ Lists(totals[N].Predictions, batch.Samples, N)
    <3> HIDE DEF accepts, stands, rules, passes, longer, N
    <3> QED
      BY <1>6, <1>9, <1>10, <1>11
  <2>2. after = StateAfter(batch, prior, totals[N])
    <3> HIDE DEF accepts, after
    <3> QED
      BY <1>9, <1>11
  <2>3. CASE batch.Phase \in {"End", "Cancel"}
    <3>1. after = Closed
      <4> HIDE DEF after
      <4> QED
        BY <2>2, <2>3 DEF StateAfter
    <3>2. ~Closed.ContactOpen
      BY DEF Closed
    <3> HIDE DEF after, longer
    <3> QED
      BY <3>1, <3>2
  <2>4. CASE batch.Phase \notin {"End", "Cancel"}
    <3>1. /\ after.ContactOpen = prior.ContactOpen
          /\ after.Contact = prior.Contact
          /\ after.LastBatchOrdinal = batch.BatchOrdinal
          /\ after.LastSampleId = totals[N].SampleId
          /\ after.LastTimestamp = totals[N].Timestamp
          /\ after.LastCommittedSequence = totals[N].CommittedSequence
          /\ after.PreviousPredictions = totals[N].Predictions
      <4> HIDE DEF after, prior, N
      <4> QED
        BY <2>2, <2>4 DEF StateAfter
    <3>2. prior.ContactOpen /\ prior.Contact = batch.Contact
      BY <2>1, PriorCarries
    <3> HIDE DEF after, prior, longer, n, N
    <3>3. OneContact(longer)
      BY <2>1 DEF Obeys
    <3>4. batch.Phase \in {"Begin", "Update"}
      BY <2>1, <2>4 DEF Fits, Phases
    <3>5. OpenContact(longer)
      <4>1. \A b \in 1 .. n - 1 : batches[b].Phase \in {"Begin", "Update"}
        BY <1>2 DEF Summary, OpenContact
      <4> QED
        BY <1>1, <1>2, <3>3, <3>4, <4>1 DEF OpenContact
    <3>6. batch.Contact = longer[1].Contact
      <4>1. CASE n = 1
        BY <1>1, <4>1
      <4>2. CASE n # 1
        <5>1. n > 1
          BY <1>1, <1>2, <4>2
        <5> QED
          BY <1>1, <1>2, <3>3, <5>1 DEF OneContact
      <4> QED
        BY <4>1, <4>2
    <3>7. longer[Len(longer)].BatchOrdinal = batch.BatchOrdinal
      BY <1>1
    <3>8. Correctable(after.PreviousPredictions, longer)
      BY <1>1, <1>2, <2>1, <3>1 DEF Correctable, N
    <3>9. Bounds(longer, Places(longer), after.LastSampleId, after.LastTimestamp,
                 after.LastCommittedSequence)
      BY <2>1, <3>1
    <3> QED
      BY <1>2, <2>1, <3>1, <3>2, <3>5, <3>6, <3>7, <3>8, <3>9 DEF Summary
  <2> QED
    BY <2>3, <2>4
<1>12. accepts <=> Obeys(longer)
  <2> HIDE DEF accepts, stands, rules, passes, longer
  <2> QED
    BY <1>6, <1>9, <1>10
<1> HIDE DEF accepts
<1> QED
  BY <1>11, <1>12 DEF accepts

-----------------------------------------------------------------------------
(* The receiver.                                                           *)

SummaryInv ==
    /\ state \in DeliveryState
    /\ accepted \in Seq(InputBatch)
    /\ Summary(accepted, state)

(* The state a receiver keeps stands for the batches of its open contact,  *)
(* however they came about.                                                *)
THEOREM StateSummarises == Spec => []SummaryInv
<1>1. Init => SummaryInv
  BY NoBatches, ClosedType DEF Init, SummaryInv
<1>2. SummaryInv /\ [Next]_vars => SummaryInv'
  <2> SUFFICES ASSUME SummaryInv, [Next]_vars PROVE SummaryInv'
    OBVIOUS
  <2>1. ASSUME NEW batch \in Batches, Accept(batch) PROVE SummaryInv'
    <3>1. batch \in InputBatch /\ Capabilities \in InputSourceCapabilities
      BY OfferAssumption
    <3>2. state' \in DeliveryState
      BY <2>1, <3>1, ReturnedStateType DEF SummaryInv, Accept
    <3>3. IF state'.ContactOpen THEN Summary(Append(accepted, batch), state')
                                ELSE state' = Closed
      BY <2>1, <3>1, Verdict DEF SummaryInv, Accept
    <3>4. CASE state'.ContactOpen
      <4>1. accepted' = Append(accepted, batch)
        BY <2>1, <3>4 DEF Accept
      <4>2. accepted' \in Seq(InputBatch)
        BY <3>1, <4>1 DEF SummaryInv
      <4> QED
        BY <3>2, <3>3, <3>4, <4>1, <4>2 DEF SummaryInv
    <3>5. CASE ~state'.ContactOpen
      <4>1. accepted' = <<>> /\ state' = Closed
        BY <2>1, <3>3, <3>5 DEF Accept
      <4> QED
        BY <3>2, <4>1, NoBatches DEF SummaryInv
    <3> QED
      BY <3>4, <3>5
  <2>2. CASE Abandon
    BY <2>2, NoBatches, ClosedType DEF Abandon, SummaryInv
  <2>3. CASE UNCHANGED vars
    BY <2>3 DEF vars, SummaryInv
  <2> QED
    BY <2>1, <2>2, <2>3 DEF Next
<1> QED
  BY <1>1, <1>2, PTL DEF Spec

(* From the state of fixed size ValidateBatch accepts exactly the batches  *)
(* that keep the whole contact within the delivery rules: for every        *)
(* source, every batch it may offer and contacts of every length.          *)
THEOREM StateIsEnough == Spec => []VerdictMatchesHistory
<1>1. SummaryInv => VerdictMatchesHistory
  BY Verdict, OfferAssumption DEF SummaryInv, VerdictMatchesHistory
<1> QED
  BY <1>1, StateSummarises, PTL

(* Over a whole contact no prediction is replaced twice.                   *)
THEOREM CorrectedOnce == Spec => []PredictionCorrectedOnce
<1>1. SummaryInv => PredictionCorrectedOnce
  <2> SUFFICES ASSUME SummaryInv, NEW p \in Places(accepted), NEW q \in Places(accepted),
                      At(accepted, p).Origin = "Corrected",
                      At(accepted, q).Origin = "Corrected",
                      At(accepted, p).Corrects = At(accepted, q).Corrects, p # q
               PROVE  FALSE
    BY DEF PredictionCorrectedOnce
  <2>1. /\ accepted \in Seq(InputBatch)
        /\ \A r \in Places(accepted) : SampleRule(accepted, r)
    BY ObeysBySample DEF SummaryInv, Summary
  <2>2. ASSUME NEW r \in Places(accepted), NEW t \in Places(accepted),
               At(accepted, r).Origin = "Corrected", At(accepted, t).Origin = "Corrected",
               At(accepted, r).Corrects = At(accepted, t).Corrects, Before(r, t)
        PROVE  FALSE
    <3>1. r[1] # t[1]
      BY <2>1, <2>2 DEF SampleRule
    <3>2. r[1] \in Nat /\ t[1] \in Nat /\ r[1] < t[1]
      BY <2>1, <2>2, <3>1, SampleAt DEF Before
    <3>3. /\ r[1] > 1 /\ r[1] - 1 \in 1 .. Len(accepted)
          /\ t[1] > 1 /\ t[1] - 1 \in 1 .. Len(accepted)
          /\ Replaces(accepted, r[1], r[2]) /\ Replaces(accepted, t[1], t[2])
      <4>1. Replaces(accepted, r[1], r[2]) /\ Replaces(accepted, t[1], t[2])
        BY <2>1, <2>2 DEF SampleRule
      <4>2. r[1] > 1 /\ t[1] > 1
        BY <4>1 DEF Replaces
      <4>3. r[1] \in 1 .. Len(accepted) /\ t[1] \in 1 .. Len(accepted)
        BY PlaceIs
      <4> QED
        BY <2>1, <4>1, <4>2, <4>3
    <3>4. PICK k \in 1 .. Len(accepted[r[1] - 1].Samples) :
             accepted[r[1] - 1].Samples[k].Id = At(accepted, r).Corrects
      BY <3>3 DEF Replaces, At
    <3>5. PICK m \in 1 .. Len(accepted[t[1] - 1].Samples) :
             accepted[t[1] - 1].Samples[m].Id = At(accepted, t).Corrects
      BY <3>3 DEF Replaces, At
    <3> DEFINE u == <<r[1] - 1, k>>
               v == <<t[1] - 1, m>>
    <3>6. u \in Places(accepted) /\ v \in Places(accepted)
      BY <3>3, PlaceOf
    <3>7. At(accepted, u).Id = At(accepted, v).Id
      BY <2>2, <3>4, <3>5 DEF At
    <3>8. Before(u, v)
      BY <3>2 DEF Before
    <3>9. At(accepted, u).Id < At(accepted, v).Id
      BY <2>1, <3>6, <3>8 DEF SampleRule
    <3>10. At(accepted, u).Id \in Nat
      BY <2>1, <3>6, SampleAt
    <3> QED
      BY <3>7, <3>9, <3>10
  <2>3. Before(p, q) \/ Before(q, p)
    BY <2>1, BeforeOrAfter
  <2> QED
    BY <2>2, <2>3
<1> QED
  BY <1>1, StateSummarises, PTL

(* What a corrected sample replaces is a prediction delivered before it,   *)
(* of the same place in the contact.                                       *)
THEOREM CorrectionsAreLate == Spec => []CorrectsAnEarlierPrediction
<1>1. SummaryInv => CorrectsAnEarlierPrediction
  <2> SUFFICES ASSUME SummaryInv, NEW q \in Places(accepted),
                      At(accepted, q).Origin = "Corrected"
               PROVE  \E p \in Places(accepted) :
                         /\ Before(p, q)
                         /\ At(accepted, p).Id = At(accepted, q).Corrects
                         /\ At(accepted, p).Origin = "Predicted"
                         /\ At(accepted, p).Sequence = At(accepted, q).Sequence
    BY DEF CorrectsAnEarlierPrediction
  <2>1. /\ accepted \in Seq(InputBatch)
        /\ SampleRule(accepted, q)
    BY ObeysBySample DEF SummaryInv, Summary
  <2>2. Replaces(accepted, q[1], q[2])
    BY <2>1 DEF SampleRule
  <2>3. q[1] > 1 /\ q[1] \in 1 .. Len(accepted)
    BY <2>2, PlaceIs DEF Replaces
  <2>4. q[1] - 1 \in 1 .. Len(accepted) /\ q[1] - 1 < q[1]
    BY <2>1, <2>3
  <2>5. PICK k \in 1 .. Len(accepted[q[1] - 1].Samples) :
           /\ accepted[q[1] - 1].Samples[k].Origin = "Predicted"
           /\ accepted[q[1] - 1].Samples[k].Id = At(accepted, q).Corrects
           /\ accepted[q[1] - 1].Samples[k].Sequence = At(accepted, q).Sequence
    BY <2>2 DEF Replaces, At
  <2> DEFINE p == <<q[1] - 1, k>>
  <2>6. p \in Places(accepted)
    BY <2>4, PlaceOf
  <2>7. Before(p, q)
    BY <2>4 DEF Before
  <2>8. /\ At(accepted, p).Id = At(accepted, q).Corrects
        /\ At(accepted, p).Origin = "Predicted"
        /\ At(accepted, p).Sequence = At(accepted, q).Sequence
    BY <2>5 DEF At
  <2> QED
    BY <2>6, <2>7, <2>8
<1> QED
  BY <1>1, StateSummarises, PTL
=============================================================================
