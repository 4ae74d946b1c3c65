--------------------------- MODULE ContactStream ---------------------------
(***************************************************************************)
(* What every IInputSource promises the receiver it is started with        *)
(* (source/phi/source.cppm), told from the receiver's side only.  There is *)
(* no queue, no slot and no device here: a source opens a session, offers  *)
(* batches in it, and ends it.  view is what the batches the receiver      *)
(* accepted establish for the next one, the DeliveryState of               *)
(* source/phi/batch_validation.cppm reduced to its scalars.                *)
(*                                                                         *)
(* A batch the receiver refuses with Busy is a stuttering step.  The       *)
(* concrete sources of this project implement this module.                 *)
(***************************************************************************)
EXTENDS Naturals

VARIABLES session,  \* a receiver is bound to the source
          view      \* the receiver's DeliveryState

vars == <<session, view>>

NoContact == [ContactOpen |-> FALSE, Contact |-> 0, LastBatchOrdinal |-> 0,
              LastSampleId |-> 0, LastCommittedSequence |-> 0]

View == [ContactOpen : BOOLEAN, Contact : Nat, LastBatchOrdinal : Nat,
         LastSampleId : Nat, LastCommittedSequence : Nat]

TypeOK == session \in BOOLEAN /\ view \in View

Init == session = FALSE /\ view = NoContact

-----------------------------------------------------------------------------
(* The three ways an accepted batch moves the view from s to t.            *)

Opens(s, t) ==
    /\ ~s.ContactOpen
    /\ t \in View
    /\ t.ContactOpen
    /\ t.Contact # 0
    /\ t.LastSampleId # 0

Extends(s, t) ==
    /\ s.ContactOpen
    /\ t \in View
    /\ t.ContactOpen
    /\ t.Contact = s.Contact
    /\ t.LastBatchOrdinal > s.LastBatchOrdinal
    /\ t.LastSampleId > s.LastSampleId
    /\ t.LastCommittedSequence >= s.LastCommittedSequence

Closes(s, t) == s.ContactOpen /\ t = NoContact

-----------------------------------------------------------------------------
(* IInputSource::Start binds a receiver that has seen nothing.             *)
Start == ~session /\ session' = TRUE /\ view' = NoContact

(* IInputReceiver::Receive, answered Accepted.                             *)
Deliver ==
    /\ session
    /\ UNCHANGED session
    /\ \/ Opens(view, view')
       \/ Extends(view, view')
       \/ Closes(view, view')

(* IInputReceiver::Receive, answered Rejected: the contact is abandoned.   *)
Reject == session /\ UNCHANGED session /\ view' = NoContact

(* IInputSource::Stop, or IInputReceiver::SourceFailed.  The contact the   *)
(* receiver has open is over, unless it was too busy for the last Cancel.  *)
Leave == session /\ session' = FALSE /\ view' \in {view, NoContact}

Next == Start \/ Deliver \/ Reject \/ Leave

Spec == Init /\ [][Next]_vars
=============================================================================
