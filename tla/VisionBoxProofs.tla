---------------------------- MODULE VisionBoxProofs ----------------------------
(***************************************************************************)
(* Theorems about VisionBox, for any commands, photos and labels.          *)
(***************************************************************************)
EXTENDS VisionBox, TLAPS

(* The steps of a photo whose thread still has its labels to read.         *)
Unlabelled == {"capturing", "labelling", "typing"}

(* The steps after them.                                                   *)
Labelled == {"posting", "storing", "describing", "dumping", "queued", "uploaded"}

HasLabels == context.loan # None /\ context.type # None

(* Whoever is going to read the labels of a session finds some.            *)
LabelInv ==
    /\ listener.at # "idle" => listener.opening \in Openings /\ context.loan # None
    /\ listener.at \in {"unlock", "unlocked"} => context.type # None
    /\ context.active \/ sensor = "active" => HasLabels
    /\ \A ph \in Photos :
          /\ photo[ph].at \in Unlabelled => HasLabels
          /\ photo[ph].at = "typing" => photo[ph].loan # None
          /\ photo[ph].at \in Labelled => photo[ph].loan # None /\ photo[ph].type # None

(* How far the thread of a photo is shows in the queue.                    *)
FileInv ==
    \A ph \in Photos :
        /\ photo[ph].at \in {"describing", "dumping"} => ph \in images
        /\ metas[ph] = "whole" => photo[ph].at = "queued"
        /\ metas[ph] = "partial" => photo[ph].at \in {"dumping", "lost"}
        /\ metas[ph] # "absent" => ph \in images

(* The worker is at an entry that is whole, has been accepted before the   *)
(* first file goes, and has no .json any more when the image goes.         *)
WorkerInv ==
    worker.at \in {"posting", "removing", "unlinking"} =>
        /\ worker.photo \in Photos
        /\ photo[worker.photo].at = "queued"
        /\ worker.at # "posting" => Accepted(worker.photo)
        /\ metas[worker.photo] = IF worker.at = "unlinking" THEN "absent" ELSE "whole"

IInv == TypeOK /\ LabelInv /\ FileInv /\ WorkerInv /\ QueuedUntilAccepted

-----------------------------------------------------------------------------
(* Rows                                                                    *)

Steps == Busy \cup {"none", "uploaded", "queued", "blurred", "lost"}

PhotoRows == [at: Steps, shows: Openings \cup {None}, loan: LoanIds \cup {None},
              type: Types \cup {None}]

Contexts == [loan: LoanIds \cup {None}, type: Types \cup {None}, active: BOOLEAN]

LEMMA Labels ==
    /\ None \notin Openings /\ None \notin LoanIds /\ None \notin Types
    /\ \A o \in Openings : LoanOf[o] \in LoanIds /\ TypeOf[o] \in Types
BY BoxConstants DEF LoanIds, Types

LEMMA PhotoFields ==
    ASSUME TypeOK, NEW ph \in Photos
    PROVE  /\ photo[ph].at \in Steps /\ photo[ph] \in PhotoRows
           /\ photo[ph].loan \in LoanIds \cup {None} /\ photo[ph].type \in Types \cup {None}
BY DEF TypeOK, PhotoRows, Steps

(* One photo's row becomes r.                                              *)
Becomes(ph, r) ==
    /\ photo' \in [Photos -> PhotoRows]
    /\ photo'[ph] = r
    /\ \A q \in Photos \ {ph} : photo'[q] = photo[q]

LEMMA RowBecomes ==
    ASSUME TypeOK, NEW ph \in Photos, NEW r \in PhotoRows, photo' = [photo EXCEPT ![ph] = r]
    PROVE  Becomes(ph, r)
BY DEF TypeOK, Becomes, PhotoRows, Steps

(* A step from one place to another leaves the labels.                     *)
Moves(ph, from, to) ==
    /\ photo' \in [Photos -> PhotoRows]
    /\ photo[ph].at = from /\ photo'[ph].at = to
    /\ photo'[ph].loan = photo[ph].loan /\ photo'[ph].type = photo[ph].type
    /\ \A q \in Photos \ {ph} : photo'[q] = photo[q]

LEMMA GoesMoves ==
    ASSUME TypeOK, NEW ph \in Photos, NEW from, NEW to \in Steps, Goes(ph, from, to)
    PROVE  Moves(ph, from, to)
<1> DEFINE r == [photo[ph] EXCEPT !.at = to]
<1>1. photo[ph].at = from /\ photo' = [photo EXCEPT ![ph] = r]
  BY DEF Goes
<1>2. r \in PhotoRows /\ r.at = to /\ r.loan = photo[ph].loan /\ r.type = photo[ph].type
  BY PhotoFields DEF PhotoRows
<1> HIDE DEF r
<1> QED
  BY <1>1, <1>2, RowBecomes DEF Moves, Becomes

(* An answer is counted as one of its photo.                               *)
LEMMA AcceptsAccepted ==
    ASSUME NEW ph \in Photos, Accepts(ph)
    PROVE  Accepted(ph)'
<1> DEFINE a == [photo |-> ph, loan |-> photo[ph].loan, type |-> photo[ph].type]
<1>1. a \in accepted' /\ a.photo = ph
  BY DEF Accepts
<1> QED
  BY <1>1 DEF Accepted

(* What the queue says is as before, if no photo, file or answer changes.  *)
LEMMA QueueSame ==
    ASSUME IInv, UNCHANGED <<photo, images, metas, worker, accepted>>
    PROVE  FileInv' /\ WorkerInv' /\ QueuedUntilAccepted'
BY DEF IInv, FileInv, WorkerInv, QueuedUntilAccepted, Accepted

-----------------------------------------------------------------------------
(* The websocket thread and the door                                       *)

LEMMA ContextSet ==
    ASSUME TypeOK
    PROVE  /\ context \in Contexts
           /\ \A loan \in LoanIds : /\ [context EXCEPT !.loan = loan] \in Contexts
                                    /\ [context EXCEPT !.loan = loan].loan = loan
                                    /\ [context EXCEPT !.loan = loan].type = context.type
                                    /\ [context EXCEPT !.loan = loan].active = context.active
           /\ \A type \in Types : /\ [context EXCEPT !.type = type] \in Contexts
                                  /\ [context EXCEPT !.type = type].type = type
                                  /\ [context EXCEPT !.type = type].loan = context.loan
                                  /\ [context EXCEPT !.type = type].active = context.active
           /\ \A b \in BOOLEAN : /\ [context EXCEPT !.active = b] \in Contexts
                                 /\ [context EXCEPT !.active = b].active = b
                                 /\ [context EXCEPT !.active = b].loan = context.loan
                                 /\ [context EXCEPT !.active = b].type = context.type
BY DEF TypeOK, Contexts

LEMMA ListenerStays == ASSUME IInv, Listener PROVE IInv'
<1> USE DEF IInv
<1>1. UNCHANGED <<photo, images, metas, worker, accepted, over, door, sensor, crashes>>
  BY DEF Listener, OpenSlotLoan, OpenSlotType, OpenSlotUnlock, OpenSlotRelock
<1>2. CASE \E o \in Openings : OpenSlotLoan(o)
  <2>1. PICK o \in Openings : OpenSlotLoan(o)
    BY <1>2
  <2>2. /\ received' = received \cup {o} /\ listener' = [at |-> "type", opening |-> o]
        /\ context' \in Contexts /\ context'.loan = LoanOf[o] /\ context'.loan # None
        /\ context'.type = context.type /\ context'.active = context.active
    BY <2>1, Labels, ContextSet DEF OpenSlotLoan
  <2>3. TypeOK'
    BY <1>1, <2>2 DEF TypeOK, Contexts
  <2>4. LabelInv'
    BY <1>1, <2>2 DEF LabelInv, HasLabels
  <2> QED
    BY <1>1, <2>3, <2>4, QueueSame
<1>3. CASE OpenSlotType
  <2>1. listener.at = "type" /\ listener.opening \in Openings
    BY <1>3 DEF OpenSlotType, LabelInv
  <2>2. /\ received' = received /\ listener' = [listener EXCEPT !.at = "unlock"]
        /\ context' \in Contexts /\ context'.type \in Types
        /\ context'.loan = context.loan /\ context'.active = context.active
    BY <1>3, <2>1, Labels, ContextSet DEF OpenSlotType
  <2>3. TypeOK'
    BY <1>1, <2>2 DEF TypeOK, Contexts
  <2>4. listener'.opening = listener.opening /\ listener'.at = "unlock"
    BY <2>2 DEF TypeOK
  <2>5. LabelInv'
    BY <1>1, <2>1, <2>2, <2>4, Labels DEF LabelInv, HasLabels
  <2> QED
    BY <1>1, <2>3, <2>5, QueueSame
<1>4. CASE OpenSlotUnlock
  <2>1. listener.at = "unlock"
    BY <1>4 DEF OpenSlotUnlock
  <2>2. /\ received' = received /\ listener' = [listener EXCEPT !.at = "unlocked"]
        /\ context' \in Contexts /\ context'.type = context.type
        /\ context'.loan = context.loan
    BY <1>4, ContextSet DEF OpenSlotUnlock
  <2>3. TypeOK'
    BY <1>1, <2>2 DEF TypeOK, Contexts
  <2>4. listener'.opening = listener.opening /\ listener'.at = "unlocked"
    BY <2>2 DEF TypeOK
  <2>5. LabelInv'
    BY <1>1, <2>1, <2>2, <2>4 DEF LabelInv, HasLabels
  <2> QED
    BY <1>1, <2>3, <2>5, QueueSame
<1>5. CASE OpenSlotRelock
  <2>1. received' = received /\ listener' = Quiet /\ context' = context
    BY <1>5 DEF OpenSlotRelock
  <2>2. TypeOK'
    BY <1>1, <2>1 DEF TypeOK, Quiet
  <2>3. LabelInv'
    BY <1>1, <2>1 DEF LabelInv, HasLabels, Quiet
  <2> QED
    BY <1>1, <2>2, <2>3, QueueSame
<1> QED
  BY <1>2, <1>3, <1>4, <1>5 DEF Listener

LEMMA DoorStays == ASSUME IInv, Door PROVE IInv'
<1> USE DEF IInv
<1>1. CASE DoorOpens \/ DoorCloses \/ ClosingSeen
  <2>1. UNCHANGED <<context, listener, received, photo, images, metas, worker, accepted, over, crashes>>
    BY <1>1 DEF DoorOpens, DoorCloses, ClosingSeen
  <2>2. door' \in [open: BOOLEAN, for: Openings \cup {None}]
    <3>1. CASE DoorOpens
      <4>1. listener.opening \in Openings \cup {None}
        BY DEF TypeOK
      <4> QED
        BY <3>1, <4>1 DEF DoorOpens
    <3>2. CASE DoorCloses
      BY <3>2 DEF DoorCloses, TypeOK
    <3>3. CASE ClosingSeen
      BY <3>3 DEF ClosingSeen, TypeOK
    <3> QED
      BY <1>1, <3>1, <3>2, <3>3
  <2>3. sensor' \in {"idle", "released", "active"} /\ (sensor' = "active" => context.active \/ sensor = "active")
    BY <1>1 DEF TypeOK, DoorOpens, DoorCloses, ClosingSeen
  <2>4. TypeOK'
    BY <2>1, <2>2, <2>3 DEF TypeOK
  <2>5. LabelInv'
    BY <2>1, <2>3 DEF LabelInv, HasLabels
  <2> QED
    BY <2>1, <2>4, <2>5, QueueSame
<1>2. ASSUME NEW ph \in Photos, SessionFrozen(ph) PROVE IInv'
  <2> DEFINE r == [photo[ph] EXCEPT !.at = "capturing", !.shows = door.for]
  <2>1. /\ sensor = "active" /\ photo[ph].at = "none" /\ sensor' = "idle"
        /\ photo' = [photo EXCEPT ![ph] = r]
        /\ UNCHANGED <<listener, received, door, images, metas, worker, accepted, over, crashes>>
    BY <1>2 DEF SessionFrozen
  <2>2. context' \in Contexts /\ context'.loan = context.loan /\ context'.type = context.type
        /\ ~context'.active
    BY <1>2, ContextSet DEF SessionFrozen
  <2>3. r \in PhotoRows /\ r.at = "capturing"
    BY PhotoFields DEF TypeOK, PhotoRows, Steps, Busy
  <2> HIDE DEF r
  <2>4. photo' \in [Photos -> PhotoRows] /\ photo'[ph].at = "capturing"
        /\ \A q \in Photos \ {ph} : photo'[q] = photo[q]
    BY <2>1, <2>3, RowBecomes DEF Becomes
  <2>5. TypeOK'
    BY <2>1, <2>2, <2>4 DEF TypeOK, Contexts, PhotoRows, Steps
  <2>6. LabelInv'
    BY <2>1, <2>2, <2>4 DEF LabelInv, HasLabels, Labelled
  <2>7. FileInv'
    BY <2>1, <2>4 DEF FileInv, TypeOK
  <2>8. WorkerInv' /\ QueuedUntilAccepted'
    BY <2>1, <2>4 DEF WorkerInv, QueuedUntilAccepted, Accepted
  <2> QED
    BY <2>5, <2>6, <2>7, <2>8
<1> QED
  BY <1>1, <1>2 DEF Door

-----------------------------------------------------------------------------
(* The thread of a photo                                                   *)

LEMMA LabelStays ==
    ASSUME IInv, NEW ph \in Photos, LabelLoan(ph) \/ LabelType(ph)
    PROVE  IInv'
<1> USE DEF IInv
<1>1. UNCHANGED <<context, listener, received, door, sensor, images, metas, worker, accepted, over, crashes>>
  BY DEF LabelLoan, LabelType
<1>2. photo[ph].at \in {"labelling", "typing"} /\ HasLabels
  BY DEF LabelLoan, LabelType, LabelInv, Unlabelled
<1>3. \/ /\ photo'[ph].at = "typing" /\ photo'[ph].loan # None
      \/ /\ photo'[ph].at = "posting" /\ photo'[ph].loan # None /\ photo'[ph].type # None
  <2>1. CASE LabelLoan(ph)
    BY <1>2, <2>1 DEF LabelLoan, TypeOK, HasLabels
  <2>2. CASE LabelType(ph)
    BY <1>2, <2>2 DEF LabelType, LabelInv, TypeOK, HasLabels
  <2> QED
    BY <2>1, <2>2
<1>4. photo' \in [Photos -> PhotoRows] /\ \A q \in Photos \ {ph} : photo'[q] = photo[q]
  <2>1. PICK r \in PhotoRows : photo' = [photo EXCEPT ![ph] = r]
    <3>a. context.loan \in LoanIds \cup {None} /\ context.type \in Types \cup {None}
      BY DEF TypeOK
    <3>b. photo[ph] \in PhotoRows /\ "typing" \in Steps /\ "posting" \in Steps
      BY PhotoFields DEF Steps, Busy
    <3>1. [photo[ph] EXCEPT !.at = "typing", !.loan = context.loan] \in PhotoRows
      BY <3>a, <3>b DEF PhotoRows
    <3>2. [photo[ph] EXCEPT !.at = "posting", !.type = context.type] \in PhotoRows
      BY <3>a, <3>b DEF PhotoRows
    <3>3. CASE LabelLoan(ph)
      BY <3>1, <3>3 DEF LabelLoan
    <3>4. CASE LabelType(ph)
      BY <3>2, <3>4 DEF LabelType
    <3> QED
      BY <3>3, <3>4
  <2> QED
    BY <2>1, RowBecomes DEF Becomes
<1>5. TypeOK'
  BY <1>1, <1>4 DEF TypeOK, PhotoRows, Steps
<1>6. LabelInv'
  BY <1>1, <1>2, <1>3, <1>4 DEF LabelInv, HasLabels, Unlabelled, Labelled
<1>7. FileInv' /\ WorkerInv' /\ QueuedUntilAccepted'
  BY <1>1, <1>2, <1>3, <1>4 DEF FileInv, WorkerInv, QueuedUntilAccepted, Accepted, TypeOK
<1> QED
  BY <1>5, <1>6, <1>7

(* Of a step that leaves the labels: what it must show of the rest.        *)
LEMMA MoveStays ==
    ASSUME IInv, NEW ph \in Photos, NEW from, NEW to \in Steps, Moves(ph, from, to),
           UNCHANGED <<context, listener, received, door, sensor, worker, crashes>>,
           to \in Labelled => from \in Labelled,
           to \in Unlabelled => from \in Unlabelled /\ to # "typing",
           from \notin {"none", "queued"},
           images' \subseteq Photos, images \subseteq images',
           metas' \in [Photos -> {"absent", "partial", "whole"}],
           \A q \in Photos \ {ph} : metas'[q] = metas[q],
           to \in {"describing", "dumping"} => ph \in images',
           metas'[ph] = "whole" => to = "queued",
           metas'[ph] = "partial" => to \in {"dumping", "lost"},
           metas'[ph] # "absent" => ph \in images',
           UNCHANGED <<accepted, over>> \/ (Accepts(ph) /\ from \in Labelled),
           to = "uploaded" => Accepts(ph),
           to = "queued" => metas'[ph] = "whole"
    PROVE  IInv'
<1> USE DEF IInv
<1>1. photo[ph].at = from /\ photo'[ph].at = to
  BY DEF Moves
<1>2. accepted \subseteq accepted' /\ accepted' \subseteq [photo: Photos, loan: LoanIds, type: Types]
      /\ over' \subseteq LoanIds \X Types
      /\ \A q \in Photos : Accepted(q) => Accepted(q)'
  <2>1. from \in Labelled => photo[ph].loan \in LoanIds /\ photo[ph].type \in Types
    BY <1>1, PhotoFields DEF LabelInv
  <2> QED
    BY <1>1, <2>1 DEF Accepts, Accepted, Label, TypeOK
<1>3. to = "uploaded" => Accepted(ph)'
  BY AcceptsAccepted
<1>4. TypeOK'
  BY <1>2 DEF TypeOK, Moves, PhotoRows, Steps
<1>5. LabelInv'
  BY <1>1 DEF LabelInv, HasLabels, Moves, Unlabelled, Labelled
<1>6. FileInv'
  BY <1>1 DEF FileInv, Moves
<1>7. WorkerInv'
  BY <1>1, <1>2 DEF WorkerInv, Moves
<1>8. QueuedUntilAccepted'
  BY <1>1, <1>2, <1>3 DEF QueuedUntilAccepted, Moves
<1> QED
  BY <1>4, <1>5, <1>6, <1>7, <1>8

LEMMA ThreadStays == ASSUME IInv, NEW ph \in Photos, PhotoThread(ph) PROVE IInv'
<1> USE DEF IInv
<1>0. /\ {"labelling", "blurred", "uploaded", "storing", "describing", "dumping", "queued", "lost"} \subseteq Steps
      /\ {"posting", "storing", "describing", "dumping", "queued", "uploaded"} = Labelled
      /\ {"capturing", "labelling", "typing"} = Unlabelled
  BY DEF Steps, Busy, Labelled, Unlabelled
<1>a. images \subseteq Photos /\ metas \in [Photos -> {"absent", "partial", "whole"}]
  BY DEF TypeOK
<1>b. /\ metas[ph] = "whole" => photo[ph].at = "queued"
      /\ metas[ph] = "partial" => photo[ph].at \in {"dumping", "lost"}
      /\ metas[ph] # "absent" => ph \in images
      /\ photo[ph].at \in {"describing", "dumping"} => ph \in images
  BY DEF FileInv
<1>1. CASE Captured(ph)
  <2>0. UNCHANGED <<context, listener, received, door, sensor, images, metas, worker, accepted, over, crashes>>
    BY <1>1 DEF Captured
  <2>1. Moves(ph, "capturing", "labelling") \/ Moves(ph, "capturing", "blurred")
    BY <1>0, <1>1, GoesMoves DEF Captured
  <2>2. photo[ph].at = "capturing"
    BY <2>1 DEF Moves
  <2>c. metas' = metas /\ images' = images /\ UNCHANGED <<accepted, over>> /\ metas[ph] = "absent"
    BY <1>a, <1>b, <2>0, <2>2
  <2>3. CASE Moves(ph, "capturing", "labelling")
    BY <1>0, <1>a, <2>0, <2>c, <2>3, MoveStays
  <2>4. CASE Moves(ph, "capturing", "blurred")
    BY <1>0, <1>a, <2>0, <2>c, <2>4, MoveStays
  <2> QED
    BY <2>1, <2>3, <2>4
<1>2. CASE Uploaded(ph)
  <2>1. Moves(ph, "posting", "uploaded")
    BY <1>0, <1>2, GoesMoves DEF Uploaded
  <2>2. photo[ph].at = "posting"
    BY <2>1 DEF Moves
  <2> QED
    BY <1>0, <1>a, <1>b, <1>2, <2>1, <2>2, MoveStays DEF Uploaded
<1>3. CASE UploadFails(ph)
  <2>1. Moves(ph, "posting", "storing")
    BY <1>0, <1>3, GoesMoves DEF UploadFails
  <2>2. photo[ph].at = "posting"
    BY <2>1 DEF Moves
  <2> QED
    BY <1>0, <1>a, <1>b, <1>3, <2>1, <2>2, MoveStays DEF UploadFails, AcceptsOrNot
<1>4. CASE StoreImage(ph)
  <2>1. Moves(ph, "storing", "describing")
    BY <1>0, <1>4, GoesMoves DEF StoreImage
  <2>2. photo[ph].at = "storing"
    BY <2>1 DEF Moves
  <2> QED
    BY <1>0, <1>a, <1>b, <1>4, <2>1, <2>2, MoveStays DEF StoreImage
<1>5. CASE CreateMeta(ph)
  <2>1. Moves(ph, "describing", "dumping")
    BY <1>0, <1>5, GoesMoves DEF CreateMeta
  <2>2. photo[ph].at = "describing"
    BY <2>1 DEF Moves
  <2>3. metas'[ph] = "partial" /\ \A q \in Photos \ {ph} : metas'[q] = metas[q]
    BY <1>a, <1>5 DEF CreateMeta
  <2> QED
    BY <1>0, <1>a, <1>b, <1>5, <2>1, <2>2, <2>3, MoveStays DEF CreateMeta
<1>6. CASE StoreFails(ph)
  <2>1. PICK step \in {"storing", "describing", "dumping"} : Moves(ph, step, "lost")
    BY <1>0, <1>6, GoesMoves DEF StoreFails
  <2>2. photo[ph].at = step
    BY <2>1 DEF Moves
  <2> QED
    BY <1>0, <1>a, <1>b, <1>6, <2>1, <2>2, MoveStays DEF StoreFails
<1>7. CASE DumpMeta(ph)
  <2>1. Moves(ph, "dumping", "queued")
    BY <1>0, <1>7, GoesMoves DEF DumpMeta
  <2>2. photo[ph].at = "dumping"
    BY <2>1 DEF Moves
  <2>3. metas'[ph] = "whole" /\ \A q \in Photos \ {ph} : metas'[q] = metas[q]
    BY <1>a, <1>7 DEF DumpMeta
  <2> QED
    BY <1>0, <1>a, <1>b, <1>7, <2>1, <2>2, <2>3, MoveStays DEF DumpMeta
<1> QED
  BY <1>1, <1>2, <1>3, <1>4, <1>5, <1>6, <1>7, LabelStays DEF PhotoThread

-----------------------------------------------------------------------------
(* The queue worker                                                        *)

LEMMA NextEntryType ==
    ASSUME NEW w, w.left \subseteq Photos
    PROVE  /\ NextEntry(w) \in [at: {"sleeping", "picking"}, photo: {None}, left: SUBSET Photos]
BY DEF NextEntry, Resting

LEMMA WorkerStays == ASSUME IInv, QueueWorker PROVE IInv'
<1> USE DEF IInv
<1>1. UNCHANGED <<context, listener, received, door, sensor, photo, crashes>>
  BY DEF QueueWorker, WorkerWakes, WorkerPicks, WorkerUploads, WorkerFails, WorkerRemovesMeta,
     WorkerRemovesImage
<1>2. LabelInv'
  BY <1>1 DEF LabelInv, HasLabels
<1>3. worker.left \subseteq Photos /\ Listed \subseteq Photos
  BY DEF TypeOK, Listed
<1> DEFINE Idling == worker'.at \in {"sleeping", "picking"}
           Workings == [at: {"sleeping", "picking", "posting", "removing", "unlinking"},
                        photo: Photos \cup {None}, left: SUBSET Photos]
<1>4. CASE WorkerWakes
  <2>1. worker' \in Workings /\ Idling /\ UNCHANGED <<images, metas, accepted, over>>
    BY <1>3, <1>4 DEF WorkerWakes
  <2> QED
    BY <1>1, <1>2, <2>1 DEF TypeOK, FileInv, WorkerInv, QueuedUntilAccepted, Accepted
<1>5. ASSUME NEW ph \in Photos, WorkerPicks(ph) PROVE IInv'
  <2> DEFINE chosen == [at |-> "posting", photo |-> ph, left |-> worker.left \ {ph}]
  <2>1. chosen.left \subseteq Photos /\ chosen \in Workings /\ chosen.at = "posting" /\ chosen.photo = ph
    BY <1>3
  <2>2. NextEntry(chosen) \in Workings /\ NextEntry(chosen).at \in {"sleeping", "picking"}
    BY <2>1, NextEntryType
  <2>3. metas' = metas /\ UNCHANGED <<images, accepted, over>>
    <3>1. ph \notin images => metas[ph] = "absent"
      BY DEF FileInv
    <3> QED
      BY <1>5, <3>1 DEF WorkerPicks, TypeOK
  <2>4. \/ worker' = NextEntry(chosen)
        \/ worker' = chosen /\ metas[ph] = "whole"
    BY <1>5 DEF WorkerPicks, Unreadable
  <2> HIDE DEF chosen
  <2>5. worker' \in Workings
    BY <2>1, <2>2, <2>4
  <2>6. TypeOK'
    BY <1>1, <2>3, <2>5 DEF TypeOK
  <2>7. FileInv' /\ QueuedUntilAccepted'
    BY <1>1, <2>3 DEF FileInv, QueuedUntilAccepted, Accepted
  <2>8. Idling \/ (worker'.at = "posting" /\ worker'.photo = ph /\ metas[ph] = "whole")
    BY <2>1, <2>2, <2>4
  <2>9. WorkerInv'
    BY <1>1, <2>3, <2>8 DEF WorkerInv, FileInv
  <2> QED
    BY <1>2, <2>6, <2>7, <2>9
<1>6. ASSUME NEW ph \in Photos, WorkerUploads(ph) \/ WorkerFails(ph) PROVE IInv'
  <2>1. worker.at = "posting" /\ worker.photo = ph /\ UNCHANGED <<images, metas>>
    BY <1>6 DEF WorkerUploads, WorkerFails
  <2>2. photo[ph].at = "queued" /\ metas[ph] = "whole"
    BY <2>1 DEF WorkerInv
  <2>3. photo[ph].loan \in LoanIds /\ photo[ph].type \in Types
    BY <2>2, PhotoFields DEF LabelInv, Labelled
  <2>4. /\ accepted' \subseteq [photo: Photos, loan: LoanIds, type: Types]
        /\ over' \subseteq LoanIds \X Types
        /\ \A q \in Photos : Accepted(q) => Accepted(q)'
    BY <1>6, <2>3 DEF WorkerUploads, WorkerFails, AcceptsOrNot, Accepts, Accepted, Label, TypeOK
  <2>5. \/ /\ worker' = [worker EXCEPT !.at = "removing"] /\ Accepted(ph)'
        \/ worker' = Resting
    BY <1>6, AcceptsAccepted DEF WorkerUploads, WorkerFails
  <2>6. worker' \in Workings
    BY <2>5 DEF Resting, TypeOK
  <2>7. TypeOK' /\ FileInv' /\ QueuedUntilAccepted'
    BY <1>1, <2>1, <2>4, <2>6 DEF TypeOK, FileInv, QueuedUntilAccepted
  <2>8. WorkerInv'
    BY <1>1, <2>1, <2>2, <2>5 DEF WorkerInv, Resting, TypeOK
  <2> QED
    BY <1>2, <2>7, <2>8
<1>7. CASE WorkerRemovesMeta
  <2> DEFINE ph == worker.photo
  <2>1. worker.at = "removing" /\ ph \in Photos /\ photo[ph].at = "queued" /\ Accepted(ph)
    BY <1>7 DEF WorkerRemovesMeta, WorkerInv
  <2>2. /\ metas'[ph] = "absent" /\ \A q \in Photos \ {ph} : metas'[q] = metas[q]
        /\ metas' \in [Photos -> {"absent", "partial", "whole"}]
        /\ worker' = [worker EXCEPT !.at = "unlinking"] /\ UNCHANGED <<images, accepted, over>>
    BY <1>7, <2>1 DEF WorkerRemovesMeta, TypeOK
  <2>3. worker' \in Workings /\ worker'.photo = ph /\ worker'.at = "unlinking"
    BY <2>2 DEF TypeOK
  <2>4. TypeOK'
    BY <1>1, <2>2, <2>3 DEF TypeOK
  <2>5. FileInv' /\ WorkerInv' /\ QueuedUntilAccepted'
    BY <1>1, <2>1, <2>2, <2>3 DEF FileInv, WorkerInv, QueuedUntilAccepted, Accepted
  <2> QED
    BY <1>2, <2>4, <2>5
<1>8. CASE WorkerRemovesImage
  <2> DEFINE ph == worker.photo
  <2>1. /\ worker.at = "unlinking" /\ ph \in Photos /\ photo[ph].at = "queued"
        /\ metas[ph] = "absent"
    BY <1>8 DEF WorkerRemovesImage, WorkerInv
  <2>2. images' = images \ {ph} /\ worker' = NextEntry(worker) /\ UNCHANGED <<metas, accepted, over>>
    BY <1>8 DEF WorkerRemovesImage
  <2>3. worker' \in Workings /\ Idling
    BY <1>3, <2>2, NextEntryType
  <2>4. TypeOK'
    BY <1>1, <2>2, <2>3 DEF TypeOK
  <2>5. FileInv' /\ WorkerInv' /\ QueuedUntilAccepted'
    BY <1>1, <2>1, <2>2, <2>3 DEF FileInv, WorkerInv, QueuedUntilAccepted, Accepted
  <2> QED
    BY <1>2, <2>4, <2>5
<1> QED
  BY <1>4, <1>5, <1>6, <1>7, <1>8 DEF QueueWorker

LEMMA MovedOnStays == ASSUME IInv, NEW ph \in Photos, LoanMovesOn(ph) PROVE IInv'
<1> USE DEF IInv
<1>1. UNCHANGED <<context, listener, received, door, sensor, photo, images, metas, worker, accepted, crashes>>
  BY DEF LoanMovesOn
<1>2. photo[ph].loan \in LoanIds /\ photo[ph].type \in Types
  BY PhotoFields DEF LoanMovesOn, LabelInv, Labelled
<1>3. TypeOK'
  BY <1>1, <1>2 DEF LoanMovesOn, Label, TypeOK
<1>4. LabelInv'
  BY <1>1 DEF LabelInv, HasLabels
<1> QED
  BY <1>1, <1>3, <1>4, QueueSame

LEMMA CrashStays == ASSUME IInv, Crash PROVE IInv'
<1> USE DEF IInv
<1>1. /\ context' = NoContext /\ listener' = Quiet /\ sensor' = "idle" /\ worker' = Resting
      /\ crashes < MaxCrashes /\ crashes' = crashes + 1
      /\ UNCHANGED <<received, door, images, metas, accepted, over>>
  BY DEF Crash
<1>2. ASSUME NEW ph \in Photos
      PROVE  /\ photo'[ph] \in PhotoRows
             /\ photo'[ph].loan = photo[ph].loan /\ photo'[ph].type = photo[ph].type
             /\ photo'[ph].at = IF photo[ph].at \in Busy THEN "lost" ELSE photo[ph].at
  <2>1. [photo[ph] EXCEPT !.at = "lost"] \in PhotoRows
    BY PhotoFields DEF PhotoRows, Steps
  <2> QED
    BY <2>1, PhotoFields DEF Crash, PhotoRows
<1>3. photo' \in [Photos -> PhotoRows]
  BY <1>2 DEF Crash
<1>4. TypeOK'
  BY <1>1, <1>3, BoxConstants DEF TypeOK, PhotoRows, Steps, NoContext, Quiet, Resting
<1>5. LabelInv'
  BY <1>1, <1>2, PhotoFields DEF LabelInv, NoContext, Quiet, Unlabelled, Labelled, Busy
<1>6. FileInv'
  BY <1>1, <1>2 DEF FileInv, Busy
<1>7. WorkerInv' /\ QueuedUntilAccepted'
  BY <1>1, <1>2 DEF WorkerInv, QueuedUntilAccepted, Accepted, Resting, Busy
<1> QED
  BY <1>4, <1>5, <1>6, <1>7

-----------------------------------------------------------------------------
LEMMA InitInv == Init => IInv
<1> SUFFICES ASSUME Init PROVE IInv
  OBVIOUS
<1>1. TypeOK
  BY BoxConstants DEF Init, TypeOK, NoContext, Quiet, Resting
<1>2. LabelInv
  BY DEF Init, LabelInv, NoContext, Quiet, Unlabelled, Labelled
<1>3. FileInv /\ WorkerInv /\ QueuedUntilAccepted
  BY DEF Init, FileInv, WorkerInv, QueuedUntilAccepted, Resting
<1> QED
  BY <1>1, <1>2, <1>3 DEF IInv

LEMMA IInvStays == IInv /\ [Next]_vars => IInv'
<1> SUFFICES ASSUME IInv, [Next]_vars PROVE IInv'
  OBVIOUS
<1>1. CASE Next
  BY <1>1, ListenerStays, DoorStays, ThreadStays, WorkerStays, MovedOnStays, CrashStays DEF Next
<1>2. CASE UNCHANGED vars
  <2>1. TypeOK' /\ LabelInv'
    BY <1>2 DEF vars, IInv, TypeOK, LabelInv, HasLabels
  <2> QED
    BY <1>2, <2>1, QueueSame DEF vars, IInv
<1> QED
  BY <1>1, <1>2

LEMMA IInvHolds == Spec => []IInv
BY InitInv, IInvStays, PTL DEF Spec

(* The threads' variables keep their types; of what the backend is sent,   *)
(* this says that no photo ever goes out without both of its labels.       *)
THEOREM TypeCorrect == Spec => []TypeOK
BY IInvHolds, PTL DEF IInv

(* At whatever step the service dies, no .json is left without its .jpg.   *)
THEOREM NoOrphans == Spec => []EntryHasImage
<1>1. IInv => EntryHasImage
  BY DEF IInv, FileInv, EntryHasImage
<1> QED
  BY <1>1, IInvHolds, PTL

(* A photo its thread or the worker is done with has been accepted, or is  *)
(* whole in the queue.                                                     *)
THEOREM QueuedNotLost == Spec => []QueuedUntilAccepted
BY IInvHolds, PTL DEF IInv

=============================================================================
