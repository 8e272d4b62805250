----------------------------- MODULE VisionBox -----------------------------
(***************************************************************************)
(* vision-box/vision_box.py: the client on the Raspberry Pi of a kiosk.    *)
(* The websocket thread obeys open_slot, the sensor's callback sees the    *)
(* door close, a thread per closing takes a photo and uploads it, and the  *)
(* queue worker uploads again what did not get through.  They share        *)
(* transaction_context, without a lock, and the queue directory.           *)
(*                                                                         *)
(* Threads switch anywhere: each use of transaction_context and each file  *)
(* operation is a step.  systemd restarts the service after a crash, which *)
(* loses the memory and keeps the directory.  The network and the backend  *)
(* are the environment: commands may never come, an upload may be accepted *)
(* although its answer is lost or comes after the ten seconds of patience. *)
(***************************************************************************)
EXTENDS Naturals, FiniteSets

CONSTANTS
    Openings,   \* open_slot commands, each received at most once
    Photos,     \* photos, each taken at most once
    LoanOf,     \* Openings -> loan_id
    TypeOf,     \* Openings -> evaluation_type
    MaxCrashes, \* bound on the crashes of the service
    None        \* Python's None

LoanIds == {LoanOf[o] : o \in Openings}
Types == {TypeOf[o] : o \in Openings}

ASSUME BoxConstants ==
    /\ DOMAIN LoanOf = Openings
    /\ DOMAIN TypeOf = Openings
    /\ MaxCrashes \in Nat
    /\ None \notin Openings \cup LoanIds \cup Types

VARIABLES
    context,  \* transaction_context
    listener, \* the websocket thread: its step, and the command it obeys
    received, \* the commands it was sent so far
    door,     \* the slot's door, and the command it was last opened for
    sensor,   \* the sensor's callback
    photo,    \* per photo: its thread's step, what it shows, and its label
    images,   \* the .jpg files of the queue directory
    metas,    \* the .json files: absent, being written, or whole
    worker,   \* the queue worker: its step, its photo, and the files left
    accepted, \* photos the backend has accepted, each under its label
    over,     \* labels <<loan, type>> the backend refuses from now on
    crashes

vars == <<context, listener, received, door, sensor, photo, images, metas,
          worker, accepted, over, crashes>>

NoContext == [loan |-> None, type |-> None, active |-> FALSE]
Quiet == [at |-> "idle", opening |-> None]
Resting == [at |-> "sleeping", photo |-> None, left |-> {}]

(* Where the thread of a photo that has one is.                            *)
Busy == {"capturing", "labelling", "typing", "posting", "storing", "describing", "dumping"}

TypeOK ==
    /\ context \in [loan: LoanIds \cup {None}, type: Types \cup {None}, active: BOOLEAN]
    /\ listener \in [at: {"idle", "type", "unlock", "unlocked"}, opening: Openings \cup {None}]
    /\ received \subseteq Openings
    /\ door \in [open: BOOLEAN, for: Openings \cup {None}]
    /\ sensor \in {"idle", "released", "active"}
    /\ photo \in [Photos -> [at: Busy \cup {"none", "uploaded", "queued", "blurred", "lost"},
                             shows: Openings \cup {None},
                             loan: LoanIds \cup {None}, type: Types \cup {None}]]
    /\ images \subseteq Photos
    /\ metas \in [Photos -> {"absent", "partial", "whole"}]
    /\ worker \in [at: {"sleeping", "picking", "posting", "removing", "unlinking"},
                   photo: Photos \cup {None}, left: SUBSET Photos]
    /\ accepted \subseteq [photo: Photos, loan: LoanIds, type: Types]
    /\ over \subseteq LoanIds \X Types
    /\ crashes \in 0..MaxCrashes

Init ==
    /\ context = NoContext
    /\ listener = Quiet
    /\ received = {}
    /\ door = [open |-> FALSE, for |-> None]
    /\ sensor = "idle"
    /\ photo = [ph \in Photos |-> [at |-> "none", shows |-> None, loan |-> None, type |-> None]]
    /\ images = {}
    /\ metas = [ph \in Photos |-> "absent"]
    /\ worker = Resting
    /\ accepted = {}
    /\ over = {}
    /\ crashes = 0

-----------------------------------------------------------------------------
(* on_message: open_slot                                                   *)

(* Mutant: the session is active before its labels are known.              *)
ActiveFirst(o) ==
    /\ listener.at = "idle"
    /\ o \notin received
    /\ received' = received \cup {o}
    /\ context' = [context EXCEPT !.loan = LoanOf[o], !.active = TRUE]
    /\ listener' = [at |-> "type", opening |-> o]
    /\ UNCHANGED <<door, sensor, photo, images, metas, worker, accepted, over, crashes>>

OpenSlotLoan(o) ==
    /\ listener.at = "idle"
    /\ o \notin received
    /\ received' = received \cup {o}
    /\ context' = [context EXCEPT !.loan = LoanOf[o]]
    /\ listener' = [at |-> "type", opening |-> o]
    /\ UNCHANGED <<door, sensor, photo, images, metas, worker, accepted, over, crashes>>

OpenSlotType ==
    /\ listener.at = "type"
    /\ context' = [context EXCEPT !.type = TypeOf[listener.opening]]
    /\ listener' = [listener EXCEPT !.at = "unlock"]
    /\ UNCHANGED <<received, door, sensor, photo, images, metas, worker, accepted, over, crashes>>

(* The session becomes active and the lock is pulled for 1.5 seconds.      *)
OpenSlotUnlock ==
    /\ listener.at = "unlock"
    /\ context' = [context EXCEPT !.active = TRUE]
    /\ listener' = [listener EXCEPT !.at = "unlocked"]
    /\ UNCHANGED <<received, door, sensor, photo, images, metas, worker, accepted, over, crashes>>

OpenSlotRelock ==
    /\ listener.at = "unlocked"
    /\ listener' = Quiet
    /\ UNCHANGED <<context, received, door, sensor, photo, images, metas, worker, accepted, over, crashes>>

-----------------------------------------------------------------------------
(* The door, and on_physical_door_closed.  gpiozero runs one callback at a *)
(* time; the door is not pulled open again before it has run.              *)

DoorOpens ==
    /\ listener.at = "unlocked"
    /\ ~door.open
    /\ sensor = "idle"
    /\ door' = [open |-> TRUE, for |-> listener.opening]
    /\ UNCHANGED <<context, listener, received, sensor, photo, images, metas, worker, accepted, over, crashes>>

DoorCloses ==
    /\ door.open
    /\ door' = [door EXCEPT !.open = FALSE]
    /\ sensor' = "released"
    /\ UNCHANGED <<context, listener, received, photo, images, metas, worker, accepted, over, crashes>>

ClosingSeen ==
    /\ sensor = "released"
    /\ sensor' = IF context.active THEN "active" ELSE "idle"
    /\ UNCHANGED <<context, listener, received, door, photo, images, metas, worker, accepted, over, crashes>>

(* "Freezing session state": the flag is cleared, the labels are not copied.*)
SessionFrozen(ph) ==
    /\ sensor = "active"
    /\ photo[ph].at = "none"
    /\ sensor' = "idle"
    /\ context' = [context EXCEPT !.active = FALSE]
    /\ photo' = [photo EXCEPT ![ph].at = "capturing", ![ph].shows = door.for]
    /\ UNCHANGED <<listener, received, door, images, metas, worker, accepted, over, crashes>>

-----------------------------------------------------------------------------
(* process_transaction: edge_validation_loop, transmit_payload_to_backend, *)
(* enqueue_payload.                                                        *)

Goes(ph, from, to) == photo[ph].at = from /\ photo' = [photo EXCEPT ![ph].at = to]

Captured(ph) ==
    /\ Goes(ph, "capturing", "labelling") \/ Goes(ph, "capturing", "blurred")
    /\ UNCHANGED <<context, listener, received, door, sensor, images, metas, worker, accepted, over, crashes>>

LabelLoan(ph) ==
    /\ photo[ph].at = "labelling"
    /\ photo' = [photo EXCEPT ![ph].at = "typing", ![ph].loan = context.loan]
    /\ UNCHANGED <<context, listener, received, door, sensor, images, metas, worker, accepted, over, crashes>>

LabelType(ph) ==
    /\ photo[ph].at = "typing"
    /\ photo' = [photo EXCEPT ![ph].at = "posting", ![ph].type = context.type]
    /\ UNCHANGED <<context, listener, received, door, sensor, images, metas, worker, accepted, over, crashes>>

Label(ph) == <<photo[ph].loan, photo[ph].type>>

(* The backend wants one photo per label: accepting it moves the loan out  *)
(* of RESERVED or RETURNING, and any later one is answered with 409.       *)
Accepts(ph) ==
    /\ Label(ph) \notin over
    /\ accepted' = accepted \cup {[photo |-> ph, loan |-> photo[ph].loan, type |-> photo[ph].type]}
    /\ over' = over \cup {Label(ph)}

(* Rejected, unreachable, or accepted without the box getting to know.     *)
AcceptsOrNot(ph) == UNCHANGED <<accepted, over>> \/ Accepts(ph)

Uploaded(ph) ==
    /\ Goes(ph, "posting", "uploaded")
    /\ Accepts(ph)
    /\ UNCHANGED <<context, listener, received, door, sensor, images, metas, worker, crashes>>

UploadFails(ph) ==
    /\ Goes(ph, "posting", "storing")
    /\ AcceptsOrNot(ph)
    /\ UNCHANGED <<context, listener, received, door, sensor, images, metas, worker, crashes>>

StoreImage(ph) ==
    /\ Goes(ph, "storing", "describing")
    /\ images' = images \cup {ph}
    /\ UNCHANGED <<context, listener, received, door, sensor, metas, worker, accepted, over, crashes>>

(* open(json_path, "w") leaves an empty file until the dump is done.       *)
CreateMeta(ph) ==
    /\ Goes(ph, "describing", "dumping")
    /\ metas' = [metas EXCEPT ![ph] = "partial"]
    /\ UNCHANGED <<context, listener, received, door, sensor, images, worker, accepted, over, crashes>>

(* The disk is full at any of the three steps: a photo is lost.            *)
StoreFails(ph) ==
    /\ \E step \in {"storing", "describing", "dumping"} : Goes(ph, step, "lost")
    /\ UNCHANGED <<context, listener, received, door, sensor, images, metas, worker, accepted, over, crashes>>

DumpMeta(ph) ==
    /\ Goes(ph, "dumping", "queued")
    /\ metas' = [metas EXCEPT ![ph] = "whole"]
    /\ UNCHANGED <<context, listener, received, door, sensor, images, worker, accepted, over, crashes>>

-----------------------------------------------------------------------------
(* process_queue_worker                                                    *)

Listed == {ph \in Photos : metas[ph] # "absent"}

WorkerWakes ==
    /\ worker.at = "sleeping"
    /\ Listed # {}
    /\ worker' = [at |-> "picking", photo |-> None, left |-> Listed]
    /\ UNCHANGED <<context, listener, received, door, sensor, photo, images, metas, accepted, over, crashes>>

(* Mutant: an entry that cannot be read ends the round.                    *)
RoundEnds(w) == Resting

(* The next entry of the round, or, with none left, fifteen seconds' sleep.*)
NextEntry(w) ==
    IF w.left = {} THEN Resting ELSE [at |-> "picking", photo |-> None, left |-> w.left]

Unreadable(w) == NextEntry(w)

(* An entry without its image is removed, an unreadable one passed over.   *)
WorkerPicks(ph) ==
    LET chosen == [at |-> "posting", photo |-> ph, left |-> worker.left \ {ph}] IN
    /\ worker.at = "picking"
    /\ ph \in worker.left
    /\ IF ph \notin images
       THEN metas' = [metas EXCEPT ![ph] = "absent"] /\ worker' = NextEntry(chosen)
       ELSE /\ UNCHANGED metas
            /\ worker' = IF metas[ph] = "whole" THEN chosen ELSE Unreadable(chosen)
    /\ UNCHANGED <<context, listener, received, door, sensor, photo, images, accepted, over, crashes>>

(* Mutant: whatever the backend answers, the entry is done with.           *)
WorkerIgnoresAnswer(ph) ==
    /\ worker.at = "posting"
    /\ worker.photo = ph
    /\ AcceptsOrNot(ph)
    /\ worker' = [worker EXCEPT !.at = "removing"]
    /\ UNCHANGED <<context, listener, received, door, sensor, photo, images, metas, crashes>>

WorkerUploads(ph) ==
    /\ worker.at = "posting"
    /\ worker.photo = ph
    /\ Accepts(ph)
    /\ worker' = [worker EXCEPT !.at = "removing"]
    /\ UNCHANGED <<context, listener, received, door, sensor, photo, images, metas, crashes>>

(* Any failure ends the round: the entries left wait for the next one.     *)
WorkerFails(ph) ==
    /\ worker.at = "posting"
    /\ worker.photo = ph
    /\ AcceptsOrNot(ph)
    /\ worker' = Resting
    /\ UNCHANGED <<context, listener, received, door, sensor, photo, images, metas, crashes>>

(* Mutant: the image is the first of the two files to go.                  *)
RemoveImageFirst ==
    /\ worker.at = "removing"
    /\ images' = images \ {worker.photo}
    /\ worker' = [worker EXCEPT !.at = "unlinking"]
    /\ UNCHANGED <<context, listener, received, door, sensor, photo, metas, accepted, over, crashes>>

WorkerRemovesMeta ==
    /\ worker.at = "removing"
    /\ metas' = [metas EXCEPT ![worker.photo] = "absent"]
    /\ worker' = [worker EXCEPT !.at = "unlinking"]
    /\ UNCHANGED <<context, listener, received, door, sensor, photo, images, accepted, over, crashes>>

WorkerRemovesImage ==
    /\ worker.at = "unlinking"
    /\ images' = images \ {worker.photo}
    /\ worker' = NextEntry(worker)
    /\ UNCHANGED <<context, listener, received, door, sensor, photo, metas, accepted, over, crashes>>

-----------------------------------------------------------------------------
(* Without a photo the loan leaves the status the label asks for, by the   *)
(* timeout worker, or its asset is deleted: refused from now on.           *)
LoanMovesOn(ph) ==
    /\ photo[ph].at \in {"posting", "queued"}
    /\ Label(ph) \notin over
    /\ over' = over \cup {Label(ph)}
    /\ UNCHANGED <<context, listener, received, door, sensor, photo, images, metas, worker, accepted,
                   crashes>>

(* The service dies and is started again; the door stays as it is.         *)
Crash ==
    /\ crashes < MaxCrashes
    /\ crashes' = crashes + 1
    /\ context' = NoContext
    /\ listener' = Quiet
    /\ sensor' = "idle"
    /\ photo' = [ph \in Photos |-> IF photo[ph].at \in Busy
                                   THEN [photo[ph] EXCEPT !.at = "lost"] ELSE photo[ph]]
    /\ worker' = Resting
    /\ UNCHANGED <<received, door, images, metas, accepted, over>>

Listener ==
    \/ \E o \in Openings : OpenSlotLoan(o)
    \/ OpenSlotType
    \/ OpenSlotUnlock
    \/ OpenSlotRelock

Door ==
    \/ DoorOpens
    \/ DoorCloses
    \/ ClosingSeen
    \/ \E ph \in Photos : SessionFrozen(ph)

PhotoThread(ph) ==
    \/ Captured(ph)
    \/ LabelLoan(ph)
    \/ LabelType(ph)
    \/ Uploaded(ph)
    \/ UploadFails(ph)
    \/ StoreImage(ph)
    \/ CreateMeta(ph)
    \/ StoreFails(ph)
    \/ DumpMeta(ph)

QueueWorker ==
    \/ WorkerWakes
    \/ \E ph \in Photos : WorkerPicks(ph) \/ WorkerUploads(ph) \/ WorkerFails(ph)
    \/ WorkerRemovesMeta
    \/ WorkerRemovesImage

Next ==
    \/ Listener
    \/ Door
    \/ \E ph \in Photos : PhotoThread(ph)
    \/ QueueWorker
    \/ \E ph \in Photos : LoanMovesOn(ph)
    \/ Crash

Spec == Init /\ [][Next]_vars

(* A photo with the labels of one command: its loan waits for it until the *)
(* label is over.  A mix of two is not what either loan waits for.         *)
AsCommanded(ph) ==
    \E o \in Openings : photo[ph].loan = LoanOf[o] /\ photo[ph].type = TypeOf[o]

(* The worker's loop never ends, its requests time out, and the network is *)
(* up often enough for a photo that is tried again and again while its     *)
(* loan waits for it.                                                      *)
Fairness ==
    /\ WF_vars(QueueWorker)
    /\ \A ph \in Photos : SF_vars(AsCommanded(ph) /\ WorkerUploads(ph))

LiveSpec == Spec /\ Fairness

-----------------------------------------------------------------------------
(* Properties.                                                             *)

Accepted(ph) == \E a \in accepted : a.photo = ph

(* The two files of an entry are written and removed in an order that      *)
(* leaves no .json without its .jpg at a crash: the worker would delete    *)
(* the entry as an orphan, and nothing would be left to upload.            *)
EntryHasImage == \A ph \in Photos : metas[ph] # "absent" => ph \in images

(* A photo is given up by its thread and by the worker only when the       *)
(* backend has it: through failed uploads, restarts and retries a queued   *)
(* one is on disk, whole, until it has been accepted.                      *)
QueuedUntilAccepted ==
    \A ph \in Photos :
        /\ photo[ph].at = "uploaded" => Accepted(ph)
        /\ photo[ph].at = "queued" => Accepted(ph) \/ metas[ph] = "whole"

(* An entry the backend does not want, since its label is over or a mix of *)
(* two commands: 409 ends every round of the worker that reaches it.       *)
Refused(ph) ==
    /\ metas[ph] = "whole"
    /\ Label(ph) \in over \/ ~AsCommanded(ph)
    /\ ~(worker.at = "removing" /\ worker.photo = ph)

Blocked == \E ph \in Photos : Refused(ph)

(* Every entry is worked off in the end, whatever unreadable ones a crash  *)
(* left in the queue, or else the queue is blocked by one whose loan has   *)
(* moved on, or whose labels are mixed.  Nothing else blocks it.           *)
QueueDrains ==
    \A ph \in Photos : metas[ph] = "whole" ~> (metas[ph] = "absent" \/ Blocked)

-----------------------------------------------------------------------------
(* runtime_flow.mmd: "open_slot -> wait close -> capture -> upload".  The  *)
(* labels are read when the photo is uploaded, seconds after the door has  *)
(* closed, when the next open_slot may have overwritten them.              *)
PhotoNamesItsSession ==
    \A ph \in Photos :
        photo[ph].at = "posting" =>
            Label(ph) = <<LoanOf[photo[ph].shows], TypeOf[photo[ph].shows]>>

=============================================================================
