---------------------------- MODULE VisionModels ----------------------------
(***************************************************************************)
(* backend/vision/main.py: how the weights of the two models are replaced, *)
(* and what the service's processes serve while that happens.              *)
(*                                                                         *)
(* Gunicorn keeps a fixed set of worker processes over one models volume.  *)
(* Weights arrive by /update-model, a pull that a thread runs, or by       *)
(* /upload-model, on the event loop.  Each call on the file system is a    *)
(* step: processes and threads interleave there.  A file is an inode, so a *)
(* writer goes on writing to what a rename has moved elsewhere.            *)
(* A process reads weights at start-up only; it exports them to OpenVINO   *)
(* first when the export directory is missing.  A process may be killed at *)
(* any step (out of memory, gunicorn's timeout, a redeployment).           *)
(***************************************************************************)
EXTENDS Naturals, FiniteSets

CONSTANTS
    Workers,     \* gunicorn's worker processes
    Deployments, \* requests for new weights; each brings weights of its own
    Asked,       \* what they may ask for: functions to [way, kinds]
    Original,    \* the weights a volume may hold at first
    Torn,        \* the content of a file that is not written to its end
    Mixed,       \* the content of a file two writers wrote at once
    Broken,      \* a loaded model whose predictions raise
    MaxCrashes,  \* bound on the processes killed
    None         \* Python's None

Kinds == {"detection", "segmentation"}
Ways == {"pull", "upload"}

ASSUME ModelConstants ==
    /\ Asked \subseteq [Deployments -> [way: Ways, kinds: SUBSET Kinds]]
    /\ \A ask \in Asked, d \in Deployments :
           ask[d].way = "upload" => Cardinality(ask[d].kinds) <= 1
    /\ MaxCrashes \in Nat
    /\ None \notin {Original, Torn, Mixed, Broken} \cup Deployments
    /\ {Torn, Mixed, Broken} \cap ({Original} \cup Deployments) = {}
    /\ Original \notin Deployments
    /\ Torn # Mixed /\ Broken \notin {Torn, Mixed}

Weights == Deployments \cup {Original}
Contents == Weights \cup {Torn, Mixed}
Inodes == Weights

VARIABLES
    file,    \* per kind: the inode at <kind>.pt
    temp,    \* per kind: the inode at .tmp (pull) and at .upload.tmp (upload)
    content, \* per kind and inode
    backup,  \* per kind: what .backup holds
    export,  \* per kind: what the OpenVINO directory holds; Torn while incomplete
    request, \* per deployment
    worker,  \* per process: where its start-up is, what it serves
    calm,    \* per deployment: what was installed when it began, as long as
             \* nothing else has disturbed it, None otherwise
    crashes

vars == <<file, temp, content, backup, export, request, worker, calm, crashes>>

files == <<file, temp, content, backup, export>>

Running == {"backup", "copying", "fetch", "writing", "replace", "clear", "restore", "restoring"}
Down == [at |-> "down", kind |-> "detection", exporting |-> None,
         serves |-> [k \in Kinds |-> None], restart |-> FALSE]
Disturbed == [d \in Deployments |-> None]

RequestRows == [at: Running \cup {"none", "accepted", "failed", "gone"},
                way: Ways, worker: Workers \cup {None}, kinds: SUBSET Kinds,
                kind: Kinds, from: Inodes \cup {None}]
WorkerRows == [at: {"down", "boot", "exporting", "loading", "up"}, kind: Kinds,
               exporting: Weights \cup {None},
               serves: [Kinds -> Weights \cup {Broken, None}], restart: BOOLEAN]

TypeOK ==
    /\ file \in [Kinds -> Inodes \cup {None}]
    /\ temp \in [Kinds -> [Ways -> Inodes \cup {None}]]
    /\ content \in [Kinds -> [Inodes -> Contents]]
    /\ backup \in [Kinds -> Contents \cup {None}]
    /\ export \in [Kinds -> Contents \cup {None}]
    /\ request \in [Deployments -> RequestRows]
    /\ \A d \in Deployments : request[d].at \in {"copying", "writing", "restoring"} =>
           request[d].from # None
    /\ \A d \in Deployments : request[d].at \in {"copying", "restoring"} =>
           backup[request[d].kind] # None
    /\ \A k \in Kinds : backup[k] # None => file[k] # None
    /\ worker \in [Workers -> WorkerRows]
    /\ calm \in [Deployments -> [Kinds -> Contents \cup {None}] \cup {None}]
    /\ crashes \in 0..MaxCrashes

(* What a reader of <kind>.pt gets.                                        *)
Installed(k) == IF file[k] = None THEN None ELSE content[k][file[k]]

(* The kind a request works on comes first; detection before segmentation. *)
FirstOf(kinds) == IF "detection" \in kinds THEN "detection" ELSE "segmentation"

(* A volume that has been used: exported weights, or an empty one.         *)
Init ==
    /\ \E o \in {Original, None} :
           /\ file = [k \in Kinds |-> o]
           /\ export = [k \in Kinds |-> o]
           /\ worker = [w \in Workers |-> [Down EXCEPT !.at = "up", !.serves = [k \in Kinds |-> o]]]
    /\ temp = [k \in Kinds |-> [w \in Ways |-> None]]
    /\ content = [k \in Kinds |-> [i \in Inodes |-> IF i = Original THEN Original ELSE Torn]]
    /\ backup = [k \in Kinds |-> None]
    /\ \E ask \in Asked :
           request = [d \in Deployments |->
               [at |-> "none", way |-> ask[d].way, kinds |-> ask[d].kinds,
                worker |-> None, kind |-> "detection", from |-> None]]
    /\ calm = Disturbed
    /\ crashes = 0

-----------------------------------------------------------------------------
(* A request arrives                                                       *)

(* Bookkeeping: a deployment is calm if every process is up and no other   *)
(* is under way when it begins; each newcomer disturbs the others.         *)
Arrives(d, w, at) ==
    /\ request[d].at = "none"
    /\ worker[w].at = "up"
    /\ request' = [request EXCEPT ![d].at = at, ![d].worker = w,
                                  ![d].kind = FirstOf(request[d].kinds)]
    /\ calm' = IF /\ \A v \in Workers : worker[v].at = "up" /\ ~worker[v].restart
                  /\ \A e \in Deployments : request[e].at \notin Running
               THEN [Disturbed EXCEPT ![d] = [k \in Kinds |-> Installed(k)]]
               ELSE Disturbed
    /\ UNCHANGED <<files, worker, crashes>>

(* At least one URL.                                                       *)
UpdateModel(d, w) == request[d].way = "pull" /\ request[d].kinds # {} /\ Arrives(d, w, "backup")

UploadModel(d, w) == request[d].way = "upload" /\ request[d].kinds # {} /\ Arrives(d, w, "fetch")

(* The next step of d; its effects on files are the caller's.              *)
Goes(d, at) == request' = [request EXCEPT ![d].at = at, ![d].from = None]

(* d has answered: accepted, failed after a rollback, or gone otherwise.   *)
Ended(r, at) == [r EXCEPT !.at = at, !.from = None, !.worker = IF at = "accepted" THEN @ ELSE None]

Ends(d, at) == request' = [request EXCEPT ![d] = Ended(request[d], at)]

At(d, way, at) == request[d].way = way /\ request[d].at = at

KindOf(d) == request[d].kind

(* The URL of this kind has no host with a global address.  What a former  *)
(* kind of the same request installed stays, and no restart is scheduled.  *)
RefuseHost(d) ==
    /\ At(d, "pull", "backup")
    /\ Ends(d, "gone")
    /\ UNCHANGED <<files, worker, calm, crashes>>

-----------------------------------------------------------------------------
(* Backup: <kind>.pt is copied over .backup, which copy2 truncates first   *)

AfterBackup(d) == IF request[d].way = "pull" THEN "fetch" ELSE "replace"

NoBackup(d) ==
    /\ request[d].at = "backup"
    /\ file[KindOf(d)] = None
    /\ Goes(d, AfterBackup(d))
    /\ UNCHANGED <<files, worker, calm, crashes>>

BeginBackup(d) ==
    /\ request[d].at = "backup"
    /\ file[KindOf(d)] # None
    /\ backup' = [backup EXCEPT ![KindOf(d)] = Torn]
    /\ request' = [request EXCEPT ![d].at = "copying", ![d].from = file[KindOf(d)]]
    /\ UNCHANGED <<file, temp, content, export, worker, calm, crashes>>

EndBackup(d) ==
    LET k == KindOf(d)
        others == {e \in Deployments \ {d} : request[e].at = "copying" /\ KindOf(e) = k}
    IN  /\ request[d].at = "copying"
        /\ backup' = [backup EXCEPT ![k] = IF others = {} THEN content[k][request[d].from] ELSE Mixed]
        /\ Goes(d, AfterBackup(d))
        /\ UNCHANGED <<file, temp, content, export, worker, calm, crashes>>

(* A pull ignores an OSError of the copy, whatever it left in .backup; an  *)
(* upload ends with it.                                                    *)
BackupError(d) ==
    /\ \/ request[d].at = "backup" /\ file[KindOf(d)] # None
       \/ request[d].at = "copying"
    /\ calm' = [calm EXCEPT ![d] = None]
    /\ IF request[d].way = "pull"
       THEN Goes(d, "fetch") /\ UNCHANGED temp
       ELSE Ends(d, "gone") /\ temp' = [temp EXCEPT ![KindOf(d)]["upload"] = None]
    /\ UNCHANGED <<file, content, backup, export, worker, crashes>>

-----------------------------------------------------------------------------
(* Fetch: the new weights are written to the temporary file                *)

(* open(temp, "wb") truncates the file that is there, or makes a new one.  *)
BeginFetch(d) ==
    LET k == KindOf(d)
        way == request[d].way
        inode == IF temp[k][way] = None THEN d ELSE temp[k][way]
        others == {e \in Deployments : request[e].at = "writing" /\ KindOf(e) = k
                                       /\ request[e].from = inode}
    IN  /\ request[d].at = "fetch"
        /\ temp' = [temp EXCEPT ![k][way] = inode]
        /\ content' = [content EXCEPT ![k][inode] = IF others = {} THEN Torn ELSE Mixed]
        /\ request' = [request EXCEPT ![d].at = "writing", ![d].from = inode]
        /\ UNCHANGED <<file, backup, export, worker, calm, crashes>>

(* The stream ends.  A pull takes a connection closed early for the end of *)
(* the file: the bytes are counted against a maximum only.                 *)
EndFetch(d) ==
    LET k == KindOf(d)
        inode == request[d].from
    IN  /\ request[d].at = "writing"
        /\ \E c \in IF request[d].way = "pull" THEN {d, Torn} ELSE {d} :
               /\ content' = [content EXCEPT ![k][inode] = IF @ = Mixed THEN Mixed ELSE c]
               /\ calm' = IF c = Torn THEN [calm EXCEPT ![d] = None] ELSE calm
        /\ Goes(d, IF request[d].way = "pull" THEN "replace" ELSE "backup")
        /\ UNCHANGED <<file, temp, backup, export, worker, crashes>>

(* No connection, an error status, HTML, too many bytes, none, a full disk.*)
FetchError(d) ==
    /\ request[d].at \in {"fetch", "writing"}
    /\ IF request[d].way = "pull"
       THEN Goes(d, "restore") /\ UNCHANGED temp
       ELSE Ends(d, "gone") /\ temp' = [temp EXCEPT ![KindOf(d)]["upload"] = None]
    /\ UNCHANGED <<file, content, backup, export, worker, calm, crashes>>

-----------------------------------------------------------------------------
(* Install: the temporary file takes the name <kind>.pt, the export goes   *)

Replace(d) ==
    LET k == KindOf(d)
        way == request[d].way
    IN  /\ request[d].at = "replace"
        /\ temp[k][way] # None
        /\ file' = [file EXCEPT ![k] = temp[k][way]]
        /\ temp' = [temp EXCEPT ![k][way] = None]
        /\ Goes(d, "clear")
        /\ UNCHANGED <<content, backup, export, worker, calm, crashes>>

(* Another request has moved or removed the temporary file.                *)
ReplaceError(d) ==
    /\ request[d].at = "replace"
    /\ temp[KindOf(d)][request[d].way] = None
    /\ IF request[d].way = "pull" THEN Goes(d, "restore") ELSE Ends(d, "gone")
    /\ UNCHANGED <<files, worker, calm, crashes>>

(* Mutant: the restart is left to the next redeployment.                   *)
NoRestart(d) ==
    /\ IF KindOf(d) = "detection" /\ request[d].kinds # {"detection"}
       THEN request' = [request EXCEPT ![d].at = "backup", ![d].kind = "segmentation"]
       ELSE Ends(d, "accepted")
    /\ UNCHANGED worker

(* What follows once a kind is installed: the other kind of a pull, or the *)
(* restart of the process that ran the request, by a background task.      *)
Proceeds(d) ==
    IF KindOf(d) = "detection" /\ request[d].kinds # {"detection"}
    THEN /\ request' = [request EXCEPT ![d].at = "backup", ![d].kind = "segmentation"]
         /\ UNCHANGED worker
    ELSE /\ Ends(d, "accepted")
         /\ worker' = [worker EXCEPT ![request[d].worker].restart = TRUE]

(* Mutant: the export of the old weights stays.                            *)
KeepExport(d) ==
    /\ request[d].at = "clear"
    /\ Proceeds(d)
    /\ UNCHANGED <<files, calm, crashes>>

ClearExport(d) ==
    /\ request[d].at = "clear"
    /\ export' = [export EXCEPT ![KindOf(d)] = None]
    /\ Proceeds(d)
    /\ UNCHANGED <<file, temp, content, backup, calm, crashes>>

(* rmtree raises part of the way through, as when a process is exporting.  *)
ClearError(d) ==
    LET k == KindOf(d)
    IN  /\ request[d].at = "clear"
        /\ export[k] # None
        /\ export' = [export EXCEPT ![k] = Torn]
        /\ IF request[d].way = "pull" THEN Goes(d, "restore") ELSE Ends(d, "gone")
        /\ UNCHANGED <<file, temp, content, backup, worker, calm, crashes>>

-----------------------------------------------------------------------------
(* Rollback of a pull: .backup, if there is one, is copied over <kind>.pt; *)
(* in any case the temporary file goes                                     *)

NoRestore(d) ==
    /\ request[d].at = "restore"
    /\ backup[KindOf(d)] = None
    /\ Ends(d, "failed")
    /\ temp' = [temp EXCEPT ![KindOf(d)]["pull"] = None]
    /\ UNCHANGED <<file, content, backup, export, worker, calm, crashes>>

(* Mutant: the rollback is taken for unnecessary.                          *)
SkipRestore(d) ==
    /\ request[d].at = "restore"
    /\ backup[KindOf(d)] # None
    /\ Ends(d, "failed")
    /\ UNCHANGED <<files, worker, calm, crashes>>

(* Mutant: the bad file goes before the good one is copied back.           *)
RemoveThenRestore(d) ==
    LET k == KindOf(d)
    IN  /\ request[d].at = "restore"
        /\ backup[k] # None
        /\ file' = [file EXCEPT ![k] = None]
        /\ request' = [request EXCEPT ![d].at = "restoring", ![d].from = file[k]]
        /\ UNCHANGED <<temp, content, backup, export, worker, calm, crashes>>

BeginRestore(d) ==
    LET k == KindOf(d)
    IN  /\ request[d].at = "restore"
        /\ backup[k] # None
        /\ content' = [content EXCEPT ![k][file[k]] = Torn]
        /\ request' = [request EXCEPT ![d].at = "restoring", ![d].from = file[k]]
        /\ UNCHANGED <<file, temp, backup, export, worker, calm, crashes>>

EndRestore(d) ==
    LET k == KindOf(d)
    IN  /\ request[d].at = "restoring"
        /\ content' = [content EXCEPT ![k][request[d].from] = backup[k]]
        /\ temp' = [temp EXCEPT ![k]["pull"] = None]
        /\ Ends(d, "failed")
        /\ UNCHANGED <<file, backup, export, worker, calm, crashes>>

RestoreError(d) ==
    /\ request[d].at = "restoring"
    /\ temp' = [temp EXCEPT ![KindOf(d)]["pull"] = None]
    /\ Ends(d, "gone")
    /\ UNCHANGED <<file, content, backup, export, worker, calm, crashes>>

-----------------------------------------------------------------------------
(* Processes                                                               *)

(* The process is gone, with the requests it was running.                  *)
Dies(w) ==
    /\ worker' = [worker EXCEPT ![w] = Down]
    /\ request' = [d \in Deployments |->
           IF request[d].worker = w /\ request[d].at \in Running
           THEN Ended(request[d], "gone") ELSE request[d]]

(* restart_server: os._exit, two seconds after the answer.                 *)
Restart(w) ==
    /\ worker[w].at = "up"
    /\ worker[w].restart
    /\ Dies(w)
    /\ UNCHANGED <<files, calm, crashes>>

Crash(w) ==
    /\ crashes < MaxCrashes
    /\ worker[w].at # "down"
    /\ crashes' = crashes + 1
    /\ calm' = Disturbed
    /\ Dies(w)
    /\ UNCHANGED <<files>>

(* Gunicorn starts a process for the one that is gone.                     *)
Boot(w) ==
    /\ worker[w].at = "down"
    /\ worker' = [worker EXCEPT ![w].at = "boot"]
    /\ UNCHANGED <<files, request, calm, crashes>>

(* _load_model ends for this kind with m; segmentation follows detection.  *)
Serves(w, m) ==
    worker' = [worker EXCEPT ![w] =
        [@ EXCEPT !.serves[worker[w].kind] = m, !.exporting = None,
                  !.at = IF worker[w].kind = "detection" THEN "boot" ELSE "up",
                  !.kind = "segmentation"]]

(* Mutant: a process that finds no model exits instead of degrading.       *)
ExitWithoutModel(w) ==
    /\ worker[w].at = "boot"
    /\ export[worker[w].kind] = None
    /\ Installed(worker[w].kind) \in {None, Torn, Mixed}
    /\ worker' = [worker EXCEPT ![w] = Down]
    /\ UNCHANGED <<files, request, calm, crashes>>

(* Neither weights nor an export, or weights that YOLO cannot read.        *)
LoadNothing(w) ==
    LET k == worker[w].kind
    IN  /\ worker[w].at = "boot"
        /\ export[k] = None
        /\ Installed(k) \in {None, Torn, Mixed}
        /\ Serves(w, None)
        /\ UNCHANGED <<files, request, calm, crashes>>

FindExport(w) ==
    /\ worker[w].at = "boot"
    /\ export[worker[w].kind] # None
    /\ worker' = [worker EXCEPT ![w].at = "loading"]
    /\ UNCHANGED <<files, request, calm, crashes>>

(* The weights are in memory; what has been exported of them is on disk.   *)
BeginExport(w) ==
    LET k == worker[w].kind
    IN  /\ worker[w].at = "boot"
        /\ export[k] = None
        /\ Installed(k) \in Weights
        /\ worker' = [worker EXCEPT ![w].at = "exporting", ![w].exporting = Installed(k)]
        /\ export' = [export EXCEPT ![k] = Torn]
        /\ UNCHANGED <<file, temp, content, backup, request, calm, crashes>>

Exporters(k) == {w \in Workers : worker[w].at = "exporting" /\ worker[w].kind = k}

EndExport(w) ==
    LET k == worker[w].kind
    IN  /\ worker[w].at = "exporting"
        /\ export' = [export EXCEPT ![k] = IF Exporters(k) = {w} THEN worker[w].exporting ELSE Torn]
        /\ worker' = [worker EXCEPT ![w].at = "loading", ![w].exporting = None]
        /\ UNCHANGED <<file, temp, content, backup, request, calm, crashes>>

ExportError(w) ==
    /\ worker[w].at = "exporting"
    /\ calm' = Disturbed
    /\ Serves(w, None)
    /\ UNCHANGED <<files, request, crashes>>

(* What YOLO makes of the directory.  The library reads it no later than   *)
(* the first prediction: of an incomplete one it makes nothing, a model    *)
(* that cannot predict, or the weights a process is just exporting there.  *)
Readable(k) ==
    CASE export[k] = None -> {None}
      [] export[k] \in Weights -> {export[k]}
      [] OTHER -> {None, Broken} \cup {worker[v].exporting : v \in Exporters(k)}

(* Mutant: an incomplete export is served like any other.                  *)
LoadAnything(w) ==
    /\ worker[w].at = "loading"
    /\ Serves(w, export[worker[w].kind])
    /\ UNCHANGED <<files, request, calm, crashes>>

Load(w) ==
    /\ worker[w].at = "loading"
    /\ \E m \in Readable(worker[w].kind) : Serves(w, m)
    /\ UNCHANGED <<files, request, calm, crashes>>

-----------------------------------------------------------------------------
(* detect and segment: 503 without a model, 400 when the model raises, the *)
(* weights that answer otherwise.  Nothing changes.                        *)
Detect(w) ==
    CASE worker[w].serves["detection"] = None -> "unavailable"
      [] worker[w].serves["detection"] = Broken -> "error"
      [] OTHER -> worker[w].serves["detection"]

Segment(w) ==
    CASE worker[w].serves["segmentation"] = None -> "unavailable"
      [] worker[w].serves["segmentation"] = Broken -> "error"
      [] OTHER -> worker[w].serves["segmentation"]

Predict(w, k) == IF k = "detection" THEN Detect(w) ELSE Segment(w)

-----------------------------------------------------------------------------
RequestStep(d) ==
    \/ NoBackup(d)
    \/ BeginBackup(d)
    \/ EndBackup(d)
    \/ BeginFetch(d)
    \/ EndFetch(d)
    \/ Replace(d)
    \/ ReplaceError(d)
    \/ ClearExport(d)
    \/ NoRestore(d)
    \/ BeginRestore(d)
    \/ EndRestore(d)

RequestFault(d) ==
    \/ RefuseHost(d)
    \/ BackupError(d)
    \/ FetchError(d)
    \/ ClearError(d)
    \/ RestoreError(d)

WorkerStep(w) ==
    \/ Boot(w)
    \/ LoadNothing(w)
    \/ FindExport(w)
    \/ BeginExport(w)
    \/ EndExport(w)
    \/ ExportError(w)
    \/ Load(w)

Next ==
    \/ \E d \in Deployments, w \in Workers : UpdateModel(d, w) \/ UploadModel(d, w)
    \/ \E d \in Deployments : RequestStep(d) \/ RequestFault(d)
    \/ \E w \in Workers : Restart(w) \/ Crash(w) \/ WorkerStep(w)

Spec == Init /\ [][Next]_vars

(* Threads and processes run: a request goes on, a scheduled exit happens, *)
(* gunicorn starts what is missing and a start-up comes to its end.  That  *)
(* requests arrive, that the backend answers and that anything fails is    *)
(* not required.                                                           *)
LiveSpec ==
    /\ Spec
    /\ \A d \in Deployments : WF_vars(RequestStep(d))
    /\ \A w \in Workers : WF_vars(Restart(w)) /\ WF_vars(WorkerStep(w))

-----------------------------------------------------------------------------
(* Properties                                                              *)

(* The path of the weights is never without a file once it had one, at     *)
(* whatever step a process is killed and however requests overlap: a new   *)
(* process finds something to load.  os.replace and copy2 see to it.       *)
WeightsStay == [][\A k \in Kinds : file[k] # None => file'[k] # None]_vars

(* Of an accepted deployment that nothing disturbed, each kind is          *)
(* installed whole, and no export of other weights is left that the next   *)
(* process would load instead: replace comes with the removal of the       *)
(* export, and start-up makes an export of the new weights only.           *)
AcceptedIsInstalled ==
    \A d \in Deployments : request[d].at = "accepted" /\ calm[d] # None =>
        \A k \in request[d].kinds : Installed(k) = d /\ export[k] \in {None, Torn, d}

(* A pull that failed by itself leaves the weights of the kind it failed   *)
(* on as they were ("Update failed, backup restored").                     *)
FailedIsRolledBack ==
    \A d \in Deployments : At(d, "pull", "failed") /\ calm[d] # None =>
        calm[d][KindOf(d)] \in {None, Installed(KindOf(d))}

(* An undisturbed deployment that was accepted gets served: the process    *)
(* that ran it restarts, exports the new weights and answers with them.    *)
Undisturbed(d) == request[d].at = "accepted" /\ calm[d] # None

Answers(w, d) == \A k \in request[d].kinds : Predict(w, k) = d

AcceptedIsServed ==
    \A d \in Deployments :
        Undisturbed(d) ~> \/ calm[d] = None
                          \/ \E w \in Workers : w = request[d].worker /\ Answers(w, d)

(* Whatever fails, every process comes back up and no request hangs.       *)
ServiceReturns ==
    <>[](/\ \A w \in Workers : worker[w].at = "up" /\ ~worker[w].restart
         /\ \A d \in Deployments : request[d].at \notin Running)

=============================================================================
