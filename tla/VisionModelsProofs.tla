-------------------------- MODULE VisionModelsProofs --------------------------
(***************************************************************************)
(* Theorems about VisionModels, for any processes, deployments and requests*)
(* that overlap.                                                           *)
(***************************************************************************)
EXTENDS VisionModels, FiniteSetTheorems, TLAPS

Ats == Running \cup {"none", "accepted", "failed", "gone"}
Copying == {"copying", "writing", "restoring"}

(* TypeOK in parts that an action leaves alone or not.                     *)
FilesOK ==
    /\ file \in [Kinds -> Inodes \cup {None}]
    /\ temp \in [Kinds -> [Ways -> Inodes \cup {None}]]
    /\ content \in [Kinds -> [Inodes -> Contents]]
    /\ backup \in [Kinds -> Contents \cup {None}]
    /\ export \in [Kinds -> Contents \cup {None}]
    /\ \A k \in Kinds : backup[k] # None => file[k] # None

RequestsOK ==
    /\ request \in [Deployments -> RequestRows]
    /\ \A d \in Deployments : request[d].at \in Copying => request[d].from # None

BackedUp ==
    \A d \in Deployments : request[d].at \in {"copying", "restoring"} =>
        backup[request[d].kind] # None

WorkersOK == worker \in [Workers -> WorkerRows]

RestOK ==
    /\ calm \in [Deployments -> [Kinds -> Contents \cup {None}] \cup {None}]
    /\ crashes \in 0..MaxCrashes

LEMMA Parts == TypeOK <=> FilesOK /\ RequestsOK /\ BackedUp /\ WorkersOK /\ RestOK
BY DEF TypeOK, FilesOK, RequestsOK, BackedUp, WorkersOK, RestOK, Copying

LEMMA Distinct ==
    /\ None \notin Contents /\ None \notin Inodes
    /\ Torn \in Contents /\ Mixed \in Contents /\ Deployments \subseteq Inodes
    /\ Weights \subseteq Contents /\ Inodes = Weights
BY ModelConstants DEF Contents, Inodes, Weights

LEMMA RequestFields ==
    ASSUME RequestsOK, NEW d \in Deployments
    PROVE  /\ request[d].at \in Ats /\ request[d].way \in Ways
           /\ request[d].worker \in Workers \cup {None}
           /\ request[d].kinds \in SUBSET Kinds /\ KindOf(d) \in Kinds
           /\ request[d].from \in Inodes \cup {None}
BY DEF RequestsOK, RequestRows, Ats, KindOf

LEMMA WorkerFields ==
    ASSUME WorkersOK, NEW w \in Workers
    PROVE  /\ worker[w].kind \in Kinds
           /\ worker[w].exporting \in Weights \cup {None}
BY DEF WorkersOK, WorkerRows

(* One row changes.                                                        *)
LEMMA RowMoves ==
    ASSUME RequestsOK, NEW d \in Deployments, NEW r \in RequestRows,
           r.at \in Copying => r.from # None,
           request' = [request EXCEPT ![d] = r]
    PROVE  RequestsOK' /\ request'[d] = r
           /\ \A e \in Deployments \ {d} : request'[e] = request[e]
BY DEF RequestsOK

(* What a step of d does to the rows of all requests.                      *)
Moves(d, at) ==
    /\ RequestsOK'
    /\ request'[d].at = at
    /\ at \in Copying => request'[d].kind = request[d].kind
    /\ \A e \in Deployments \ {d} : request'[e] = request[e]

LEMMA GoesMoves ==
    ASSUME RequestsOK, NEW d \in Deployments, NEW at \in Ats \ Copying, Goes(d, at)
    PROVE  Moves(d, at)
<1> DEFINE r == [request[d] EXCEPT !.at = at, !.from = None]
<1>1. request' = [request EXCEPT ![d] = r]
  BY DEF Goes
<1>2. request[d] \in RequestRows
  BY DEF RequestsOK
<1>3. r \in RequestRows /\ r.at = at
  BY <1>2 DEF RequestRows, Ats
<1> HIDE DEF r
<1> QED
  BY <1>1, <1>3, RowMoves DEF Moves

LEMMA EndsMoves ==
    ASSUME RequestsOK, NEW d \in Deployments, NEW at \in Ats \ Copying, Ends(d, at)
    PROVE  Moves(d, at)
<1>1. request[d] \in RequestRows
  BY DEF RequestsOK
<1>2. Ended(request[d], at) \in RequestRows /\ Ended(request[d], at).at = at
  BY <1>1 DEF RequestRows, Ats, Ended
<1> QED
  BY <1>2, RowMoves DEF Moves, Ends

LEMMA OpensMoves ==
    ASSUME RequestsOK, NEW d \in Deployments, NEW at \in Copying, NEW from \in Inodes,
           request' = [request EXCEPT ![d].at = at, ![d].from = from]
    PROVE  Moves(d, at)
<1> DEFINE r == [request[d] EXCEPT !.at = at, !.from = from]
<1>1. request[d] \in RequestRows
  BY DEF RequestsOK
<1>2. at \in Running
  BY DEF Copying, Running
<1>3. r \in RequestRows /\ r.at = at /\ r.from = from /\ r.kind = request[d].kind
  BY <1>1, <1>2 DEF RequestRows
<1>4. request' = [request EXCEPT ![d] = r]
  OBVIOUS
<1> HIDE DEF r
<1> QED
  BY <1>3, <1>4, RowMoves, Distinct DEF Moves

LEMMA ProceedsMoves ==
    ASSUME RequestsOK, WorkersOK, NEW d \in Deployments, Proceeds(d)
    PROVE  WorkersOK' /\ \E at \in Ats \ Copying : Moves(d, at)
<1> DEFINE r == [request[d] EXCEPT !.at = "backup", !.kind = "segmentation"]
<1>1. CASE KindOf(d) = "detection" /\ request[d].kinds # {"detection"}
  <2>1. request' = [request EXCEPT ![d] = r]
    BY <1>1 DEF Proceeds
  <2>2. r \in RequestRows /\ r.at = "backup"
    BY DEF RequestsOK, RequestRows, Kinds, Running
  <2> HIDE DEF r
  <2>3. Moves(d, "backup")
    BY <2>1, <2>2, RowMoves DEF Moves, Copying
  <2> QED
    BY <1>1, <2>3 DEF Proceeds, WorkersOK, Ats, Copying, Running
<1>2. CASE ~(KindOf(d) = "detection" /\ request[d].kinds # {"detection"})
  <2>1. Moves(d, "accepted")
    BY <1>2, EndsMoves DEF Proceeds, Ats, Copying
  <2>2. WorkersOK'
    <3> DEFINE v == request[d].worker
    <3>1. worker' = [worker EXCEPT ![v] = [worker[v] EXCEPT !.restart = TRUE]]
      BY <1>2 DEF Proceeds
    <3>2. v \in Workers => [worker[v] EXCEPT !.restart = TRUE] \in WorkerRows
      BY DEF WorkersOK, WorkerRows
    <3> HIDE DEF v
    <3> QED
      BY <3>1, <3>2 DEF WorkersOK
  <2> QED
    BY <2>1, <2>2 DEF Ats, Copying
<1> QED
  BY <1>1, <1>2

(* Of a step that leaves a .backup where there is one.                     *)
LEMMA MovesBackedUp ==
    ASSUME RequestsOK, BackedUp, NEW d \in Deployments, NEW at, Moves(d, at),
           at \in {"copying", "restoring"} => backup'[KindOf(d)] # None,
           \A k \in Kinds : backup[k] # None => backup'[k] # None
    PROVE  BackedUp'
BY RequestFields DEF BackedUp, Moves, KindOf, Copying

-----------------------------------------------------------------------------
(* The steps of a request                                                  *)

LEMMA InstalledType == ASSUME FilesOK, NEW k \in Kinds PROVE Installed(k) \in Contents \cup {None}
BY DEF FilesOK, Installed

LEMMA TempGone ==
    ASSUME FilesOK, NEW k \in Kinds, NEW way \in Ways,
           temp' = temp \/ temp' = [temp EXCEPT ![k][way] = None]
    PROVE  temp' \in [Kinds -> [Ways -> Inodes \cup {None}]]
<1>1. CASE temp' = temp
  BY <1>1 DEF FilesOK
<1>2. CASE temp' = [temp EXCEPT ![k][way] = None]
  <2> DEFINE row == [temp[k] EXCEPT ![way] = None]
  <2>1. row \in [Ways -> Inodes \cup {None}]
    BY DEF FilesOK
  <2>2. temp' = [temp EXCEPT ![k] = row]
    BY <1>2
  <2> HIDE DEF row
  <2> QED
    BY <2>1, <2>2 DEF FilesOK
<1> QED
  BY <1>1, <1>2

LEMMA CalmLost ==
    ASSUME RestOK, crashes' = crashes,
           \/ calm' = calm
           \/ calm' = Disturbed
           \/ \E d \in Deployments : calm' = [calm EXCEPT ![d] = None]
    PROVE  RestOK'
BY DEF RestOK, Disturbed

(* What most steps of a request leave to be shown.                         *)
LEMMA Steps ==
    ASSUME TypeOK, NEW d \in Deployments, NEW at, Moves(d, at), FilesOK', RestOK',
           at \in {"copying", "restoring"} => backup'[KindOf(d)] # None,
           \A k \in Kinds : backup[k] # None => backup'[k] # None,
           worker' = worker
    PROVE  TypeOK'
<1>1. BackedUp'
  BY Parts, MovesBackedUp
<1>2. WorkersOK'
  BY Parts DEF WorkersOK
<1> QED
  BY <1>1, <1>2, Parts DEF Moves, TypeOK, FilesOK, RequestsOK, BackedUp, WorkersOK, RestOK, Copying

LEMMA ArrivesType ==
    ASSUME TypeOK, NEW d \in Deployments, NEW w \in Workers, NEW at \in {"backup", "fetch"},
           Arrives(d, w, at)
    PROVE  TypeOK'
<1> DEFINE r == [request[d] EXCEPT !.at = at, !.worker = w, !.kind = FirstOf(request[d].kinds)]
           c == [k \in Kinds |-> Installed(k)]
<1>1. request' = [request EXCEPT ![d] = r]
  BY DEF Arrives
<1>2. r \in RequestRows /\ r.at = at
  BY Parts DEF RequestsOK, RequestRows, Running, FirstOf, Kinds
<1>3. c \in [Kinds -> Contents \cup {None}]
  BY Parts, InstalledType
<1>4. calm' = [Disturbed EXCEPT ![d] = c] \/ calm' = Disturbed
  BY DEF Arrives
<1> HIDE DEF r, c
<1>5. Moves(d, at)
  BY <1>1, <1>2, Parts, RowMoves DEF Moves, Copying
<1>6. RestOK'
  BY <1>3, <1>4, Parts DEF RestOK, Disturbed, Arrives
<1>7. FilesOK' /\ worker' = worker /\ backup' = backup
  BY Parts DEF FilesOK, Arrives, files
<1> QED
  BY <1>5, <1>6, <1>7, Steps

LEMMA Where ==
    /\ {"fetch", "replace", "clear", "restore", "accepted", "failed", "gone"} \subseteq Ats \ Copying
    /\ {"copying", "restoring"} \cap (Ats \ Copying) = {}
    /\ \A d : AfterBackup(d) \in Ats \ Copying
BY DEF Ats, Copying, Running, AfterBackup

LEMMA BackupType ==
    ASSUME TypeOK, NEW d \in Deployments,
           NoBackup(d) \/ BeginBackup(d) \/ EndBackup(d) \/ BackupError(d)
    PROVE  TypeOK'
<1> DEFINE k == KindOf(d)
<1>0. k \in Kinds /\ request[d].from \in Inodes \cup {None}
  BY Parts, RequestFields
<1>1. CASE NoBackup(d)
  <2>1. Moves(d, AfterBackup(d))
    BY <1>1, Parts, Where, GoesMoves DEF NoBackup
  <2>2. FilesOK' /\ RestOK' /\ worker' = worker /\ backup' = backup
    BY <1>1, Parts, CalmLost DEF FilesOK, NoBackup, files
  <2> QED
    BY <2>1, <2>2, Where, Steps
<1>2. CASE BeginBackup(d)
  <2>1. file[k] \in Inodes
    BY <1>0, <1>2, Parts DEF BeginBackup, FilesOK
  <2>2. Moves(d, "copying")
    BY <1>2, <2>1, Parts, Distinct, OpensMoves DEF BeginBackup, Copying
  <2>3. backup' = [backup EXCEPT ![k] = Torn] /\ file[k] # None
    BY <1>2 DEF BeginBackup
  <2>4. FilesOK' /\ RestOK' /\ worker' = worker
    BY <1>0, <1>2, <2>3, Parts, Distinct, CalmLost DEF FilesOK, BeginBackup
  <2>5. backup'[k] # None /\ \A j \in Kinds : backup[j] # None => backup'[j] # None
    BY <1>0, <2>3, Parts, Distinct DEF FilesOK
  <2> QED
    BY <2>2, <2>4, <2>5, Steps
<1>3. CASE EndBackup(d)
  <2>1. Moves(d, AfterBackup(d))
    BY <1>3, Parts, Where, GoesMoves DEF EndBackup
  <2>2. PICK c \in Contents : backup' = [backup EXCEPT ![k] = c]
    <3>1. request[d].from # None
      BY <1>3, Parts DEF EndBackup, RequestsOK, Copying
    <3>2. content[k][request[d].from] \in Contents
      BY <1>0, <3>1, Parts DEF FilesOK
    <3> QED
      BY <1>3, <3>2, Distinct DEF EndBackup
  <2>3. file[k] # None
    BY <1>0, <1>3, Parts DEF EndBackup, BackedUp, FilesOK, KindOf
  <2>4. FilesOK' /\ RestOK' /\ worker' = worker
    BY <1>0, <1>3, <2>2, <2>3, Parts, CalmLost DEF FilesOK, EndBackup
  <2>5. \A j \in Kinds : backup[j] # None => backup'[j] # None
    BY <2>2, Parts, Distinct DEF FilesOK
  <2> QED
    BY <2>1, <2>4, <2>5, Where, Steps
<1>4. CASE BackupError(d)
  <2>1. Moves(d, "fetch") \/ Moves(d, "gone")
    BY <1>4, Parts, Where, GoesMoves, EndsMoves DEF BackupError
  <2>2. FilesOK' /\ RestOK' /\ worker' = worker /\ backup' = backup
    <3>1. temp' = temp \/ temp' = [temp EXCEPT ![k]["upload"] = None]
      BY <1>4 DEF BackupError
    <3>2. temp' \in [Kinds -> [Ways -> Inodes \cup {None}]]
      BY <1>0, <3>1, Parts, TempGone DEF Ways
    <3> QED
      BY <1>4, <3>2, Parts, CalmLost DEF FilesOK, BackupError
  <2> QED
    BY <2>1, <2>2, Steps
<1> QED
  BY <1>1, <1>2, <1>3, <1>4

LEMMA FetchType ==
    ASSUME TypeOK, NEW d \in Deployments, BeginFetch(d) \/ EndFetch(d) \/ FetchError(d)
    PROVE  TypeOK'
<1> DEFINE k == KindOf(d)
           way == request[d].way
<1>0. k \in Kinds /\ way \in Ways /\ request[d].from \in Inodes \cup {None}
  BY Parts, RequestFields
<1>1. CASE BeginFetch(d)
  <2> DEFINE inode == IF temp[k][way] = None THEN d ELSE temp[k][way]
  <2>1. inode \in Inodes
    BY <1>0, Parts, Distinct DEF FilesOK
  <2>2. PICK c \in Contents : content' = [content EXCEPT ![k][inode] = c]
    BY <1>1, Distinct DEF BeginFetch
  <2>3. temp' = [temp EXCEPT ![k][way] = inode]
        /\ request' = [request EXCEPT ![d].at = "writing", ![d].from = inode]
    BY <1>1 DEF BeginFetch
  <2> HIDE DEF inode
  <2>4. Moves(d, "writing")
    BY <2>1, <2>3, Parts, Distinct, OpensMoves DEF Copying
  <2>5. FilesOK' /\ RestOK' /\ worker' = worker /\ backup' = backup
    BY <1>0, <1>1, <2>1, <2>2, <2>3, Parts, CalmLost DEF FilesOK, BeginFetch
  <2> QED
    BY <2>4, <2>5, Steps
<1>2. CASE EndFetch(d)
  <2>1. Moves(d, "replace") \/ Moves(d, "backup")
    BY <1>2, Parts, Where, GoesMoves DEF EndFetch, Ats, Copying, Running
  <2>2. PICK c \in {d, Torn} :
          /\ content' = [content EXCEPT ![k][request[d].from] = IF @ = Mixed THEN Mixed ELSE c]
          /\ calm' = calm \/ calm' = [calm EXCEPT ![d] = None]
    BY <1>2 DEF EndFetch
  <2>3. c \in Contents /\ Mixed \in Contents
    BY Distinct
  <2>4. FilesOK' /\ RestOK' /\ worker' = worker /\ backup' = backup
    BY <1>0, <1>2, <2>2, <2>3, Parts, CalmLost DEF FilesOK, EndFetch
  <2> QED
    BY <2>1, <2>4, Steps
<1>3. CASE FetchError(d)
  <2>1. Moves(d, "restore") \/ Moves(d, "gone")
    BY <1>3, Parts, Where, GoesMoves, EndsMoves DEF FetchError
  <2>2. temp' = temp \/ temp' = [temp EXCEPT ![k]["upload"] = None]
    BY <1>3 DEF FetchError
  <2>3. temp' \in [Kinds -> [Ways -> Inodes \cup {None}]]
    BY <1>0, <2>2, Parts, TempGone DEF Ways
  <2>4. FilesOK' /\ RestOK' /\ worker' = worker /\ backup' = backup
    BY <1>3, <2>3, Parts, CalmLost DEF FilesOK, FetchError
  <2> QED
    BY <2>1, <2>4, Steps
<1> QED
  BY <1>1, <1>2, <1>3

LEMMA InstallType ==
    ASSUME TypeOK, NEW d \in Deployments,
           Replace(d) \/ ReplaceError(d) \/ ClearExport(d) \/ ClearError(d) \/ RefuseHost(d)
    PROVE  TypeOK'
<1> DEFINE k == KindOf(d)
           way == request[d].way
<1>0. k \in Kinds /\ way \in Ways
  BY Parts, RequestFields
<1>1. CASE Replace(d)
  <2>1. Moves(d, "clear")
    BY <1>1, Parts, Where, GoesMoves DEF Replace
  <2>2. /\ file' = [file EXCEPT ![k] = temp[k][way]]
        /\ temp' = [temp EXCEPT ![k][way] = None]
        /\ temp[k][way] # None
    BY <1>1 DEF Replace
  <2>3. FilesOK' /\ RestOK' /\ worker' = worker /\ backup' = backup
    BY <1>0, <1>1, <2>2, Parts, CalmLost DEF FilesOK, Replace
  <2> QED
    BY <2>1, <2>3, Steps
<1>2. CASE ReplaceError(d) \/ RefuseHost(d)
  <2>1. Moves(d, "restore") \/ Moves(d, "gone")
    BY <1>2, Parts, Where, GoesMoves, EndsMoves DEF ReplaceError, RefuseHost
  <2>2. FilesOK' /\ RestOK' /\ worker' = worker /\ backup' = backup
    BY <1>2, Parts, CalmLost DEF FilesOK, ReplaceError, RefuseHost, files
  <2> QED
    BY <2>1, <2>2, Steps
<1>3. CASE ClearExport(d)
  <2>1. PICK at \in Ats \ Copying : Moves(d, at)
    BY <1>3, Parts, ProceedsMoves DEF ClearExport
  <2>2. WorkersOK'
    BY <1>3, Parts, ProceedsMoves DEF ClearExport
  <2>3. FilesOK' /\ RestOK' /\ backup' = backup
    BY <1>0, <1>3, Parts, CalmLost DEF FilesOK, ClearExport
  <2>4. BackedUp'
    BY <2>1, <2>3, Parts, Where, MovesBackedUp
  <2> QED
    BY <2>1, <2>2, <2>3, <2>4 DEF Moves, TypeOK, FilesOK, RequestsOK, BackedUp, WorkersOK,
                                  RestOK, Copying
<1>4. CASE ClearError(d)
  <2>1. Moves(d, "restore") \/ Moves(d, "gone")
    BY <1>4, Parts, Where, GoesMoves, EndsMoves DEF ClearError
  <2>2. FilesOK' /\ RestOK' /\ worker' = worker /\ backup' = backup
    BY <1>0, <1>4, Parts, Distinct, CalmLost DEF FilesOK, ClearError
  <2> QED
    BY <2>1, <2>2, Steps
<1> QED
  BY <1>1, <1>2, <1>3, <1>4

LEMMA RollbackType ==
    ASSUME TypeOK, NEW d \in Deployments,
           NoRestore(d) \/ BeginRestore(d) \/ EndRestore(d) \/ RestoreError(d)
    PROVE  TypeOK'
<1> DEFINE k == KindOf(d)
<1>0. k \in Kinds /\ request[d].from \in Inodes \cup {None}
  BY Parts, RequestFields
<1>1. CASE NoRestore(d) \/ RestoreError(d)
  <2>1. Moves(d, "failed") \/ Moves(d, "gone")
    BY <1>1, Parts, Where, EndsMoves DEF NoRestore, RestoreError
  <2>2. temp' = [temp EXCEPT ![k]["pull"] = None]
    BY <1>1 DEF NoRestore, RestoreError
  <2>3. temp' \in [Kinds -> [Ways -> Inodes \cup {None}]]
    BY <1>0, <2>2, Parts, TempGone DEF Ways
  <2>4. FilesOK' /\ RestOK' /\ worker' = worker /\ backup' = backup
    BY <1>1, <2>3, Parts, CalmLost DEF FilesOK, NoRestore, RestoreError
  <2> QED
    BY <2>1, <2>4, Steps
<1>2. CASE BeginRestore(d)
  <2>1. file[k] \in Inodes /\ backup[k] # None
    BY <1>0, <1>2, Parts DEF BeginRestore, FilesOK
  <2>2. Moves(d, "restoring")
    BY <1>2, <2>1, Parts, Distinct, OpensMoves DEF BeginRestore, Copying
  <2>3. content' = [content EXCEPT ![k][file[k]] = Torn]
    BY <1>2 DEF BeginRestore
  <2>4. FilesOK' /\ RestOK' /\ worker' = worker /\ backup' = backup
    BY <1>0, <1>2, <2>3, Parts, Distinct, CalmLost DEF FilesOK, BeginRestore
  <2> QED
    BY <2>1, <2>2, <2>4, Steps
<1>3. CASE EndRestore(d)
  <2>1. Moves(d, "failed")
    BY <1>3, Parts, Where, EndsMoves DEF EndRestore
  <2>2. backup[k] \in Contents
    BY <1>0, <1>3, Parts DEF EndRestore, BackedUp, FilesOK, KindOf
  <2>3. /\ content' = [content EXCEPT ![k][request[d].from] = backup[k]]
        /\ temp' = [temp EXCEPT ![k]["pull"] = None]
    BY <1>3 DEF EndRestore
  <2>4. temp' \in [Kinds -> [Ways -> Inodes \cup {None}]]
    BY <1>0, <2>3, Parts, TempGone DEF Ways
  <2>5. content' \in [Kinds -> [Inodes -> Contents]]
    BY <1>0, <2>2, <2>3, Parts DEF FilesOK
  <2>6. FilesOK' /\ RestOK' /\ worker' = worker /\ backup' = backup
    BY <1>3, <2>4, <2>5, Parts, CalmLost DEF FilesOK, EndRestore
  <2> QED
    BY <2>1, <2>6, Steps
<1> QED
  BY <1>1, <1>2, <1>3

-----------------------------------------------------------------------------
(* The steps of a process                                                  *)

LEMMA DiesType ==
    ASSUME TypeOK, NEW w \in Workers, Dies(w), files' = files,
           calm' = calm \/ calm' = Disturbed, crashes' \in 0..MaxCrashes
    PROVE  TypeOK'
<1>1. Down \in WorkerRows
  BY DEF Down, WorkerRows, Kinds
<1>2. WorkersOK'
  BY <1>1, Parts DEF Dies, WorkersOK
<1>3. ASSUME NEW d \in Deployments
      PROVE  /\ Ended(request[d], "gone") \in RequestRows
             /\ Ended(request[d], "gone").at = "gone"
  BY Parts DEF RequestsOK, RequestRows, Ended
<1>4. \A d \in Deployments : \/ request'[d] = request[d]
                             \/ request'[d] = Ended(request[d], "gone")
  BY DEF Dies
<1>5. DOMAIN request' = Deployments /\ request' = [d \in Deployments |-> request'[d]]
  BY DEF Dies
<1>6. RequestsOK'
  BY <1>3, <1>4, <1>5, Parts DEF RequestsOK, Copying
<1>7. BackedUp'
  BY <1>3, <1>4, Parts DEF BackedUp, files
<1>8. FilesOK' /\ RestOK'
  BY Parts DEF FilesOK, RestOK, files, Disturbed
<1> QED
  BY <1>2, <1>6, <1>7, <1>8 DEF TypeOK, FilesOK, RequestsOK, BackedUp, WorkersOK, RestOK, Copying

LEMMA ServesType ==
    ASSUME WorkersOK, NEW w \in Workers, NEW m \in Weights \cup {Broken, None}, Serves(w, m)
    PROVE  WorkersOK'
<1> DEFINE at == IF worker[w].kind = "detection" THEN "boot" ELSE "up"
           r == [worker[w] EXCEPT !.serves[worker[w].kind] = m, !.exporting = None,
                                  !.at = at, !.kind = "segmentation"]
<1>1. at \in {"boot", "up"}
  OBVIOUS
<1>2. worker' = [worker EXCEPT ![w] = r]
  BY DEF Serves
<1> HIDE DEF at
<1>3. r \in WorkerRows
  BY <1>1 DEF WorkersOK, WorkerRows, Kinds
<1> HIDE DEF r
<1> QED
  BY <1>2, <1>3 DEF WorkersOK

(* What the steps of a start-up leave to be shown.                         *)
LEMMA StartUp ==
    ASSUME TypeOK, WorkersOK', calm' = calm \/ calm' = Disturbed,
           UNCHANGED <<file, temp, content, backup, request, crashes>>,
           export' \in [Kinds -> Contents \cup {None}]
    PROVE  TypeOK'
BY Parts DEF TypeOK, FilesOK, RequestsOK, BackedUp, WorkersOK, RestOK, Disturbed, Copying

LEMMA ReadableType ==
    ASSUME TypeOK, NEW k \in Kinds
    PROVE  Readable(k) \subseteq Weights \cup {Broken, None}
<1>1. \A v \in Exporters(k) : worker[v].exporting \in Weights \cup {None}
  BY Parts, WorkerFields DEF Exporters
<1> QED
  BY <1>1 DEF Readable

LEMMA WorkerType ==
    ASSUME TypeOK, NEW w \in Workers, WorkerStep(w)
    PROVE  TypeOK'
<1> DEFINE k == worker[w].kind
<1>0. k \in Kinds /\ worker[w].exporting \in Weights \cup {None} /\ worker[w] \in WorkerRows
  BY Parts, WorkerFields DEF WorkersOK
<1>1. export \in [Kinds -> Contents \cup {None}]
  BY DEF TypeOK
<1>2. CASE LoadNothing(w) \/ ExportError(w)
  <2>1. WorkersOK'
    BY <1>2, Parts, ServesType DEF LoadNothing, ExportError
  <2> QED
    BY <1>1, <1>2, <2>1, StartUp DEF LoadNothing, ExportError, files
<1>3. CASE Load(w)
  <2>1. PICK m \in Readable(k) : Serves(w, m)
    BY <1>3 DEF Load
  <2>2. WorkersOK'
    BY <1>0, <2>1, Parts, ReadableType, ServesType
  <2> QED
    BY <1>1, <1>3, <2>2, StartUp DEF Load, files
<1>4. CASE Boot(w) \/ FindExport(w)
  <2>1. WorkersOK'
    <3>1. PICK at \in {"boot", "loading"} : worker' = [worker EXCEPT ![w] = [worker[w] EXCEPT !.at = at]]
      BY <1>4 DEF Boot, FindExport
    <3>2. [worker[w] EXCEPT !.at = at] \in WorkerRows
      BY <1>0 DEF WorkerRows
    <3> QED
      BY <3>1, <3>2, Parts DEF WorkersOK
  <2> QED
    BY <1>1, <1>4, <2>1, StartUp DEF Boot, FindExport, files
<1>5. CASE BeginExport(w)
  <2> DEFINE r == [worker[w] EXCEPT !.at = "exporting", !.exporting = Installed(k)]
  <2>1. worker' = [worker EXCEPT ![w] = r] /\ Installed(k) \in Weights
    BY <1>5 DEF BeginExport
  <2>2. r \in WorkerRows
    BY <1>0, <2>1 DEF WorkerRows
  <2> HIDE DEF r
  <2>3. WorkersOK'
    BY <2>1, <2>2, Parts DEF WorkersOK
  <2>4. export' \in [Kinds -> Contents \cup {None}]
    BY <1>0, <1>1, <1>5, Distinct DEF BeginExport
  <2> QED
    BY <1>5, <2>3, <2>4, StartUp DEF BeginExport
<1>6. CASE EndExport(w)
  <2> DEFINE r == [worker[w] EXCEPT !.at = "loading", !.exporting = None]
             c == IF Exporters(k) = {w} THEN worker[w].exporting ELSE Torn
  <2>1. worker' = [worker EXCEPT ![w] = r] /\ export' = [export EXCEPT ![k] = c]
    BY <1>6 DEF EndExport
  <2>2. r \in WorkerRows
    BY <1>0 DEF WorkerRows
  <2>3. c \in Contents \cup {None}
    BY <1>0, Distinct
  <2> HIDE DEF r, c
  <2>4. WorkersOK'
    BY <2>1, <2>2, Parts DEF WorkersOK
  <2>5. export' \in [Kinds -> Contents \cup {None}]
    BY <1>0, <1>1, <2>1, <2>3
  <2> QED
    BY <1>6, <2>4, <2>5, StartUp DEF EndExport
<1> QED
  BY <1>2, <1>3, <1>4, <1>5, <1>6 DEF WorkerStep

-----------------------------------------------------------------------------
LEMMA InitType == Init => TypeOK
<1> SUFFICES ASSUME Init PROVE TypeOK
  OBVIOUS
<1>1. Original \in Inodes /\ Original \in Contents /\ Torn \in Contents
  BY Distinct DEF Inodes, Contents, Weights
<1>2. FilesOK
  BY <1>1 DEF Init, FilesOK
<1>3. RequestsOK
  <2>1. PICK ask \in Asked : request = [d \in Deployments |->
               [at |-> "none", way |-> ask[d].way, kinds |-> ask[d].kinds,
                worker |-> None, kind |-> "detection", from |-> None]]
    BY DEF Init
  <2>2. ask \in [Deployments -> [way: Ways, kinds: SUBSET Kinds]]
    BY ModelConstants
  <2>3. ASSUME NEW d \in Deployments PROVE request[d] \in RequestRows /\ request[d].at = "none"
    BY <2>1, <2>2 DEF RequestRows, Kinds
  <2> QED
    BY <2>1, <2>3 DEF RequestsOK, Copying
<1>4. \A d \in Deployments : request[d].at = "none"
  BY DEF Init
<1>5. WorkersOK
  <2>1. PICK o \in {Original, None} : worker =
            [w \in Workers |-> [Down EXCEPT !.at = "up", !.serves = [k \in Kinds |-> o]]]
    BY DEF Init
  <2>2. [Down EXCEPT !.at = "up", !.serves = [k \in Kinds |-> o]] \in WorkerRows
    BY DEF Down, WorkerRows, Kinds, Weights
  <2> QED
    BY <2>1, <2>2 DEF WorkersOK
<1>6. RestOK
  BY ModelConstants DEF Init, RestOK, Disturbed
<1> QED
  BY <1>2, <1>3, <1>4, <1>5, <1>6, Parts DEF BackedUp

LEMMA NextType == TypeOK /\ [Next]_vars => TypeOK'
<1> SUFFICES ASSUME TypeOK, [Next]_vars PROVE TypeOK'
  OBVIOUS
<1>1. CASE \E d \in Deployments, w \in Workers : UpdateModel(d, w) \/ UploadModel(d, w)
  BY <1>1, ArrivesType DEF UpdateModel, UploadModel
<1>2. CASE \E d \in Deployments : RequestStep(d) \/ RequestFault(d)
  BY <1>2, BackupType, FetchType, InstallType, RollbackType DEF RequestStep, RequestFault
<1>3. CASE \E w \in Workers : WorkerStep(w)
  BY <1>3, WorkerType
<1>4. CASE \E w \in Workers : Restart(w)
  BY <1>4, Parts, DiesType DEF Restart, RestOK
<1>5. CASE \E w \in Workers : Crash(w)
  <2>1. crashes \in Nat /\ MaxCrashes \in Nat /\ crashes < MaxCrashes
    BY <1>5, Parts, ModelConstants DEF Crash, RestOK
  <2> QED
    BY <1>5, <2>1, DiesType DEF Crash, files
<1>6. CASE UNCHANGED vars
  BY <1>6 DEF vars, TypeOK, RequestRows, WorkerRows
<1> QED
  BY <1>1, <1>2, <1>3, <1>4, <1>5, <1>6 DEF Next

(* Types hold, and with them what the steps on files rely on: a copy knows *)
(* its source, a rollback that has begun has a .backup to read, and only   *)
(* what has weights has a .backup.  For any processes and requests.        *)
THEOREM TypeCorrect == Spec => []TypeOK
BY InitType, NextType, PTL DEF Spec

(* Whatever requests overlap and wherever processes are killed, the path   *)
(* of the weights is never without a file once it had one: os.replace is   *)
(* the only call that changes what it names.                               *)
THEOREM WeightsNeverGone == Spec => WeightsStay
<1> DEFINE Stays == \A k \in Kinds : file[k] # None => file'[k] # None
<1>1. TypeOK /\ [Next]_vars => [Stays]_vars
  <2> SUFFICES ASSUME TypeOK, Next PROVE Stays
    BY DEF vars
  <2>1. CASE \E d \in Deployments : Replace(d)
    BY <2>1, Parts DEF Replace, FilesOK
  <2>2. CASE file' = file
    BY <2>2
  <2>3. file' = file \/ \E d \in Deployments : Replace(d)
    <3>1. CASE \E d \in Deployments : RequestStep(d) \/ RequestFault(d)
      BY <3>1 DEF RequestStep, RequestFault, RefuseHost, NoBackup, BeginBackup, EndBackup,
         BackupError, BeginFetch, EndFetch, FetchError, ReplaceError, ClearExport, ClearError,
         NoRestore, BeginRestore, EndRestore, RestoreError, files
    <3>2. CASE \E w \in Workers : Restart(w) \/ Crash(w) \/ WorkerStep(w)
      BY <3>2 DEF Restart, Crash, WorkerStep, Boot, LoadNothing, FindExport, BeginExport,
         EndExport, ExportError, Load, files
    <3>3. CASE \E d \in Deployments, w \in Workers : UpdateModel(d, w) \/ UploadModel(d, w)
      BY <3>3 DEF UpdateModel, UploadModel, Arrives, files
    <3> QED
      BY <3>1, <3>2, <3>3 DEF Next
  <2> QED
    BY <2>1, <2>2, <2>3
<1> QED
  BY <1>1, TypeCorrect, PTL DEF Spec, WeightsStay

-----------------------------------------------------------------------------
(* A deployment that nothing disturbs.  Its files are its own only because *)
(* no temporary file is what <kind>.pt names, nor what another request is  *)
(* going to make: this holds of all requests.                              *)
BeforeFetch(d) ==
    IF request[d].way = "pull" THEN {"backup", "copying", "fetch"} ELSE {"fetch"}

Unfetched(d, k) ==
    \/ request[d].at = "none"
    \/ request[d].at \in Running /\ KindOf(d) = "detection" /\ k = "segmentation"
    \/ request[d].at \in BeforeFetch(d) /\ k = KindOf(d)

FreshInv ==
    /\ \A k \in Kinds, way \in Ways : temp[k][way] # None =>
          /\ temp[k][way] # file[k]
          /\ \A other \in Ways \ {way} : temp[k][other] # temp[k][way]
    /\ \A d \in Deployments, k \in Kinds : Unfetched(d, k) =>
          /\ file[k] # d
          /\ \A way \in Ways : temp[k][way] # d

KindInv ==
    \A d \in Deployments :
        /\ request[d].way = "upload" => \A j, k \in request[d].kinds : j = k
        /\ request[d].at \in Running => KindOf(d) \in request[d].kinds

(* Of a calm deployment under way: what it has not reached is as it was.   *)
Untouched(d) ==
    \A j \in Kinds :
        \/ j = KindOf(d) /\ request[d].at \in {"backup", "copying", "fetch", "writing", "replace"}
        \/ j = "segmentation" /\ KindOf(d) = "detection"
        => Installed(j) = calm[d][j]

(* The temporary file is its own, and whole once the stream has ended.     *)
HasFetched(d) ==
    \/ request[d].at = "replace"
    \/ request[d].way = "upload" /\ request[d].at \in {"backup", "copying"}

TempOf(d) == temp[KindOf(d)][request[d].way]

Fetched(d) ==
    /\ request[d].at = "writing" =>
          TempOf(d) # None /\ content[KindOf(d)][TempOf(d)] = Torn /\ request[d].from = TempOf(d)
    /\ HasFetched(d) => TempOf(d) # None /\ content[KindOf(d)][TempOf(d)] = d

(* What a rollback would copy back.                                        *)
Saved(d) ==
    request[d].way = "pull"
       /\ request[d].at \in {"fetch", "writing", "replace", "clear", "restore", "restoring"}
    => calm[d][KindOf(d)] \in {None, backup[KindOf(d)]}

(* The copy under way reads, or writes, what <kind>.pt names.              *)
Sourced(d) == request[d].at \in {"copying", "restoring"} => request[d].from = file[KindOf(d)]

Whole(d, k) == Installed(k) = d /\ export[k] \in {None, Torn, d}

(* What it has got done.                                                   *)
DoneSoFar(d) ==
    /\ request[d].at = "clear" => Installed(KindOf(d)) = d
    /\ KindOf(d) = "segmentation" /\ "detection" \in request[d].kinds => Whole(d, "detection")

Phase(d) == Untouched(d) /\ Fetched(d) /\ Saved(d) /\ Sourced(d) /\ DoneSoFar(d)

AllUp == \A w \in Workers : worker[w].at = "up" /\ ~worker[w].restart

(* The process that restarts exports the new weights, no other.            *)
Served(d) ==
    \A k \in request[d].kinds :
        /\ Whole(d, k)
        /\ \A w \in Exporters(k) : worker[w].exporting = d

CalmInv(d) ==
    calm[d] # None =>
        /\ \A e \in Deployments \ {d} : request[e].at \notin Running
        /\ request[d].at \in Running => AllUp /\ Phase(d)
        /\ request[d].at = "accepted" => Served(d)
        /\ At(d, "pull", "failed") => calm[d][KindOf(d)] \in {None, Installed(KindOf(d))}

IInv == TypeOK /\ FreshInv /\ KindInv /\ \A d \in Deployments : CalmInv(d)

Calms == FreshInv /\ KindInv /\ \A d \in Deployments : CalmInv(d)

-----------------------------------------------------------------------------
(* What a step of a request leaves alone.                                  *)

RowIs(d, at, from) ==
    /\ request'[d].at = at /\ request'[d].from = from
    /\ request'[d].way = request[d].way /\ request'[d].kinds = request[d].kinds
    /\ request'[d].kind = request[d].kind
    /\ \A e \in Deployments \ {d} : request'[e] = request[e]

LEMMA GoesRow ==
    ASSUME RequestsOK, NEW d \in Deployments, NEW at, Goes(d, at) PROVE RowIs(d, at, None)
BY DEF RequestsOK, RequestRows, Goes, RowIs

LEMMA OpensRow ==
    ASSUME RequestsOK, NEW d \in Deployments, NEW at, NEW from,
           request' = [request EXCEPT ![d].at = at, ![d].from = from]
    PROVE  RowIs(d, at, from)
BY DEF RequestsOK, RequestRows, RowIs

LEMMA EndsRow ==
    ASSUME RequestsOK, NEW d \in Deployments, NEW at, Ends(d, at) PROVE RowIs(d, at, None)
<1> DEFINE r == Ended(request[d], at)
<1>1. request' = [request EXCEPT ![d] = r] /\ request[d] \in RequestRows
  BY DEF Ends, RequestsOK
<1>2. /\ r.at = at /\ r.from = None /\ r.way = request[d].way /\ r.kinds = request[d].kinds
      /\ r.kind = request[d].kind
  BY <1>1 DEF Ended, RequestRows
<1> HIDE DEF r
<1> QED
  BY <1>1, <1>2 DEF RowIs, RequestsOK

LEMMA RowKind ==
    ASSUME KindInv, NEW d \in Deployments, request[d].at \in Running, NEW at, NEW from,
           RowIs(d, at, from)
    PROVE  KindInv'
BY DEF KindInv, RowIs, KindOf

LEMMA RowFresh ==
    ASSUME FreshInv, NEW d \in Deployments, request[d].at \in Running, NEW at, NEW from,
           RowIs(d, at, from), at # "none",
           at \in BeforeFetch(d) => request[d].at \in BeforeFetch(d),
           file' = file,
           \A k \in Kinds, way \in Ways : temp'[k][way] \in {temp[k][way], None}
    PROVE  FreshInv'
<1>1. \A e \in Deployments, k \in Kinds : Unfetched(e, k)' => Unfetched(e, k)
  BY DEF Unfetched, BeforeFetch, RowIs, KindOf
<1>2. \A e \in Deployments : e # None
  BY ModelConstants
<1>3. ASSUME NEW k \in Kinds, NEW way \in Ways, temp'[k][way] # None
      PROVE  /\ temp'[k][way] # file'[k]
             /\ \A other \in Ways \ {way} : temp'[k][other] # temp'[k][way]
  <2>1. temp'[k][way] = temp[k][way] /\ temp[k][way] # None
    BY <1>3
  <2>2. \A other \in Ways : temp'[k][other] \in {temp[k][other], None}
    OBVIOUS
  <2> QED
    BY <2>1, <2>2 DEF FreshInv
<1>4. ASSUME NEW e \in Deployments, NEW k \in Kinds, Unfetched(e, k)'
      PROVE  file'[k] # e /\ \A way \in Ways : temp'[k][way] # e
  <2>1. file[k] # e /\ \A way \in Ways : temp[k][way] # e
    BY <1>1, <1>4 DEF FreshInv
  <2>2. \A way \in Ways : temp'[k][way] \in {temp[k][way], None}
    OBVIOUS
  <2> QED
    BY <1>2, <2>1, <2>2
<1> QED
  BY <1>3, <1>4 DEF FreshInv

(* Whoever is calm is alone: a step of a request disturbs no other calm.   *)
LEMMA RowCalm ==
    ASSUME Calms, NEW d \in Deployments, request[d].at \in Running,
           \A e \in Deployments \ {d} : request'[e] = request[e],
           \A e \in Deployments \ {d} : calm'[e] \in {calm[e], None},
           CalmInv(d)'
    PROVE  \A e \in Deployments : CalmInv(e)'
<1> SUFFICES ASSUME NEW e \in Deployments, e # d PROVE CalmInv(e)'
  OBVIOUS
<1>1. calm[e] = None
  BY DEF Calms, CalmInv
<1>2. calm'[e] = None
  BY <1>1
<1> QED
  BY <1>2 DEF CalmInv

(* Of a step that goes on: the phase is all there is to show.              *)
LEMMA GoesOn ==
    ASSUME Calms, NEW d \in Deployments, request[d].at \in Running,
           NEW at \in Running, NEW from, RowIs(d, at, from),
           worker' = worker, calm' = calm,
           calm[d] # None /\ Phase(d) => Phase(d)'
    PROVE  \A e \in Deployments : CalmInv(e)'
<1>1. CalmInv(d)'
  <2> SUFFICES ASSUME calm[d] # None
               PROVE  /\ \A e \in Deployments \ {d} : request'[e].at \notin Running
                      /\ AllUp' /\ Phase(d)'
    BY DEF CalmInv, RowIs, Running, At
  <2>1. \A e \in Deployments \ {d} : request[e].at \notin Running
    BY DEF Calms, CalmInv
  <2>2. AllUp /\ Phase(d)
    BY DEF Calms, CalmInv
  <2> QED
    BY <2>1, <2>2 DEF RowIs, AllUp
<1> QED
  BY <1>1, RowCalm DEF RowIs

(* Of a step that ends without an answer to be held to.                    *)
LEMMA Gone ==
    ASSUME Calms, NEW d \in Deployments, request[d].at \in Running, NEW from,
           RowIs(d, "gone", from),
           \A e \in Deployments : calm'[e] \in {calm[e], None}
    PROVE  \A e \in Deployments : CalmInv(e)'
<1>1. CalmInv(d)'
  <2>1. calm[d] # None => \A e \in Deployments \ {d} : request[e].at \notin Running
    BY DEF Calms, CalmInv
  <2> QED
    BY <2>1 DEF CalmInv, RowIs, Running, At
<1> QED
  BY <1>1, RowCalm DEF RowIs

LEMMA InstalledSame ==
    ASSUME NEW k, file'[k] = file[k], content'[k] = content[k]
    PROVE  Installed(k)' = Installed(k)
BY DEF Installed

(* No other request is at a step of its own while d is calm.               *)
LEMMA Alone ==
    ASSUME Calms, NEW d \in Deployments, request[d].at \in Running, calm[d] # None
    PROVE  /\ \A e \in Deployments \ {d} : request[e].at \notin Running
           /\ AllUp /\ Phase(d)
BY DEF Calms, CalmInv

LEMMA CalmMay ==
    ASSUME RestOK, \/ calm' = calm
                   \/ calm' = Disturbed
                   \/ \E d \in Deployments : calm' = [calm EXCEPT ![d] = None]
    PROVE  \A e \in Deployments : calm'[e] \in {calm[e], None}
BY DEF RestOK, Disturbed

LEMMA TempMay ==
    ASSUME FilesOK, NEW k \in Kinds, NEW w \in Ways,
           temp' = temp \/ temp' = [temp EXCEPT ![k][w] = None]
    PROVE  \A j \in Kinds, way \in Ways : temp'[j][way] \in {temp[j][way], None}
BY DEF FilesOK

-----------------------------------------------------------------------------
(* The backup                                                              *)

LEMMA NoBackupCalm ==
    ASSUME IInv, Calms, NEW d \in Deployments, NoBackup(d) PROVE Calms'
<1> DEFINE at == AfterBackup(d)
           k == KindOf(d)
<1>0. RequestsOK /\ FilesOK /\ k \in Kinds /\ request[d].way \in Ways
  BY Parts, RequestFields DEF IInv
<1>1. /\ request[d].at = "backup" /\ request[d].at \in Running /\ file[k] = None
      /\ UNCHANGED <<file, temp, content, backup, export, worker, calm>>
  BY DEF NoBackup, Running, files
<1>2. RowIs(d, at, None)
  BY <1>0, GoesRow DEF NoBackup
<1>3. at \in Running /\ at # "none" /\ (at \in BeforeFetch(d) => request[d].at \in BeforeFetch(d))
      /\ \/ at = "fetch" /\ request[d].way = "pull"
         \/ at = "replace" /\ request[d].way = "upload"
  BY <1>0, <1>1 DEF AfterBackup, Running, BeforeFetch, Ways
<1> HIDE DEF at
<1>4. KindInv'
  BY <1>1, <1>2, RowKind DEF Calms
<1>5. FreshInv'
  BY <1>1, <1>2, <1>3, RowFresh DEF Calms
<1>6. ASSUME Phase(d) PROVE Phase(d)'
  <2>1. \A j : Installed(j)' = Installed(j)
    BY <1>1, InstalledSame
  <2>2. Untouched(d)'
    BY <1>1, <1>2, <1>3, <1>6, <2>1 DEF Phase, Untouched, RowIs, KindOf
  <2>3. Installed(k) = None
    BY <1>1 DEF Installed
  <2>4. Saved(d)'
    BY <1>0, <1>1, <1>2, <1>3, <1>6, <2>3 DEF Phase, Untouched, Saved, RowIs, KindOf
  <2>5. Fetched(d)' /\ Sourced(d)'
    BY <1>1, <1>2, <1>3, <1>6 DEF Phase, Fetched, HasFetched, TempOf, Sourced, RowIs, KindOf
  <2>6. DoneSoFar(d)'
    BY <1>1, <1>2, <1>3, <1>6, <2>1 DEF Phase, DoneSoFar, Whole, RowIs, KindOf
  <2> QED
    BY <2>2, <2>4, <2>5, <2>6 DEF Phase
<1> QED
  BY <1>1, <1>2, <1>3, <1>4, <1>5, <1>6, GoesOn DEF Calms

LEMMA BeginBackupCalm ==
    ASSUME IInv, Calms, NEW d \in Deployments, BeginBackup(d) PROVE Calms'
<1> DEFINE k == KindOf(d)
<1>0. RequestsOK /\ FilesOK /\ k \in Kinds /\ request[d].way \in Ways
  BY Parts, RequestFields DEF IInv
<1>1. /\ request[d].at = "backup" /\ request[d].at \in Running
      /\ UNCHANGED <<file, temp, content, export, worker, calm>>
  BY DEF BeginBackup, Running
<1>2. RowIs(d, "copying", file[k])
  BY <1>0, OpensRow DEF BeginBackup
<1>3. "copying" \in Running /\ ("copying" \in BeforeFetch(d) => request[d].at \in BeforeFetch(d))
  BY <1>1 DEF Running, BeforeFetch
<1>4. KindInv'
  BY <1>1, <1>2, RowKind DEF Calms
<1>5. FreshInv'
  BY <1>1, <1>2, <1>3, RowFresh DEF Calms
<1>6. ASSUME Phase(d) PROVE Phase(d)'
  <2>1. \A j : Installed(j)' = Installed(j)
    BY <1>1, InstalledSame
  <2>2. Untouched(d)'
    BY <1>1, <1>2, <1>6, <2>1 DEF Phase, Untouched, RowIs, KindOf
  <2>3. Fetched(d)' /\ Sourced(d)' /\ Saved(d)'
    BY <1>1, <1>2, <1>6 DEF Phase, Fetched, HasFetched, TempOf, Sourced, Saved, RowIs, KindOf
  <2>4. DoneSoFar(d)'
    BY <1>1, <1>2, <1>6, <2>1 DEF Phase, DoneSoFar, Whole, RowIs, KindOf
  <2> QED
    BY <2>2, <2>3, <2>4 DEF Phase
<1> QED
  BY <1>1, <1>2, <1>3, <1>4, <1>5, <1>6, GoesOn DEF Calms

LEMMA EndBackupCalm ==
    ASSUME IInv, Calms, NEW d \in Deployments, EndBackup(d) PROVE Calms'
<1> DEFINE at == AfterBackup(d)
           k == KindOf(d)
<1>0. RequestsOK /\ FilesOK /\ k \in Kinds /\ request[d].way \in Ways
  BY Parts, RequestFields DEF IInv
<1>1. /\ request[d].at = "copying" /\ request[d].at \in Running
      /\ UNCHANGED <<file, temp, content, export, worker, calm>>
  BY DEF EndBackup, Running
<1>2. RowIs(d, at, None)
  BY <1>0, GoesRow DEF EndBackup
<1>3. at \in Running /\ at # "none" /\ (at \in BeforeFetch(d) => request[d].at \in BeforeFetch(d))
      /\ \/ at = "fetch" /\ request[d].way = "pull"
         \/ at = "replace" /\ request[d].way = "upload"
  BY <1>0, <1>1 DEF AfterBackup, Running, BeforeFetch, Ways
<1> HIDE DEF at
<1>4. KindInv'
  BY <1>1, <1>2, RowKind DEF Calms
<1>5. FreshInv'
  BY <1>1, <1>2, <1>3, RowFresh DEF Calms
<1>6. ASSUME calm[d] # None, Phase(d) PROVE Phase(d)'
  <2>1. \A j : Installed(j)' = Installed(j)
    BY <1>1, InstalledSame
  <2>2. Untouched(d)'
    BY <1>1, <1>2, <1>3, <1>6, <2>1 DEF Phase, Untouched, RowIs, KindOf
  <2>3. backup'[k] = Installed(k)
    <3>1. {e \in Deployments \ {d} : request[e].at = "copying" /\ KindOf(e) = k} = {}
      BY <1>1, <1>6, Alone DEF Running
    <3>2. request[d].from = file[k] /\ file[k] # None
      <4>1. request[d].from # None
        BY <1>1, Parts DEF IInv, RequestsOK, Copying
      <4> QED
        BY <1>1, <1>6, <4>1 DEF Phase, Sourced
    <3>3. backup' = [backup EXCEPT ![k] = content[k][request[d].from]]
      BY <3>1 DEF EndBackup
    <3> QED
      BY <1>0, <3>2, <3>3 DEF FilesOK, Installed
  <2>4. Saved(d)'
    BY <1>0, <1>1, <1>2, <1>3, <1>6, <2>3 DEF Phase, Untouched, Saved, RowIs, KindOf
  <2>5. Fetched(d)' /\ Sourced(d)'
    BY <1>1, <1>2, <1>3, <1>6 DEF Phase, Fetched, HasFetched, TempOf, Sourced, RowIs, KindOf
  <2>6. DoneSoFar(d)'
    BY <1>1, <1>2, <1>3, <1>6, <2>1 DEF Phase, DoneSoFar, Whole, RowIs, KindOf
  <2> QED
    BY <2>2, <2>4, <2>5, <2>6 DEF Phase
<1> QED
  BY <1>1, <1>2, <1>3, <1>4, <1>5, <1>6, GoesOn DEF Calms

LEMMA BackupErrorCalm ==
    ASSUME IInv, Calms, NEW d \in Deployments, BackupError(d) PROVE Calms'
<1> DEFINE k == KindOf(d)
<1>0. RequestsOK /\ FilesOK /\ RestOK /\ k \in Kinds /\ request[d].way \in Ways
  BY Parts, RequestFields DEF IInv
<1>1. /\ request[d].at \in {"backup", "copying"} /\ request[d].at \in Running
      /\ calm' = [calm EXCEPT ![d] = None] /\ UNCHANGED file
  BY DEF BackupError, Running
<1>2. PICK at \in {"fetch", "gone"} : RowIs(d, at, None) /\ (at = "fetch" => request[d].way = "pull")
  BY <1>0, GoesRow, EndsRow DEF BackupError
<1>3. temp' = temp \/ temp' = [temp EXCEPT ![k]["upload"] = None]
  BY DEF BackupError
<1>4. \A j \in Kinds, way \in Ways : temp'[j][way] \in {temp[j][way], None}
  BY <1>0, <1>3, TempMay DEF Ways
<1>5. at \in BeforeFetch(d) => request[d].at \in BeforeFetch(d)
  BY <1>1, <1>2 DEF BeforeFetch
<1>6. KindInv' /\ FreshInv'
  BY <1>1, <1>2, <1>4, <1>5, RowKind, RowFresh DEF Calms
<1>7. calm'[d] = None /\ \A e \in Deployments : calm'[e] \in {calm[e], None}
  BY <1>0, <1>1, CalmMay DEF RestOK
<1>8. CalmInv(d)'
  BY <1>7 DEF CalmInv
<1> QED
  BY <1>1, <1>2, <1>6, <1>7, <1>8, RowCalm DEF Calms, RowIs

-----------------------------------------------------------------------------
(* The fetch                                                               *)

LEMMA BeginFetchCalm ==
    ASSUME IInv, Calms, NEW d \in Deployments, BeginFetch(d) PROVE Calms'
<1> DEFINE k == KindOf(d)
           way == request[d].way
           inode == IF temp[k][way] = None THEN d ELSE temp[k][way]
<1>0. RequestsOK /\ FilesOK /\ k \in Kinds /\ way \in Ways
  BY Parts, RequestFields DEF IInv
<1>1. /\ request[d].at = "fetch" /\ request[d].at \in Running
      /\ temp' = [temp EXCEPT ![k][way] = inode]
      /\ UNCHANGED <<file, backup, export, worker, calm>>
  BY DEF BeginFetch, Running
<1>2. inode \in Inodes /\ inode # None
  BY <1>0, Distinct DEF FilesOK
<1>3. Unfetched(d, k)
  BY <1>0, <1>1 DEF Unfetched, BeforeFetch
<1>4. inode # file[k] /\ \A other \in Ways \ {way} : temp[k][other] # inode
  BY <1>0, <1>3 DEF Calms, FreshInv
<1>5. \A e \in Deployments, j \in Kinds : e # d /\ Unfetched(e, j) /\ j = k => inode # e
  BY <1>0 DEF Calms, FreshInv
<1>6. RowIs(d, "writing", inode)
  BY <1>0, OpensRow DEF BeginFetch
<1>7. /\ temp'[k][way] = inode
      /\ \A j \in Kinds, w \in Ways : j # k \/ w # way => temp'[j][w] = temp[j][w]
  BY <1>0, <1>1 DEF FilesOK
<1>8. PICK c \in Contents : content' = [content EXCEPT ![k][inode] = c]
  BY Distinct DEF BeginFetch
<1>b. ASSUME calm[d] # None
      PROVE  content'[k][inode] = Torn
  <2>1. {e \in Deployments : request[e].at = "writing" /\ KindOf(e) = k
                             /\ request[e].from = inode} = {}
    BY <1>1, <1>b, Alone DEF Running
  <2>2. content' = [content EXCEPT ![k][inode] = Torn]
    BY <2>1 DEF BeginFetch
  <2> HIDE DEF inode
  <2>3. content[k] \in [Inodes -> Contents]
    BY <1>0 DEF FilesOK
  <2>4. content'[k] = [content[k] EXCEPT ![inode] = Torn]
    BY <1>0, <2>2 DEF FilesOK
  <2> QED
    BY <1>2, <2>3, <2>4
<1>c. \A j \in Kinds : Installed(j)' = Installed(j)
  BY <1>0, <1>1, <1>2, <1>4, <1>8 DEF FilesOK, Installed
<1> HIDE DEF inode
<1>9. FreshInv'
  <2>1. \A e \in Deployments, j \in Kinds : Unfetched(e, j)' => Unfetched(e, j) /\ ~(e = d /\ j = k)
    BY <1>0, <1>1, <1>6 DEF Unfetched, BeforeFetch, RowIs, KindOf, Running
  <2>2. ASSUME NEW j \in Kinds, NEW w \in Ways, temp'[j][w] # None
        PROVE  /\ temp'[j][w] # file'[j]
               /\ \A other \in Ways \ {w} : temp'[j][other] # temp'[j][w]
    <3>1. CASE j = k
      BY <1>0, <1>1, <1>4, <1>7, <2>2, <3>1 DEF Calms, FreshInv
    <3>2. CASE j # k
      BY <1>1, <1>7, <2>2, <3>2 DEF Calms, FreshInv
    <3> QED
      BY <3>1, <3>2
  <2>3. ASSUME NEW e \in Deployments, NEW j \in Kinds, Unfetched(e, j)'
        PROVE  file'[j] # e /\ \A w \in Ways : temp'[j][w] # e
    <3>1. Unfetched(e, j) /\ ~(e = d /\ j = k)
      BY <2>1, <2>3
    <3>2. file[j] # e /\ \A w \in Ways : temp[j][w] # e
      BY <3>1 DEF Calms, FreshInv
    <3> QED
      BY <1>1, <1>5, <1>7, <3>1, <3>2
  <2> QED
    BY <2>2, <2>3 DEF FreshInv
<1>10. ASSUME calm[d] # None, Phase(d) PROVE Phase(d)'
  <2>1. Untouched(d)'
    BY <1>1, <1>6, <1>10, <1>c DEF Phase, Untouched, RowIs, KindOf
  <2>2. Fetched(d)'
    BY <1>2, <1>6, <1>7, <1>10, <1>b DEF Fetched, HasFetched, TempOf, RowIs, KindOf
  <2>3. Saved(d)' /\ Sourced(d)'
    BY <1>1, <1>6, <1>10 DEF Phase, Saved, Sourced, RowIs, KindOf
  <2>4. DoneSoFar(d)'
    BY <1>1, <1>6, <1>10, <1>c DEF Phase, DoneSoFar, Whole, RowIs, KindOf, Kinds
  <2> QED
    BY <2>1, <2>2, <2>3, <2>4 DEF Phase
<1>11. KindInv' /\ "writing" \in Running
  BY <1>1, <1>6, RowKind DEF Calms, Running
<1> QED
  BY <1>1, <1>6, <1>9, <1>10, <1>11, GoesOn DEF Calms

LEMMA EndFetchCalm ==
    ASSUME IInv, Calms, NEW d \in Deployments, EndFetch(d) PROVE Calms'
<1> DEFINE k == KindOf(d)
           way == request[d].way
           inode == request[d].from
           at == IF way = "pull" THEN "replace" ELSE "backup"
<1>0. /\ RequestsOK /\ FilesOK /\ RestOK /\ k \in Kinds /\ way \in Ways
      /\ inode \in Inodes \cup {None}
  BY Parts, RequestFields DEF IInv
<1>1. /\ request[d].at = "writing" /\ request[d].at \in Running
      /\ UNCHANGED <<file, temp, backup, export, worker>>
  BY DEF EndFetch, Running
<1>2. RowIs(d, at, None)
  BY <1>0, GoesRow DEF EndFetch
<1>3. PICK c \in {d, Torn} :
         /\ content' = [content EXCEPT ![k][inode] = IF @ = Mixed THEN Mixed ELSE c]
         /\ calm' = IF c = Torn THEN [calm EXCEPT ![d] = None] ELSE calm
  BY DEF EndFetch
<1>4. \A e \in Deployments : calm'[e] \in {calm[e], None}
  BY <1>0, <1>3, CalmMay
<1>5. KindInv'
  BY <1>1, <1>2, RowKind DEF Calms
<1>6. /\ at \in Running /\ at # "none" /\ at \notin BeforeFetch(d)
      /\ \/ at = "replace" /\ way = "pull"
         \/ at = "backup" /\ way = "upload"
  BY <1>0 DEF Running, BeforeFetch, Ways
<1> HIDE DEF at
<1>7. FreshInv'
  BY <1>1, <1>2, <1>6, RowFresh DEF Calms
<1>8. CASE c = Torn
  <2>1. CalmInv(d)'
    BY <1>0, <1>3, <1>8 DEF CalmInv, RestOK
  <2> QED
    BY <1>1, <1>2, <1>4, <1>5, <1>7, <2>1, RowCalm DEF Calms, RowIs
<1>9. CASE c # Torn
  <2>0. c = d /\ calm' = calm
    BY <1>3, <1>9
  <2>1. ASSUME calm[d] # None, Phase(d) PROVE Phase(d)'
    <3>1. TempOf(d) # None /\ content[k][TempOf(d)] = Torn /\ inode = TempOf(d)
      BY <1>1, <2>1 DEF Phase, Fetched
    <3>2. TempOf(d) # file[k]
      BY <1>0, <3>1 DEF TempOf, Calms, FreshInv
    <3>3. content' = [content EXCEPT ![k][inode] = d]
      BY <1>3, <2>0, <3>1, ModelConstants
    <3>4. content'[k][TempOf(d)] = d
      BY <1>0, <3>1, <3>3 DEF FilesOK
    <3>5. \A j \in Kinds : Installed(j)' = Installed(j)
      BY <1>0, <1>1, <3>1, <3>2, <3>3 DEF FilesOK, Installed
    <3>6. Untouched(d)'
      BY <1>1, <1>2, <1>6, <2>0, <2>1, <3>5 DEF Phase, Untouched, RowIs, KindOf
    <3>7. TempOf(d)' = TempOf(d) /\ KindOf(d)' = k
      BY <1>1, <1>2 DEF TempOf, RowIs, KindOf
    <3>8. Fetched(d)'
      BY <1>2, <1>6, <3>1, <3>4, <3>7 DEF Fetched, RowIs
    <3>9. Saved(d)' /\ Sourced(d)'
      BY <1>1, <1>2, <1>6, <2>0, <2>1 DEF Phase, Saved, Sourced, RowIs, KindOf
    <3>10. DoneSoFar(d)'
      BY <1>1, <1>2, <1>6, <2>1, <3>5 DEF Phase, DoneSoFar, Whole, RowIs, KindOf, Kinds
    <3> QED
      BY <3>6, <3>8, <3>9, <3>10 DEF Phase
  <2> QED
    BY <1>1, <1>2, <1>5, <1>6, <1>7, <2>0, <2>1, GoesOn DEF Calms
<1> QED
  BY <1>8, <1>9

(* Of a step to the rollback: the .backup is all it needs.                 *)
LEMMA ToRestore ==
    ASSUME IInv, Calms, NEW d \in Deployments,
           request[d].at \in {"fetch", "writing", "replace", "clear"},
           request[d].way = "pull", RowIs(d, "restore", None),
           UNCHANGED <<file, temp, content, backup, worker, calm>>,
           \A j \in Kinds \ {KindOf(d)} : export'[j] = export[j]
    PROVE  Calms'
<1>1. request[d].at \in Running /\ "restore" \in Running /\ "restore" \notin BeforeFetch(d)
  BY DEF Running, BeforeFetch
<1>2. KindInv' /\ FreshInv'
  BY <1>1, RowKind, RowFresh DEF Calms
<1>3. ASSUME Phase(d) PROVE Phase(d)'
  <2>1. \A j : Installed(j)' = Installed(j)
    BY InstalledSame
  <2>2. Untouched(d)'
    BY <1>3, <2>1 DEF Phase, Untouched, RowIs, KindOf
  <2>3. Fetched(d)' /\ Saved(d)' /\ Sourced(d)'
    BY <1>3 DEF Phase, Fetched, HasFetched, Saved, Sourced, RowIs, KindOf
  <2>4. DoneSoFar(d)'
    BY <1>3, <2>1 DEF Phase, DoneSoFar, Whole, RowIs, KindOf, Kinds
  <2> QED
    BY <2>2, <2>3, <2>4 DEF Phase
<1> QED
  BY <1>1, <1>2, <1>3, GoesOn DEF Calms

(* Of a step that gives up.                                                *)
LEMMA ToGone ==
    ASSUME IInv, Calms, NEW d \in Deployments, request[d].at \in Running,
           RowIs(d, "gone", None), UNCHANGED <<file, calm>>,
           \A j \in Kinds, way \in Ways : temp'[j][way] \in {temp[j][way], None}
    PROVE  Calms'
<1>1. "gone" \notin BeforeFetch(d)
  BY DEF BeforeFetch
<1>2. KindInv' /\ FreshInv'
  BY <1>1, RowKind, RowFresh DEF Calms
<1>3. \A e \in Deployments : CalmInv(e)'
  BY Gone
<1> QED
  BY <1>2, <1>3 DEF Calms

LEMMA FetchErrorCalm ==
    ASSUME IInv, Calms, NEW d \in Deployments, FetchError(d) PROVE Calms'
<1>0. RequestsOK /\ FilesOK /\ KindOf(d) \in Kinds
  BY Parts, RequestFields DEF IInv
<1>1. request[d].at \in {"fetch", "writing"} /\ UNCHANGED <<file, content, backup, export, worker, calm>>
  BY DEF FetchError
<1>2. CASE request[d].way = "pull"
  <2>1. RowIs(d, "restore", None) /\ temp' = temp
    BY <1>0, <1>2, GoesRow DEF FetchError
  <2> QED
    BY <1>1, <1>2, <2>1, ToRestore
<1>3. CASE request[d].way # "pull"
  <2>1. RowIs(d, "gone", None) /\ temp' = [temp EXCEPT ![KindOf(d)]["upload"] = None]
    BY <1>0, <1>3, EndsRow DEF FetchError
  <2>2. \A j \in Kinds, way \in Ways : temp'[j][way] \in {temp[j][way], None}
    BY <1>0, <2>1, TempMay DEF Ways
  <2>3. request[d].at \in Running
    BY <1>1 DEF Running
  <2> QED
    BY <1>1, <2>1, <2>2, <2>3, ToGone
<1> QED
  BY <1>2, <1>3

-----------------------------------------------------------------------------
(* The installation                                                        *)

LEMMA ReplaceCalm ==
    ASSUME IInv, Calms, NEW d \in Deployments, Replace(d) PROVE Calms'
<1> DEFINE k == KindOf(d)
           way == request[d].way
<1>0. RequestsOK /\ FilesOK /\ k \in Kinds /\ way \in Ways
  BY Parts, RequestFields DEF IInv
<1>1. /\ request[d].at = "replace" /\ request[d].at \in Running /\ TempOf(d) # None
      /\ file' = [file EXCEPT ![k] = temp[k][way]]
      /\ temp' = [temp EXCEPT ![k][way] = None]
      /\ UNCHANGED <<content, backup, export, worker, calm>>
  BY DEF Replace, Running, TempOf
<1>2. RowIs(d, "clear", None)
  BY <1>0, GoesRow DEF Replace
<1>3. /\ file'[k] = temp[k][way] /\ \A j \in Kinds \ {k} : file'[j] = file[j]
      /\ temp'[k][way] = None
      /\ \A j \in Kinds, w \in Ways : j # k \/ w # way => temp'[j][w] = temp[j][w]
  BY <1>0, <1>1 DEF FilesOK
<1>4. KindInv' /\ "clear" \in Running
  BY <1>1, <1>2, RowKind DEF Calms, Running
<1>5. FreshInv'
  <2>1. \A e \in Deployments, j \in Kinds : Unfetched(e, j)' => Unfetched(e, j)
    BY <1>1, <1>2 DEF Unfetched, BeforeFetch, RowIs, KindOf
  <2>2. ASSUME NEW j \in Kinds, NEW w \in Ways, temp'[j][w] # None
        PROVE  /\ temp'[j][w] # file'[j]
               /\ \A other \in Ways \ {w} : temp'[j][other] # temp'[j][w]
    <3>1. CASE j = k
      <4>1. w # way /\ temp'[k][w] = temp[k][w] /\ temp[k][w] # None
        BY <1>3, <2>2, <3>1
      <4>2. \A other \in Ways \ {w} : temp[k][other] # temp[k][w]
        BY <1>0, <4>1 DEF Calms, FreshInv
      <4>3. temp[k][way] # temp[k][w]
        BY <1>0, <4>1, <4>2
      <4>4. ASSUME NEW other \in Ways \ {w} PROVE temp'[k][other] # temp[k][w]
        <5>1. CASE other = way
          BY <1>3, <4>1, <5>1
        <5>2. CASE other # way
          BY <1>0, <1>3, <4>2, <5>2
        <5> QED
          BY <5>1, <5>2
      <4> QED
        BY <1>3, <3>1, <4>1, <4>3, <4>4
    <3>2. CASE j # k
      BY <1>3, <2>2, <3>2 DEF Calms, FreshInv
    <3> QED
      BY <3>1, <3>2
  <2>3. ASSUME NEW e \in Deployments, NEW j \in Kinds, Unfetched(e, j)'
        PROVE  file'[j] # e /\ \A w \in Ways : temp'[j][w] # e
    <3>1. file[j] # e /\ (\A w \in Ways : temp[j][w] # e) /\ e # None
      BY <2>1, <2>3, ModelConstants DEF Calms, FreshInv
    <3> QED
      BY <1>0, <1>3, <3>1
  <2> QED
    BY <2>2, <2>3 DEF FreshInv
<1>6. ASSUME Phase(d) PROVE Phase(d)'
  <2>1. content[k][temp[k][way]] = d
    BY <1>1, <1>6 DEF Phase, Fetched, HasFetched, TempOf
  <2>0. temp[k][way] # None /\ content' = content
    BY <1>1 DEF TempOf
  <2>a. Installed(k)' = d
    BY <1>2, <1>3, <2>0, <2>1 DEF Installed, RowIs, KindOf
  <2>b. \A j \in Kinds \ {k} : Installed(j)' = Installed(j)
    BY <1>3, <2>0 DEF Installed
  <2>2. Installed(k)' = d /\ \A j \in Kinds \ {k} : Installed(j)' = Installed(j)
    BY <2>a, <2>b
  <2>3. Untouched(d)'
    BY <1>1, <1>2, <1>6, <2>2 DEF Phase, Untouched, RowIs, KindOf
  <2>4. Fetched(d)' /\ Saved(d)' /\ Sourced(d)'
    BY <1>1, <1>2, <1>6 DEF Phase, Fetched, HasFetched, Saved, Sourced, RowIs, KindOf
  <2>5. DoneSoFar(d)'
    BY <1>1, <1>2, <1>6, <2>2 DEF Phase, DoneSoFar, Whole, RowIs, KindOf, Kinds
  <2> QED
    BY <2>3, <2>4, <2>5 DEF Phase
<1> QED
  BY <1>1, <1>2, <1>4, <1>5, <1>6, GoesOn DEF Calms

LEMMA ReplaceErrorCalm ==
    ASSUME IInv, Calms, NEW d \in Deployments, ReplaceError(d) PROVE Calms'
<1>0. RequestsOK
  BY Parts DEF IInv
<1>1. request[d].at = "replace" /\ UNCHANGED <<file, temp, content, backup, export, worker, calm>>
  BY DEF ReplaceError, files
<1>2. CASE request[d].way = "pull"
  <2>1. RowIs(d, "restore", None)
    BY <1>0, <1>2, GoesRow DEF ReplaceError
  <2> QED
    BY <1>1, <1>2, <2>1, ToRestore
<1>3. CASE request[d].way # "pull"
  <2>1. RowIs(d, "gone", None) /\ request[d].at \in Running
    BY <1>0, <1>1, <1>3, EndsRow DEF ReplaceError, Running
  <2> QED
    BY <1>1, <2>1, ToGone
<1> QED
  BY <1>2, <1>3

LEMMA RefuseHostCalm ==
    ASSUME IInv, Calms, NEW d \in Deployments, RefuseHost(d) PROVE Calms'
<1>1. RowIs(d, "gone", None) /\ request[d].at \in Running
  BY Parts, EndsRow DEF IInv, RefuseHost, At, Running
<1> QED
  BY <1>1, ToGone DEF RefuseHost, files

LEMMA ClearErrorCalm ==
    ASSUME IInv, Calms, NEW d \in Deployments, ClearError(d) PROVE Calms'
<1>0. RequestsOK /\ FilesOK
  BY Parts DEF IInv
<1>1. /\ request[d].at = "clear" /\ export' = [export EXCEPT ![KindOf(d)] = Torn]
      /\ UNCHANGED <<file, temp, content, backup, worker, calm>>
  BY DEF ClearError
<1>2. \A j \in Kinds \ {KindOf(d)} : export'[j] = export[j]
  BY <1>0, <1>1 DEF FilesOK
<1>3. CASE request[d].way = "pull"
  <2>1. RowIs(d, "restore", None)
    BY <1>0, <1>3, GoesRow DEF ClearError
  <2> QED
    BY <1>1, <1>2, <1>3, <2>1, ToRestore
<1>4. CASE request[d].way # "pull"
  <2>1. RowIs(d, "gone", None) /\ request[d].at \in Running
    BY <1>0, <1>1, <1>4, EndsRow DEF ClearError, Running
  <2> QED
    BY <1>1, <2>1, ToGone
<1> QED
  BY <1>3, <1>4

(* The export of the kind is gone: the next kind, or the answer.           *)
LEMMA ClearExportCalm ==
    ASSUME IInv, Calms, NEW d \in Deployments, ClearExport(d) PROVE Calms'
<1> DEFINE k == KindOf(d)
<1>0. RequestsOK /\ FilesOK /\ k \in Kinds /\ request[d].way \in Ways /\ request[d].kinds \subseteq Kinds
  BY Parts, RequestFields DEF IInv
<1>1. /\ request[d].at = "clear" /\ request[d].at \in Running
      /\ export' = [export EXCEPT ![k] = None] /\ Proceeds(d)
      /\ UNCHANGED <<file, temp, content, backup, calm>>
  BY DEF ClearExport, Running
<1>2. export'[k] = None /\ \A j \in Kinds \ {k} : export'[j] = export[j]
  BY <1>0, <1>1 DEF FilesOK
<1>3. \A j : Installed(j)' = Installed(j)
  BY <1>1, InstalledSame
<1>4. k \in request[d].kinds
  BY <1>1 DEF Calms, KindInv
<1>5. CASE k = "detection" /\ request[d].kinds # {"detection"}
  <2> DEFINE r == [request[d] EXCEPT !.at = "backup", !.kind = "segmentation"]
  <2>1. request' = [request EXCEPT ![d] = r] /\ worker' = worker
    BY <1>1, <1>5 DEF Proceeds
  <2>2. /\ r.at = "backup" /\ r.kind = "segmentation"
        /\ r.way = request[d].way /\ r.kinds = request[d].kinds
    BY <1>0 DEF RequestsOK, RequestRows
  <2> HIDE DEF r
  <2>3. request'[d] = r /\ \A e \in Deployments \ {d} : request'[e] = request[e]
    BY <1>0, <2>1 DEF RequestsOK
  <2>4. "segmentation" \in request[d].kinds /\ request[d].way = "pull"
    <3>1. "segmentation" \in request[d].kinds
      BY <1>0, <1>4, <1>5 DEF Kinds
    <3>2. request[d].way # "upload"
      BY <1>4, <1>5, <3>1 DEF Calms, KindInv
    <3> QED
      BY <1>0, <3>1, <3>2 DEF Ways
  <2>5. KindInv'
    BY <2>2, <2>3, <2>4 DEF Calms, KindInv, KindOf
  <2>6. FreshInv'
    <3>1. \A e \in Deployments, j \in Kinds : Unfetched(e, j)' => Unfetched(e, j)
      BY <1>1, <1>5, <2>2, <2>3 DEF Unfetched, BeforeFetch, KindOf
    <3> QED
      BY <1>1, <3>1 DEF Calms, FreshInv
  <2>7. CalmInv(d)'
    <3> SUFFICES ASSUME calm[d] # None
                 PROVE  /\ \A e \in Deployments \ {d} : request'[e].at \notin Running
                        /\ AllUp' /\ Phase(d)'
      BY <1>1, <2>2, <2>3 DEF CalmInv, Running, At
    <3>1. (\A e \in Deployments \ {d} : request[e].at \notin Running) /\ AllUp /\ Phase(d)
      BY <1>1, Alone
    <3>2. Installed("segmentation")' = calm'[d]["segmentation"] /\ Installed("detection")' = d
      BY <1>1, <1>3, <1>5, <3>1 DEF Phase, Untouched, DoneSoFar, Kinds
    <3>3. Untouched(d)'
      BY <2>2, <2>3, <3>2 DEF Untouched, KindOf
    <3>4. Fetched(d)' /\ Saved(d)' /\ Sourced(d)'
      BY <2>2, <2>3, <2>4 DEF Fetched, HasFetched, Saved, Sourced
    <3>5. DoneSoFar(d)'
      BY <1>2, <1>5, <2>2, <2>3, <3>2 DEF DoneSoFar, Whole
    <3> QED
      BY <2>1, <2>3, <3>1, <3>3, <3>4, <3>5 DEF AllUp, Phase
  <2> QED
    BY <1>1, <2>3, <2>5, <2>6, <2>7, RowCalm DEF Calms
<1>6. CASE ~(k = "detection" /\ request[d].kinds # {"detection"})
  <2>1. RowIs(d, "accepted", None) /\ "accepted" \notin BeforeFetch(d) /\ "accepted" \notin Running
    BY <1>0, <1>1, <1>6, EndsRow DEF Proceeds, BeforeFetch, Running
  <2>2. KindInv' /\ FreshInv'
    BY <1>1, <2>1, RowKind, RowFresh DEF Calms
  <2>3. CalmInv(d)'
    <3> SUFFICES ASSUME calm[d] # None
                 PROVE  /\ \A e \in Deployments \ {d} : request'[e].at \notin Running
                        /\ Served(d)'
      BY <1>1, <2>1 DEF CalmInv, RowIs, At
    <3>1. (\A e \in Deployments \ {d} : request[e].at \notin Running) /\ AllUp /\ Phase(d)
      BY <1>1, Alone
    <3>2. \A w \in Workers : worker'[w].at = worker[w].at
      <4>1. worker' = [worker EXCEPT ![request[d].worker].restart = TRUE]
        BY <1>1, <1>6 DEF Proceeds
      <4> QED
        BY <4>1, Parts DEF IInv, WorkersOK, WorkerRows
    <3>3. \A j : Exporters(j)' = {}
      BY <3>1, <3>2 DEF AllUp, Exporters
    <3>4. ASSUME NEW j \in request[d].kinds, j = k PROVE Whole(d, j)'
      <4>1. Installed(j) = d
        BY <1>1, <3>1, <3>4 DEF Phase, DoneSoFar
      <4>2. Installed(j)' = d /\ export'[j] = None
        BY <1>2, <1>3, <3>4, <4>1
      <4> QED
        BY <4>2 DEF Whole
    <3>5. ASSUME NEW j \in request[d].kinds, j # k PROVE Whole(d, j)'
      <4>1. j = "detection" /\ k = "segmentation"
        BY <1>0, <1>4, <1>6, <3>5 DEF Kinds
      <4>2. Whole(d, "detection")
        BY <3>1, <3>5, <4>1 DEF Phase, DoneSoFar
      <4> QED
        BY <1>2, <1>3, <4>1, <4>2 DEF Whole, Kinds
    <3>6. Served(d)'
      <4>1. request'[d].kinds = request[d].kinds
        BY <2>1 DEF RowIs
      <4>2. \A j \in request[d].kinds : Whole(d, j)'
        BY <3>4, <3>5
      <4> QED
        BY <3>3, <4>1, <4>2 DEF Served
    <3> QED
      BY <2>1, <3>1, <3>6 DEF RowIs
  <2> QED
    BY <1>1, <2>1, <2>2, <2>3, RowCalm DEF Calms, RowIs
<1> QED
  BY <1>5, <1>6

-----------------------------------------------------------------------------
(* The rollback                                                            *)

LEMMA NoRestoreCalm ==
    ASSUME IInv, Calms, NEW d \in Deployments, NoRestore(d) PROVE Calms'
<1> DEFINE k == KindOf(d)
<1>0. RequestsOK /\ FilesOK /\ k \in Kinds
  BY Parts, RequestFields DEF IInv
<1>1. /\ request[d].at = "restore" /\ request[d].at \in Running /\ backup[k] = None
      /\ temp' = [temp EXCEPT ![k]["pull"] = None]
      /\ UNCHANGED <<file, content, backup, export, worker, calm>>
  BY DEF NoRestore, Running
<1>2. RowIs(d, "failed", None) /\ "failed" \notin BeforeFetch(d) /\ "failed" \notin Running
  BY <1>0, EndsRow DEF NoRestore, BeforeFetch, Running
<1>3. \A j \in Kinds, way \in Ways : temp'[j][way] \in {temp[j][way], None}
  BY <1>0, <1>1, TempMay DEF Ways
<1>4. KindInv' /\ FreshInv'
  BY <1>1, <1>2, <1>3, RowKind, RowFresh DEF Calms
<1>5. CalmInv(d)'
  <2> SUFFICES ASSUME calm[d] # None
               PROVE  /\ \A e \in Deployments \ {d} : request'[e].at \notin Running
                      /\ request[d].way = "pull" => calm'[d][KindOf(d)'] = None
    BY <1>1, <1>2 DEF CalmInv, RowIs, At
  <2>1. (\A e \in Deployments \ {d} : request[e].at \notin Running) /\ Phase(d)
    BY <1>1, Alone
  <2>2. request[d].way = "pull" => calm[d][k] = None
    BY <1>1, <2>1 DEF Phase, Saved
  <2> QED
    BY <1>1, <1>2, <2>1, <2>2 DEF RowIs, KindOf
<1> QED
  BY <1>1, <1>2, <1>4, <1>5, RowCalm DEF Calms, RowIs

LEMMA BeginRestoreCalm ==
    ASSUME IInv, Calms, NEW d \in Deployments, BeginRestore(d) PROVE Calms'
<1> DEFINE k == KindOf(d)
<1>0. RequestsOK /\ FilesOK /\ k \in Kinds
  BY Parts, RequestFields DEF IInv
<1>1. /\ request[d].at = "restore" /\ request[d].at \in Running
      /\ content' = [content EXCEPT ![k][file[k]] = Torn]
      /\ UNCHANGED <<file, temp, backup, export, worker, calm>>
  BY DEF BeginRestore, Running
<1>2. /\ RowIs(d, "restoring", file[k]) /\ "restoring" \in Running
      /\ "restoring" \notin BeforeFetch(d)
  BY <1>0, OpensRow DEF BeginRestore, Running, BeforeFetch
<1>3. KindInv' /\ FreshInv'
  BY <1>1, <1>2, RowKind, RowFresh DEF Calms
<1>4. ASSUME Phase(d) PROVE Phase(d)'
  <2>1. \A j \in Kinds \ {k} : Installed(j)' = Installed(j)
    BY <1>0, <1>1 DEF FilesOK, Installed
  <2>2. Untouched(d)'
    BY <1>1, <1>2, <1>4, <2>1 DEF Phase, Untouched, RowIs, KindOf
  <2>3. Fetched(d)' /\ Saved(d)' /\ Sourced(d)'
    BY <1>1, <1>2, <1>4 DEF Phase, Fetched, HasFetched, Saved, Sourced, RowIs, KindOf
  <2>4. DoneSoFar(d)'
    BY <1>1, <1>2, <1>4, <2>1 DEF Phase, DoneSoFar, Whole, RowIs, KindOf, Kinds
  <2> QED
    BY <2>2, <2>3, <2>4 DEF Phase
<1> QED
  BY <1>1, <1>2, <1>3, <1>4, GoesOn DEF Calms

LEMMA EndRestoreCalm ==
    ASSUME IInv, Calms, NEW d \in Deployments, EndRestore(d) PROVE Calms'
<1> DEFINE k == KindOf(d)
           inode == request[d].from
<1>0. RequestsOK /\ FilesOK /\ k \in Kinds /\ inode \in Inodes \cup {None}
  BY Parts, RequestFields DEF IInv
<1>1. /\ request[d].at = "restoring" /\ request[d].at \in Running
      /\ content' = [content EXCEPT ![k][inode] = backup[k]]
      /\ temp' = [temp EXCEPT ![k]["pull"] = None]
      /\ UNCHANGED <<file, backup, export, worker, calm>>
  BY DEF EndRestore, Running
<1>2. RowIs(d, "failed", None) /\ "failed" \notin BeforeFetch(d) /\ "failed" \notin Running
  BY <1>0, EndsRow DEF EndRestore, BeforeFetch, Running
<1>3. \A j \in Kinds, way \in Ways : temp'[j][way] \in {temp[j][way], None}
  BY <1>0, <1>1, TempMay DEF Ways
<1>4. KindInv' /\ FreshInv'
  BY <1>1, <1>2, <1>3, RowKind, RowFresh DEF Calms
<1>5. CalmInv(d)'
  <2> SUFFICES ASSUME calm[d] # None
               PROVE  /\ \A e \in Deployments \ {d} : request'[e].at \notin Running
                      /\ request[d].way = "pull" =>
                            calm'[d][KindOf(d)'] \in {None, Installed(KindOf(d))'}
    BY <1>1, <1>2 DEF CalmInv, RowIs, At
  <2>1. (\A e \in Deployments \ {d} : request[e].at \notin Running) /\ Phase(d)
    BY <1>1, Alone
  <2>2. inode = file[k] /\ inode # None
    <3>1. inode # None
      BY <1>1, Parts DEF IInv, RequestsOK, Copying
    <3> QED
      BY <1>1, <2>1, <3>1 DEF Phase, Sourced
  <2>3. Installed(k)' = backup[k]
    <3>1. content[k] \in [Inodes -> Contents] /\ inode \in Inodes
      BY <1>0, <2>2 DEF FilesOK
    <3>2. content'[k] = [content[k] EXCEPT ![inode] = backup[k]]
      BY <1>0, <1>1 DEF FilesOK
    <3>3. content'[k][inode] = backup[k]
      BY <3>1, <3>2
    <3>4. file'[k] = inode /\ inode # None
      BY <1>1, <2>2
    <3>5. KindOf(d)' = k
      BY <1>2 DEF RowIs, KindOf
    <3> QED
      BY <3>3, <3>4, <3>5 DEF Installed
  <2>4. request[d].way = "pull" => calm[d][k] \in {None, backup[k]}
    BY <1>1, <2>1 DEF Phase, Saved
  <2>5. KindOf(d)' = k
    BY <1>2 DEF RowIs, KindOf
  <2> QED
    BY <1>1, <1>2, <2>1, <2>3, <2>4, <2>5 DEF RowIs
<1> QED
  BY <1>1, <1>2, <1>4, <1>5, RowCalm DEF Calms, RowIs

LEMMA RestoreErrorCalm ==
    ASSUME IInv, Calms, NEW d \in Deployments, RestoreError(d) PROVE Calms'
<1>0. RequestsOK /\ FilesOK /\ KindOf(d) \in Kinds
  BY Parts, RequestFields DEF IInv
<1>1. /\ RowIs(d, "gone", None) /\ request[d].at \in Running
      /\ temp' = [temp EXCEPT ![KindOf(d)]["pull"] = None] /\ UNCHANGED <<file, calm>>
  BY <1>0, EndsRow DEF RestoreError, Running
<1>2. \A j \in Kinds, way \in Ways : temp'[j][way] \in {temp[j][way], None}
  BY <1>0, <1>1, TempMay DEF Ways
<1> QED
  BY <1>1, <1>2, ToGone

-----------------------------------------------------------------------------
(* Arrivals and processes                                                  *)

LEMMA ArrivesCalm ==
    ASSUME IInv, Calms, NEW d \in Deployments, NEW w \in Workers, NEW at \in {"backup", "fetch"},
           Arrives(d, w, at), request[d].kinds # {},
           at = "backup" <=> request[d].way = "pull"
    PROVE  Calms'
<1> DEFINE r == [request[d] EXCEPT !.at = at, !.worker = w, !.kind = FirstOf(request[d].kinds)]
           c == [k \in Kinds |-> Installed(k)]
<1>0. RequestsOK /\ RestOK /\ request[d].kinds \subseteq Kinds /\ request[d] \in RequestRows
  BY Parts, RequestFields DEF IInv, RequestsOK
<1>1. /\ request[d].at = "none" /\ request' = [request EXCEPT ![d] = r]
      /\ UNCHANGED <<file, temp, content, backup, export, worker>>
  BY DEF Arrives, files
<1>2. /\ r.at = at /\ r.kind = FirstOf(request[d].kinds)
      /\ r.way = request[d].way /\ r.kinds = request[d].kinds
  BY <1>0 DEF RequestRows
<1> HIDE DEF r
<1>3. request'[d] = r /\ \A e \in Deployments \ {d} : request'[e] = request[e]
  BY <1>0, <1>1 DEF RequestsOK
<1>4. /\ FirstOf(request[d].kinds) \in request[d].kinds
      /\ FirstOf(request[d].kinds) = "segmentation" => "detection" \notin request[d].kinds
  BY <1>0 DEF FirstOf, Kinds
<1>5. KindInv'
  BY <1>2, <1>3, <1>4 DEF Calms, KindInv, KindOf
<1>6. FreshInv'
  <2>1. \A e \in Deployments, j \in Kinds : Unfetched(e, j)' => Unfetched(e, j)
    BY <1>1, <1>3 DEF Unfetched, BeforeFetch, KindOf
  <2> QED
    BY <1>1, <2>1 DEF Calms, FreshInv
<1>7. ASSUME NEW e \in Deployments, calm'[e] # None
      PROVE  /\ e = d /\ calm'[d] = c /\ AllUp
             /\ \A f \in Deployments : request[f].at \notin Running
  <2>1. \/ calm' = Disturbed
        \/ /\ calm' = [Disturbed EXCEPT ![d] = c] /\ AllUp
           /\ \A f \in Deployments : request[f].at \notin Running
    BY DEF Arrives, AllUp
  <2> QED
    BY <1>7, <2>1 DEF Disturbed
<1>8. ASSUME NEW e \in Deployments PROVE CalmInv(e)'
  <2> SUFFICES ASSUME calm'[e] # None PROVE CalmInv(e)'
    BY DEF CalmInv
  <2>1. /\ e = d /\ calm'[d] = c /\ AllUp
        /\ \A f \in Deployments : request[f].at \notin Running
    BY <1>7
  <2>2. \A j \in Kinds : Installed(j)' = calm'[d][j]
    BY <1>1, <2>1, InstalledSame
  <2>3. Untouched(d)'
    BY <2>2 DEF Untouched
  <2>4. Fetched(d)' /\ Saved(d)' /\ Sourced(d)'
    BY <1>2, <1>3 DEF Fetched, HasFetched, Saved, Sourced
  <2>5. DoneSoFar(d)'
    BY <1>2, <1>3, <1>4 DEF DoneSoFar, KindOf
  <2> QED
    BY <1>1, <1>2, <1>3, <2>1, <2>3, <2>4, <2>5 DEF CalmInv, Phase, AllUp, At
<1> QED
  BY <1>5, <1>6, <1>8 DEF Calms

(* A restart that an answer has scheduled.  While a deployment runs and is *)
(* calm there is none.                                                     *)
LEMMA DiesCalm ==
    ASSUME IInv, Calms, NEW w \in Workers, Dies(w), files' = files,
           calm' = Disturbed \/ (calm' = calm /\ worker[w].restart)
    PROVE  Calms'
<1>0. RequestsOK /\ RestOK /\ WorkersOK
  BY Parts DEF IInv
<1>1. ASSUME NEW d \in Deployments
      PROVE  /\ request'[d].way = request[d].way /\ request'[d].kinds = request[d].kinds
             /\ request'[d].kind = request[d].kind
             /\ \/ request'[d] = request[d]
                \/ request[d].at \in Running /\ request'[d].at = "gone"
  <2>1. request[d] \in RequestRows
    BY <1>0 DEF RequestsOK
  <2>2. /\ Ended(request[d], "gone").way = request[d].way
        /\ Ended(request[d], "gone").kinds = request[d].kinds
        /\ Ended(request[d], "gone").kind = request[d].kind
        /\ Ended(request[d], "gone").at = "gone"
    BY <2>1 DEF Ended, RequestRows
  <2> QED
    BY <2>2 DEF Dies
<1>2. "gone" \notin Running /\ \A d \in Deployments : "gone" \notin BeforeFetch(d)'
  BY DEF Running, BeforeFetch
<1>3. KindInv'
  BY <1>1, <1>2 DEF Calms, KindInv, KindOf
<1>4. FreshInv'
  <2>1. \A d \in Deployments, j \in Kinds : Unfetched(d, j)' => Unfetched(d, j)
    BY <1>1, <1>2 DEF Unfetched, BeforeFetch, KindOf
  <2> QED
    BY <2>1 DEF Calms, FreshInv, files
<1>5. ASSUME NEW d \in Deployments PROVE CalmInv(d)'
  <2> SUFFICES ASSUME calm'[d] # None PROVE CalmInv(d)'
    BY DEF CalmInv
  <2>1. calm' = calm /\ worker[w].restart
    BY DEF Disturbed
  <2>2. request[d].at \notin Running /\ request'[d] = request[d]
    BY <1>1, <2>1 DEF Calms, CalmInv, AllUp
  <2>3. \A e \in Deployments \ {d} : request'[e].at \notin Running
    BY <1>1, <1>2, <2>1 DEF Calms, CalmInv
  <2>4. \A j : Installed(j)' = Installed(j) /\ export'[j] = export[j]
    BY InstalledSame DEF files
  <2>5. \A j : \A v \in Exporters(j)' : v \in Exporters(j) /\ worker'[v] = worker[v]
    <3>1. worker'[w] = Down /\ \A v \in Workers \ {w} : worker'[v] = worker[v]
      BY <1>0 DEF Dies, WorkersOK
    <3> QED
      BY <3>1 DEF Exporters, Down
  <2>6. Served(d) => Served(d)'
    BY <2>2, <2>4, <2>5 DEF Served, Whole
  <2> QED
    BY <2>1, <2>2, <2>3, <2>4, <2>6 DEF Calms, CalmInv, At, KindOf
<1> QED
  BY <1>3, <1>4, <1>5 DEF Calms

(* A start-up under a calm deployment makes exports of the new weights.    *)
LEMMA StartUpCalm ==
    ASSUME Calms, \E w \in Workers : worker[w].at # "up",
           UNCHANGED <<file, temp, content, backup, request>>,
           calm' = Disturbed \/ calm' = calm,
           \A d \in Deployments : Served(d) => Served(d)'
    PROVE  Calms'
<1>1. FreshInv' /\ KindInv'
  BY DEF Calms, FreshInv, KindInv, Unfetched, BeforeFetch, KindOf
<1>2. ASSUME NEW d \in Deployments PROVE CalmInv(d)'
  <2> SUFFICES ASSUME calm'[d] # None PROVE CalmInv(d)'
    BY DEF CalmInv
  <2>1. calm' = calm
    BY DEF Disturbed
  <2>2. request[d].at \notin Running
    BY <2>1 DEF Calms, CalmInv, AllUp
  <2>3. \A j : Installed(j)' = Installed(j)
    BY InstalledSame
  <2> QED
    BY <2>1, <2>2, <2>3 DEF Calms, CalmInv, At, KindOf
<1> QED
  BY <1>1, <1>2 DEF Calms

LEMMA WorkerCalm ==
    ASSUME IInv, Calms, NEW w \in Workers, WorkerStep(w) PROVE Calms'
<1> DEFINE k == worker[w].kind
<1>0. WorkersOK /\ FilesOK /\ k \in Kinds /\ worker[w] \in WorkerRows
      /\ \A d \in Deployments : request[d].kinds \subseteq Kinds
  BY Parts, WorkerFields, RequestFields DEF IInv, WorkersOK
<1>1. worker[w].at # "up"
  BY DEF WorkerStep, Boot, LoadNothing, FindExport, BeginExport, EndExport, ExportError, Load
<1>2. UNCHANGED <<file, temp, content, backup, request>> /\ (calm' = Disturbed \/ calm' = calm)
  BY DEF WorkerStep, Boot, LoadNothing, FindExport, BeginExport, EndExport, ExportError, Load, files
<1>3. \A j : Installed(j)' = Installed(j)
  BY <1>2, InstalledSame
<1>4. ASSUME NEW r, worker' = [worker EXCEPT ![w] = r]
      PROVE  worker'[w] = r /\ \A v \in Workers \ {w} : worker'[v] = worker[v]
  BY <1>0, <1>4 DEF WorkersOK
<1>5. CASE BeginExport(w)
  <2> DEFINE r == [worker[w] EXCEPT !.at = "exporting", !.exporting = Installed(k)]
  <2>1. /\ worker' = [worker EXCEPT ![w] = r] /\ export' = [export EXCEPT ![k] = Torn]
        /\ r.at = "exporting" /\ r.kind = k /\ r.exporting = Installed(k)
    BY <1>0, <1>5 DEF BeginExport, WorkerRows
  <2> HIDE DEF r
  <2>2. worker'[w] = r /\ \A v \in Workers \ {w} : worker'[v] = worker[v]
    BY <1>4, <2>1
  <2>3. \A j \in Kinds : export'[j] = IF j = k THEN Torn ELSE export[j]
    BY <1>0, <2>1 DEF FilesOK
  <2>4. ASSUME NEW d \in Deployments, Served(d) PROVE Served(d)'
    <3>1. ASSUME NEW j \in request[d].kinds PROVE Whole(d, j)'
      BY <1>0, <1>3, <2>3, <2>4 DEF Served, Whole
    <3>2. ASSUME NEW j \in request[d].kinds, NEW v \in Exporters(j)'
          PROVE  worker'[v].exporting = d
      <4>1. CASE v = w
        BY <2>1, <2>2, <2>4, <3>2, <4>1 DEF Served, Whole, Exporters
      <4>2. CASE v # w
        BY <2>2, <2>4, <3>2, <4>2 DEF Served, Exporters
      <4> QED
        BY <4>1, <4>2
    <3> QED
      BY <1>2, <3>1, <3>2 DEF Served
  <2> QED
    BY <1>1, <1>2, <2>4, StartUpCalm
<1>6. CASE EndExport(w)
  <2> DEFINE r == [worker[w] EXCEPT !.at = "loading", !.exporting = None]
             c == IF Exporters(k) = {w} THEN worker[w].exporting ELSE Torn
  <2>1. /\ worker' = [worker EXCEPT ![w] = r] /\ export' = [export EXCEPT ![k] = c]
        /\ r.at = "loading" /\ w \in Exporters(k)
    BY <1>0, <1>6 DEF EndExport, WorkerRows, Exporters
  <2> HIDE DEF r
  <2>2. worker'[w] = r /\ \A v \in Workers \ {w} : worker'[v] = worker[v]
    BY <1>4, <2>1
  <2>3. \A j \in Kinds : export'[j] = IF j = k THEN c ELSE export[j]
    BY <1>0, <2>1 DEF FilesOK
  <2>4. ASSUME NEW d \in Deployments, Served(d) PROVE Served(d)'
    <3>1. ASSUME NEW j \in request[d].kinds PROVE Whole(d, j)'
      <4>1. j = k => c \in {Torn, d}
        BY <2>1, <2>4, <3>1 DEF Served
      <4> HIDE DEF c
      <4> QED
        BY <1>0, <1>3, <2>3, <2>4, <3>1, <4>1 DEF Served, Whole
    <3>2. ASSUME NEW j \in request[d].kinds, NEW v \in Exporters(j)'
          PROVE  worker'[v].exporting = d
      BY <2>1, <2>2, <2>4, <3>2 DEF Served, Exporters
    <3> QED
      BY <1>2, <3>1, <3>2 DEF Served
  <2> QED
    BY <1>1, <1>2, <2>4, StartUpCalm
<1>7. CASE Boot(w) \/ FindExport(w) \/ LoadNothing(w) \/ ExportError(w) \/ Load(w)
  <2>1. export' = export
    BY <1>7 DEF Boot, FindExport, LoadNothing, ExportError, Load, files
  <2>2. \E r : worker' = [worker EXCEPT ![w] = r] /\ r.at # "exporting"
    <3>1. CASE Boot(w) \/ FindExport(w)
      <4>1. PICK at \in {"boot", "loading"} :
               worker' = [worker EXCEPT ![w] = [worker[w] EXCEPT !.at = at]]
        BY <3>1 DEF Boot, FindExport
      <4>2. [worker[w] EXCEPT !.at = at].at # "exporting"
        BY <1>0 DEF WorkerRows
      <4> QED
        BY <4>1, <4>2
    <3>2. ASSUME NEW m, Serves(w, m)
          PROVE  \E r : worker' = [worker EXCEPT ![w] = r] /\ r.at # "exporting"
      <4> DEFINE at == IF worker[w].kind = "detection" THEN "boot" ELSE "up"
                 r == [worker[w] EXCEPT !.serves[worker[w].kind] = m, !.exporting = None,
                                        !.at = at, !.kind = "segmentation"]
      <4>1. worker' = [worker EXCEPT ![w] = r]
        BY <3>2 DEF Serves
      <4>2. at # "exporting"
        OBVIOUS
      <4> HIDE DEF at
      <4>3. r.at # "exporting"
        BY <1>0, <4>2 DEF WorkerRows
      <4> HIDE DEF r
      <4> QED
        BY <4>1, <4>3
    <3> QED
      BY <1>7, <3>1, <3>2 DEF LoadNothing, ExportError, Load
  <2>3. PICK r : worker' = [worker EXCEPT ![w] = r] /\ r.at # "exporting"
    BY <2>2
  <2>4. worker'[w] = r /\ \A v \in Workers \ {w} : worker'[v] = worker[v]
    BY <1>4, <2>3
  <2>5. ASSUME NEW d \in Deployments, Served(d) PROVE Served(d)'
    <3>1. \A j : \A v \in Exporters(j)' : v \in Exporters(j) /\ worker'[v] = worker[v]
      BY <2>3, <2>4 DEF Exporters
    <3> QED
      BY <1>2, <1>3, <2>1, <2>5, <3>1 DEF Served, Whole
  <2> QED
    BY <1>1, <1>2, <2>5, StartUpCalm
<1> QED
  BY <1>5, <1>6, <1>7 DEF WorkerStep

-----------------------------------------------------------------------------
(* An upload brings one file.                                              *)
LEMMA OneKind ==
    ASSUME NEW ask \in Asked, NEW d \in Deployments, ask[d].way = "upload",
           NEW j \in ask[d].kinds, NEW k \in ask[d].kinds
    PROVE  j = k
<1>1. ask[d].kinds \subseteq Kinds /\ Cardinality(ask[d].kinds) <= 1
  BY ModelConstants
<1>2. IsFiniteSet(Kinds)
  <2>1. IsFiniteSet({"detection"}) /\ IsFiniteSet({"segmentation"})
    BY FS_Singleton
  <2>2. Kinds = {"detection"} \cup {"segmentation"}
    BY DEF Kinds
  <2> QED
    BY <2>1, <2>2, FS_Union
<1>3. IsFiniteSet(ask[d].kinds)
  BY <1>1, <1>2, FS_Subset
<1>4. Cardinality(ask[d].kinds) \in Nat
  BY <1>3, FS_CardinalityType
<1>5. Cardinality(ask[d].kinds) = 1
  BY <1>1, <1>3, <1>4, FS_EmptySet
<1>6. \E x : ask[d].kinds = {x}
  BY <1>3, <1>5, FS_Singleton
<1> QED
  BY <1>6

LEMMA InitInv == Init => IInv
<1> SUFFICES ASSUME Init PROVE IInv
  OBVIOUS
<1>1. TypeOK
  BY InitType
<1>2. \A d \in Deployments : request[d].at = "none" /\ calm[d] = None
  BY DEF Init, Disturbed
<1>3. KindInv
  <2>1. PICK ask \in Asked : request = [d \in Deployments |->
               [at |-> "none", way |-> ask[d].way, kinds |-> ask[d].kinds,
                worker |-> None, kind |-> "detection", from |-> None]]
    BY DEF Init
  <2>2. \A d \in Deployments : request[d].way = ask[d].way /\ request[d].kinds = ask[d].kinds
    BY <2>1
  <2> QED
    BY <1>2, <2>2, OneKind DEF KindInv, Running
<1>4. FreshInv
  <2>1. \A k \in Kinds, way \in Ways : temp[k][way] = None
    BY DEF Init
  <2>2. \A k \in Kinds : file[k] \in {Original, None}
    BY DEF Init
  <2> QED
    BY <2>1, <2>2, ModelConstants DEF FreshInv
<1> QED
  BY <1>1, <1>2, <1>3, <1>4 DEF IInv, CalmInv

LEMMA IInvStays == IInv /\ [Next]_vars => IInv'
<1> SUFFICES ASSUME IInv, [Next]_vars PROVE Calms'
  BY NextType DEF IInv, Calms
<1>0. Calms
  BY DEF IInv, Calms
<1>1. CASE \E d \in Deployments, w \in Workers : UpdateModel(d, w) \/ UploadModel(d, w)
  <2>1. PICK d \in Deployments, w \in Workers : UpdateModel(d, w) \/ UploadModel(d, w)
    BY <1>1
  <2>2. CASE UpdateModel(d, w)
    BY <1>0, <2>2, ArrivesCalm DEF UpdateModel
  <2>3. CASE UploadModel(d, w)
    BY <1>0, <2>3, ArrivesCalm DEF UploadModel
  <2> QED
    BY <2>1, <2>2, <2>3
<1>2. CASE \E d \in Deployments : RequestStep(d)
  BY <1>0, <1>2, NoBackupCalm, BeginBackupCalm, EndBackupCalm, BeginFetchCalm, EndFetchCalm,
     ReplaceCalm, ReplaceErrorCalm, ClearExportCalm, NoRestoreCalm, BeginRestoreCalm,
     EndRestoreCalm DEF RequestStep
<1>3. CASE \E d \in Deployments : RequestFault(d)
  BY <1>0, <1>3, RefuseHostCalm, BackupErrorCalm, FetchErrorCalm, ClearErrorCalm,
     RestoreErrorCalm DEF RequestFault
<1>4. CASE \E w \in Workers : Restart(w) \/ Crash(w)
  BY <1>0, <1>4, DiesCalm DEF Restart, Crash
<1>5. CASE \E w \in Workers : WorkerStep(w)
  BY <1>0, <1>5, WorkerCalm
<1>6. CASE UNCHANGED vars
  BY <1>0, <1>6 DEF vars, Calms, FreshInv, KindInv, CalmInv, Unfetched, BeforeFetch, KindOf,
     Phase, Untouched, Fetched, HasFetched, TempOf, Saved, Sourced, DoneSoFar, Whole, AllUp,
     Served, Exporters, Installed, At
<1> QED
  BY <1>1, <1>2, <1>3, <1>4, <1>5, <1>6 DEF Next

LEMMA IInvHolds == Spec => []IInv
BY InitInv, IInvStays, PTL DEF Spec

(* Of an accepted deployment that nothing disturbed, every kind it asked   *)
(* for is installed whole, and no export of other weights is left.         *)
THEOREM InstalledWhole == Spec => []AcceptedIsInstalled
<1>1. IInv => AcceptedIsInstalled
  BY DEF IInv, CalmInv, Served, Whole, AcceptedIsInstalled
<1> QED
  BY <1>1, IInvHolds, PTL

(* A pull that failed by itself leaves what was installed before, whatever *)
(* step it failed at.                                                      *)
THEOREM RolledBack == Spec => []FailedIsRolledBack
<1>1. IInv => FailedIsRolledBack
  BY DEF IInv, CalmInv, FailedIsRolledBack
<1> QED
  BY <1>1, IInvHolds, PTL

=============================================================================
