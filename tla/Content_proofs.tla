--------------------------- MODULE Content_proofs ---------------------------
(***************************************************************************)
(* Proofs about LessonMaterial, for any uploads of any files, and about    *)
(* ExerciseAdmin, for any requests of each handler.                        *)
(***************************************************************************)
EXTENDS MCContent, TLAPS

-----------------------------------------------------------------------------
(* The inductive invariant of the uploads.                                 *)

UploadPlaces == {"idle", "next", "recorded", "saved", "extracted", "uploaded", "stored",
           "ok", "refused", "failed"}

\* The stations of a file between its row and its report.
Working == {"recorded", "saved", "extracted", "uploaded", "stored"}

Docs == {Absent} \cup [status : {"processing", "failed", "completed"},
                       progress : {0, 30, 50, 80, 100}]

Typed ==
    /\ lesson \in BOOLEAN /\ quizzed \in BOOLEAN
    /\ docs \in [Files -> Docs]
    /\ texts \in [Files -> Files \cup {None, Notice}]
    /\ temp \in [Names -> Files \cup {None}]
    /\ bucket \in [Files -> {None, "file", "empty"}]
    /\ pc \in [Requests -> UploadPlaces]
    /\ at \in [Uploads -> Nat] /\ \A u \in Uploads : at[u] \in 1..Len(Batch[u])
    /\ found \in [Uploads -> Files \cup {None, Notice}]
    /\ outcome \in [Files -> {None, "success", "error"}]
    /\ clobbered \subseteq Files

\* What an upload has reported, and what its current file has got so far.
ReportsInv(u) ==
    \A i \in DOMAIN Batch[u] :
        outcome[Batch[u][i]] = None <=> at[u] <= i /\ pc[u] # "ok"

FileInv(u) ==
    /\ pc[u] \in Working /\ lesson => docs[File(u)] # Absent
    /\ pc[u] = "saved" =>
         temp[NameOf[File(u)]] \in {File(u), None} \/ File(u) \in clobbered
    /\ pc[u] \in {"extracted", "uploaded"} =>
         /\ found[u] # None
         /\ found[u] \in {File(u), Notice} \/ File(u) \in clobbered
    /\ pc[u] \in {"uploaded", "stored"} => bucket[File(u)] # None
    /\ pc[u] = "stored" /\ docs[File(u)] # Absent => texts[File(u)] # None

\* A document's row, its text, its object and the report agree.
DocumentInv(f) ==
    /\ docs[f] = Absent => texts[f] = None
    /\ docs[f].status = "completed" => texts[f] # None /\ bucket[f] # None
    /\ texts[f] \in {f, Notice, None} \/ f \in clobbered
    /\ outcome[f] = "success" /\ lesson => docs[f].status = "completed"
    /\ outcome[f] = "error" /\ lesson => docs[f].status = "failed"

\* A temporary file is the current one of an upload that has copied it and not gone on.
TempInv(n) ==
    temp[n] # None =>
        /\ NameOf[temp[n]] = n
        /\ \E u \in Uploads : pc[u] \in {"saved", "failed"} /\ temp[n] = File(u)

MaterialInv ==
    /\ Typed
    /\ \A u \in Uploads : ReportsInv(u) /\ FileInv(u)
    /\ \A f \in Files : DocumentInv(f)
    /\ \A n \in Names : TempInv(n)

-----------------------------------------------------------------------------
(* The files of an upload, and what a step for one of them leaves alone.   *)

LEMMA Values ==
    /\ Absent \in Docs /\ Absent.status = None
    /\ \A row \in Docs : row # Absent => row.status # None
    /\ None \notin {"file", "empty", "success", "error", "processing", "failed", "completed"}
    /\ None # Notice /\ None \notin Files /\ Notice \notin Files
<1>1. Absent \in Docs /\ Absent.status = None
  BY DEF Absent, Docs
<1>2. \A row \in Docs : row # Absent => row.status # None
  BY DEF Docs, None
<1>3. QED
  BY <1>1, <1>2, TextsAssumption DEF None, Notice

LEMMA FileFacts ==
    ASSUME Typed, NEW u \in Uploads
    PROVE  /\ u \in Requests /\ Batch[u] \in Seq(Files) /\ Len(Batch[u]) \in Nat
           /\ DOMAIN Batch[u] = 1..Len(Batch[u])
           /\ at[u] \in DOMAIN Batch[u] /\ at[u] \in Nat
           /\ File(u) \in Files /\ NameOf[File(u)] \in Names
<1>1. Batch[u] \in Seq(Files) /\ u \in Requests
  BY FilesAssumption DEF Requests
<1>2. at[u] \in 1..Len(Batch[u]) /\ at[u] \in Nat
  BY DEF Typed
<1>3. File(u) \in Files
  BY <1>1, <1>2 DEF File
<1>4. QED
  BY <1>1, <1>2, <1>3, FilesAssumption

LEMMA OwnFiles ==
    ASSUME Typed, NEW u \in Uploads, NEW v \in Uploads, NEW i \in DOMAIN Batch[v], Batch[v][i] = File(u)
    PROVE  v = u /\ i = at[u]
BY FileFacts, FilesAssumption DEF File

\* The temporary file is left, removed, or written by its upload.
TempLeft(u)    == temp' = temp /\ pc[u] # "failed" /\ (pc[u] = "saved" => pc'[u] = "failed" /\ at' = at)
TempRemoved(u) == temp' = [temp EXCEPT ![NameOf[File(u)]] = None] /\ pc[u] # "failed"
TempWritten(u) ==
    /\ temp' = [temp EXCEPT ![NameOf[File(u)]] = File(u)]
    /\ pc[u] = "recorded" /\ pc'[u] = "saved" /\ at' = at
    /\ Copied(NameOf[File(u)]) \subseteq clobbered'

\* A step of one upload: the other uploads stay where they are, the other files as they are.
UploadStep(u) ==
    /\ lesson' = lesson /\ clobbered \subseteq clobbered'
    /\ \A v \in Uploads \ {u} : pc'[v] = pc[v] /\ at'[v] = at[v] /\ found'[v] = found[v]
    /\ \A f \in Files \ {File(u)} : /\ docs'[f] = docs[f] /\ texts'[f] = texts[f]
                                    /\ bucket'[f] = bucket[f] /\ outcome'[f] = outcome[f]
    /\ TempLeft(u) \/ TempRemoved(u) \/ TempWritten(u)

LEMMA OtherUploads ==
    ASSUME MaterialInv, NEW u \in Uploads, UploadStep(u), NEW v \in Uploads \ {u}
    PROVE  ReportsInv(v)' /\ FileInv(v)'
<1> USE DEF MaterialInv
<1>1. /\ pc'[v] = pc[v] /\ at'[v] = at[v] /\ found'[v] = found[v] /\ lesson' = lesson
      /\ clobbered \subseteq clobbered' /\ File(v)' = File(v)
  BY DEF UploadStep, File
<1>2. \A i \in DOMAIN Batch[v] : Batch[v][i] \in Files \ {File(u)}
  BY OwnFiles, FileFacts
<1>3. File(v) \in Files \ {File(u)} /\ NameOf[File(v)] \in Names
  BY <1>2, FileFacts DEF File
<1>4. ReportsInv(v)'
  BY <1>1, <1>2 DEF ReportsInv, UploadStep
<1>5. ASSUME pc[v] = "saved"
      PROVE  temp'[NameOf[File(v)]] \in {File(v), None} \/ File(v) \in clobbered'
  <2>1. temp[NameOf[File(v)]] \in {File(v), None} \/ File(v) \in clobbered
    BY <1>5 DEF FileInv
  <2>2. CASE TempLeft(u)
    BY <1>1, <2>1, <2>2 DEF TempLeft
  <2>3. CASE TempRemoved(u)
    BY <1>1, <1>3, <2>1, <2>3 DEF TempRemoved, Typed
  <2>4. CASE TempWritten(u)
    <3>1. CASE NameOf[File(v)] = NameOf[File(u)]
      BY <1>3, <1>5, <2>4, <3>1 DEF TempWritten, Copied
    <3>2. CASE NameOf[File(v)] # NameOf[File(u)]
      BY <1>1, <1>3, <2>1, <2>4, <3>2 DEF TempWritten, Typed
    <3>3. QED
      BY <3>1, <3>2
  <2>5. QED
    BY <2>2, <2>3, <2>4 DEF UploadStep
<1>6. FileInv(v)'
  BY <1>1, <1>3, <1>5 DEF FileInv, UploadStep
<1>7. QED
  BY <1>4, <1>6

LEMMA TempKept ==
    ASSUME MaterialInv, NEW u \in Uploads, UploadStep(u), NEW n \in Names
    PROVE  TempInv(n)'
<1> USE DEF MaterialInv
<1> SUFFICES ASSUME temp'[n] # None
             PROVE  /\ NameOf[temp'[n]] = n
                    /\ \E v \in Uploads : pc'[v] \in {"saved", "failed"} /\ temp'[n] = File(v)'
  BY DEF TempInv
<1>1. CASE TempWritten(u) /\ n = NameOf[File(u)]
  <2>1. temp'[n] = File(u) /\ File(u)' = File(u) /\ pc'[u] = "saved"
    BY <1>1 DEF TempWritten, Typed, File
  <2>2. QED
    BY <1>1, <2>1
<1>2. CASE ~ (TempWritten(u) /\ n = NameOf[File(u)])
  <2>1. temp'[n] = temp[n] /\ (TempRemoved(u) => n # NameOf[File(u)])
    BY <1>2, FileFacts DEF UploadStep, TempLeft, TempRemoved, TempWritten, Typed
  <2>2. NameOf[temp[n]] = n
    BY <2>1 DEF TempInv
  <2>3. PICK v \in Uploads : pc[v] \in {"saved", "failed"} /\ temp[n] = File(v)
    BY <2>1 DEF TempInv
  <2>4. CASE v # u
    BY <2>1, <2>2, <2>3, <2>4 DEF UploadStep, File
  <2>5. CASE v = u
    <3>1. TempLeft(u) /\ pc'[u] = "failed" /\ at' = at
      BY <2>1, <2>2, <2>3, <2>5 DEF UploadStep, TempLeft, TempWritten, TempRemoved
    <3>2. QED
      BY <2>1, <2>2, <2>3, <2>5, <3>1 DEF File
  <2>6. QED
    BY <2>4, <2>5
<1>3. QED
  BY <1>1, <1>2

\* What is left to show of a step: the upload itself and its file.
LEMMA UploadStepInv ==
    ASSUME MaterialInv, NEW u \in Uploads, UploadStep(u), Typed',
           ReportsInv(u)', FileInv(u)',
           \A f \in Files : f = File(u) => DocumentInv(f)'
    PROVE  MaterialInv'
<1>1. ASSUME NEW f \in Files PROVE DocumentInv(f)'
  <2>1. CASE f # File(u)
    BY <1>1, <2>1 DEF MaterialInv, DocumentInv, UploadStep
  <2>2. QED
    BY <2>1
<1>2. ASSUME NEW v \in Uploads PROVE ReportsInv(v)' /\ FileInv(v)'
  BY <1>2, OtherUploads
<1>3. QED
  BY <1>1, <1>2, TempKept DEF MaterialInv

-----------------------------------------------------------------------------
(* The row of a document, and the place of an upload.                      *)

LEMMA SetFacts ==
    ASSUME Typed, NEW f \in Files, NEW row, Set(f, row),
           docs[f] # Absent => row \in Docs /\ row # Absent
    PROVE  /\ docs' \in [Files -> Docs]
           /\ \A g \in Files \ {f} : docs'[g] = docs[g]
           /\ docs'[f] = Absent <=> docs[f] = Absent
           /\ docs[f] # Absent => docs'[f] = row
BY Values DEF Typed, Set

LEMMA ProgressFacts ==
    ASSUME Typed, NEW f \in Files, NEW n \in {0, 30, 50, 80, 100}, Progress(f, n)
    PROVE  /\ docs' \in [Files -> Docs]
           /\ \A g \in Files \ {f} : docs'[g] = docs[g]
           /\ docs'[f] = Absent <=> docs[f] = Absent
           /\ docs'[f].status = docs[f].status
<1> DEFINE row == [docs[f] EXCEPT !.progress = n]
<1>1. docs[f] # Absent => row \in Docs /\ row # Absent /\ row.status = docs[f].status
  <2> SUFFICES ASSUME docs[f] # Absent
               PROVE  row \in Docs /\ row # Absent /\ row.status = docs[f].status
    OBVIOUS
  <2>1. docs[f] \in [status : {"processing", "failed", "completed"}, progress : {0, 30, 50, 80, 100}]
    BY DEF Typed, Docs
  <2>2. /\ row \in [status : {"processing", "failed", "completed"}, progress : {0, 30, 50, 80, 100}]
        /\ row.status = docs[f].status
    BY <2>1
  <2>3. row.status # None
    BY <2>1, <2>2 DEF None
  <2>4. QED
    BY <2>2, <2>3, Values DEF Docs
<1>2. Set(f, row)
  BY DEF Progress
<1> HIDE DEF row
<1>3. QED
  BY <1>1, <1>2, SetFacts

\* Between its row and its report an upload keeps its file.
LEMMA GoesOn ==
    ASSUME MaterialInv, NEW u \in Uploads, NEW from \in UploadPlaces \ {"ok"}, NEW to \in UploadPlaces \ {"ok"},
           Goto(u, from, to), at' = at, outcome' = outcome
    PROVE  /\ pc' \in [Requests -> UploadPlaces] /\ pc[u] = from /\ pc'[u] = to
           /\ \A v \in Uploads \ {u} : pc'[v] = pc[v]
           /\ File(u)' = File(u) /\ ReportsInv(u)'
<1>1. pc' \in [Requests -> UploadPlaces] /\ pc[u] = from /\ pc'[u] = to
      /\ \A v \in Uploads \ {u} : pc'[v] = pc[v]
  BY FileFacts DEF MaterialInv, Typed, Goto, Requests
<1>2. File(u)' = File(u) /\ ReportsInv(u)'
  BY <1>1 DEF MaterialInv, ReportsInv, File
<1>3. QED
  BY <1>1, <1>2

LEMMA ReportFacts ==
    ASSUME MaterialInv, NEW u \in Uploads, NEW from \in UploadPlaces \ {"ok"},
           NEW result \in {"success", "error"}, Report(u, from, result)
    PROVE  /\ pc' \in [Requests -> UploadPlaces] /\ pc[u] = from /\ pc'[u] \in {"next", "ok"}
           /\ at' \in [Uploads -> Nat] /\ \A v \in Uploads : at'[v] \in 1..Len(Batch[v])
           /\ outcome' \in [Files -> {None, "success", "error"}]
           /\ outcome'[File(u)] = result
           /\ \A v \in Uploads \ {u} : pc'[v] = pc[v] /\ at'[v] = at[v]
           /\ \A f \in Files \ {File(u)} : outcome'[f] = outcome[f]
           /\ ReportsInv(u)'
<1> USE DEF MaterialInv
<1>1. /\ outcome' \in [Files -> {None, "success", "error"}] /\ outcome'[File(u)] = result
      /\ \A f \in Files \ {File(u)} : outcome'[f] = outcome[f]
  BY FileFacts DEF Report, Typed
<1>2. /\ pc[u] = from
      /\ \/ at[u] = Len(Batch[u]) /\ pc' = [pc EXCEPT ![u] = "ok"] /\ at' = at
         \/ at[u] # Len(Batch[u]) /\ pc' = [pc EXCEPT ![u] = "next"]
            /\ at' = [at EXCEPT ![u] = at[u] + 1]
  BY DEF Report, Goto, Typed
<1>3. /\ pc' \in [Requests -> UploadPlaces] /\ at' \in [Uploads -> Nat]
      /\ \A v \in Uploads \ {u} : pc'[v] = pc[v] /\ at'[v] = at[v]
      /\ \/ at[u] = Len(Batch[u]) /\ pc'[u] = "ok" /\ at'[u] = at[u]
         \/ at[u] # Len(Batch[u]) /\ pc'[u] = "next" /\ at'[u] = at[u] + 1
  <2>1. CASE at[u] = Len(Batch[u]) /\ pc' = [pc EXCEPT ![u] = "ok"] /\ at' = at
    BY <2>1, FileFacts DEF Typed, UploadPlaces
  <2>2. CASE /\ at[u] # Len(Batch[u]) /\ pc' = [pc EXCEPT ![u] = "next"]
             /\ at' = [at EXCEPT ![u] = at[u] + 1]
    <3>1. at[u] + 1 \in Nat
      BY FileFacts
    <3>2. at' \in [Uploads -> Nat] /\ at'[u] = at[u] + 1 /\ \A v \in Uploads \ {u} : at'[v] = at[v]
      BY <2>2, <3>1 DEF Typed
    <3>3. pc' \in [Requests -> UploadPlaces] /\ pc'[u] = "next" /\ \A v \in Uploads \ {u} : pc'[v] = pc[v]
      BY <2>2, FileFacts DEF Typed, UploadPlaces
    <3>4. QED
      BY <2>2, <3>2, <3>3
  <2>3. QED
    BY <1>2, <2>1, <2>2
<1>4. ASSUME NEW v \in Uploads PROVE at'[v] \in 1..Len(Batch[v])
  <2>1. at[v] \in 1..Len(Batch[v]) /\ Len(Batch[v]) \in Nat
    BY FileFacts DEF Typed
  <2>2. CASE v = u
    BY <1>3, <2>1, <2>2
  <2>3. CASE v # u
    BY <1>3, <2>1, <2>3
  <2>4. QED
    BY <2>2, <2>3
<1>5. ReportsInv(u)'
  <2> SUFFICES ASSUME NEW i \in DOMAIN Batch[u]
               PROVE  outcome'[Batch[u][i]] = None <=> at'[u] <= i /\ pc'[u] # "ok"
    BY DEF ReportsInv
  <2>1. i \in 1..Len(Batch[u]) /\ at[u] \in 1..Len(Batch[u]) /\ Len(Batch[u]) \in Nat
    BY FileFacts
  <2>2. CASE i = at[u]
    <3>1. outcome'[Batch[u][i]] # None
      BY <1>1, <2>2, Values DEF File
    <3>2. QED
      BY <1>3, <2>1, <2>2, <3>1
  <2>3. CASE i # at[u]
    <3>1. Batch[u][i] \in Files \ {File(u)}
      BY <2>3, FileFacts, OwnFiles
    <3>2. outcome'[Batch[u][i]] = None <=> at[u] <= i
      BY <1>1, <1>2, <3>1 DEF ReportsInv
    <3>3. QED
      BY <1>3, <2>1, <2>3, <3>2
  <2>4. QED
    BY <2>2, <2>3
<1>6. QED
  BY <1>1, <1>2, <1>3, <1>4, <1>5

\* A document whose status, text, object and report stay keeps what is known of it.
LEMMA SameDocument ==
    ASSUME NEW f \in Files, DocumentInv(f), docs'[f].status = docs[f].status,
           docs'[f] = Absent <=> docs[f] = Absent, texts'[f] = texts[f],
           bucket[f] # None => bucket'[f] # None, outcome'[f] = outcome[f],
           lesson' = lesson, clobbered \subseteq clobbered'
    PROVE  DocumentInv(f)'
BY DEF DocumentInv

-----------------------------------------------------------------------------
(* The steps of an upload.                                                 *)

LEMMA CreateRecordInv ==
    ASSUME MaterialInv, NEW u \in Uploads, CreateRecord(u)
    PROVE  MaterialInv'
<1> USE DEF MaterialInv
<1> DEFINE row == [status |-> "processing", progress |-> 0]
<1>f. PICK f \in Files : f = File(u)
  BY FileFacts
<1>1. /\ Goto(u, "next", IF lesson THEN "recorded" ELSE "failed")
      /\ docs' = IF lesson THEN [docs EXCEPT ![f] = row] ELSE docs
      /\ lesson' = lesson /\ quizzed' = quizzed /\ texts' = texts /\ temp' = temp
      /\ bucket' = bucket /\ at' = at /\ found' = found /\ outcome' = outcome
      /\ clobbered' = clobbered
  BY <1>f DEF CreateRecord
<1>2. /\ pc' \in [Requests -> UploadPlaces] /\ pc[u] = "next"
      /\ pc'[u] = IF lesson THEN "recorded" ELSE "failed"
      /\ \A v \in Uploads \ {u} : pc'[v] = pc[v]
      /\ File(u)' = f /\ ReportsInv(u)'
  BY <1>f, <1>1, GoesOn DEF UploadPlaces
<1>3. row \in Docs /\ row # Absent /\ row.status \notin {"completed", "failed"}
  BY DEF Docs, Absent, None
<1>4. outcome[f] = None
  <2>1. outcome[Batch[u][at[u]]] = None
    BY <1>2, FileFacts DEF ReportsInv
  <2>2. QED
    BY <1>f, <2>1 DEF File
<1>5. /\ docs' \in [Files -> Docs] /\ \A g \in Files \ {f} : docs'[g] = docs[g]
      /\ docs'[f] = IF lesson THEN row ELSE docs[f]
  BY <1>1, <1>3 DEF Typed
<1> HIDE DEF row
<1>6. Typed'
  BY <1>1, <1>2, <1>5 DEF Typed
<1>7. FileInv(u)'
  BY <1>1, <1>2, <1>3, <1>5 DEF FileInv, Working
<1>8. DocumentInv(f)'
  BY <1>1, <1>3, <1>4, <1>5, Values DEF DocumentInv
<1>9. UploadStep(u)
  BY <1>f, <1>1, <1>2, <1>5 DEF UploadStep, TempLeft
<1>10. QED
  BY <1>f, <1>6, <1>7, <1>8, <1>9, <1>2, UploadStepInv

LEMMA SaveTempInv ==
    ASSUME MaterialInv, NEW u \in Uploads, SaveTemp(u)
    PROVE  MaterialInv'
<1> USE DEF MaterialInv
<1>f. PICK f \in Files : f = File(u)
  BY FileFacts
<1>1. /\ Goto(u, "recorded", "saved") /\ temp' = [temp EXCEPT ![NameOf[f]] = f]
      /\ clobbered' = clobbered \cup Copied(NameOf[f]) /\ Progress(f, 30)
      /\ lesson' = lesson /\ quizzed' = quizzed /\ texts' = texts /\ bucket' = bucket
      /\ at' = at /\ found' = found /\ outcome' = outcome
  BY <1>f DEF SaveTemp
<1>2. /\ pc' \in [Requests -> UploadPlaces] /\ pc[u] = "recorded" /\ pc'[u] = "saved"
      /\ \A v \in Uploads \ {u} : pc'[v] = pc[v]
      /\ File(u)' = f /\ ReportsInv(u)'
  BY <1>f, <1>1, GoesOn DEF UploadPlaces
<1>3. /\ docs' \in [Files -> Docs] /\ \A g \in Files \ {f} : docs'[g] = docs[g]
      /\ docs'[f] = Absent <=> docs[f] = Absent
      /\ docs'[f].status = docs[f].status
  BY <1>1, ProgressFacts
<1>4. /\ temp' \in [Names -> Files \cup {None}] /\ temp'[NameOf[f]] = f
      /\ clobbered' \subseteq Files
  BY <1>f, <1>1, FileFacts DEF Typed, Copied
<1>5. Typed'
  BY <1>1, <1>2, <1>3, <1>4 DEF Typed
<1>6. FileInv(u)'
  BY <1>f, <1>1, <1>2, <1>3, <1>4 DEF FileInv, Working
<1>7. DocumentInv(f)'
  BY <1>1, <1>3, SameDocument
<1>8. UploadStep(u)
  BY <1>f, <1>1, <1>2, <1>3 DEF UploadStep, TempWritten
<1>9. QED
  BY <1>f, <1>2, <1>5, <1>6, <1>7, <1>8, UploadStepInv

\* Without a temporary file there is nothing to extract; with one, a text or a notice.
LEMMA ExtractInv ==
    ASSUME MaterialInv, NEW u \in Uploads, Extract(u)
    PROVE  MaterialInv'
<1> USE DEF MaterialInv
<1>f. PICK f \in Files : f = File(u)
  BY FileFacts
<1>1. /\ Goto(u, "saved", "extracted") /\ temp[NameOf[f]] # None
      /\ temp' = [temp EXCEPT ![NameOf[f]] = None] /\ Progress(f, 50)
      /\ lesson' = lesson /\ quizzed' = quizzed /\ texts' = texts /\ bucket' = bucket
      /\ at' = at /\ outcome' = outcome /\ clobbered' = clobbered
  BY <1>f DEF Extract
<1>2. /\ pc' \in [Requests -> UploadPlaces] /\ pc[u] = "saved" /\ pc'[u] = "extracted"
      /\ \A v \in Uploads \ {u} : pc'[v] = pc[v]
      /\ File(u)' = f /\ ReportsInv(u)'
  BY <1>f, <1>1, GoesOn DEF UploadPlaces
<1>3. /\ docs' \in [Files -> Docs] /\ \A g \in Files \ {f} : docs'[g] = docs[g]
      /\ docs'[f] = Absent <=> docs[f] = Absent
      /\ docs'[f].status = docs[f].status
  BY <1>1, ProgressFacts
<1>4. PICK t \in Texts(u) : found' = [found EXCEPT ![u] = t]
  BY DEF Extract
<1>5. t \in Files \cup {Notice} /\ (t \in {f, Notice} \/ f \in clobbered)
  <2>1. temp[NameOf[f]] \in Files /\ (temp[NameOf[f]] = f \/ f \in clobbered)
    BY <1>f, <1>1, <1>2, FileFacts DEF FileInv, Typed
  <2>2. t = temp[NameOf[f]] \/ t = Notice
    BY <1>f DEF Texts
  <2>3. QED
    BY <2>1, <2>2
<1>6. /\ found' \in [Uploads -> Files \cup {None, Notice}] /\ found'[u] = t
      /\ \A v \in Uploads \ {u} : found'[v] = found[v]
      /\ temp' \in [Names -> Files \cup {None}]
  BY <1>1, <1>4, <1>5 DEF Typed
<1>7. Typed'
  BY <1>1, <1>2, <1>3, <1>6 DEF Typed
<1>8. FileInv(u)'
  BY <1>f, <1>1, <1>2, <1>3, <1>5, <1>6, Values DEF FileInv, Working
<1>9. DocumentInv(f)'
  BY <1>1, <1>3, SameDocument
<1>10. UploadStep(u)
  BY <1>f, <1>1, <1>2, <1>3, <1>6 DEF UploadStep, TempRemoved
<1>11. QED
  BY <1>f, <1>2, <1>7, <1>8, <1>9, <1>10, UploadStepInv

LEMMA ExtractNothingInv ==
    ASSUME MaterialInv, NEW u \in Uploads, ExtractNothing(u)
    PROVE  MaterialInv'
<1> USE DEF MaterialInv
<1> DEFINE row == [status |-> "failed", progress |-> 100]
<1>f. PICK f \in Files : f = File(u)
  BY FileFacts
<1>1. /\ Report(u, "saved", "error") /\ Set(f, row)
      /\ temp' = [temp EXCEPT ![NameOf[f]] = None]
      /\ lesson' = lesson /\ quizzed' = quizzed /\ texts' = texts /\ bucket' = bucket
      /\ found' = found /\ clobbered' = clobbered
  BY <1>f DEF ExtractNothing
<1>2. /\ pc' \in [Requests -> UploadPlaces] /\ pc[u] = "saved" /\ pc'[u] \in {"next", "ok"}
      /\ at' \in [Uploads -> Nat] /\ \A v \in Uploads : at'[v] \in 1..Len(Batch[v])
      /\ outcome' \in [Files -> {None, "success", "error"}] /\ outcome'[f] = "error"
      /\ \A v \in Uploads \ {u} : pc'[v] = pc[v] /\ at'[v] = at[v]
      /\ \A g \in Files \ {f} : outcome'[g] = outcome[g]
      /\ ReportsInv(u)'
  BY <1>f, <1>1, ReportFacts DEF UploadPlaces
<1>3. row \in Docs /\ row # Absent /\ row.status = "failed"
  BY DEF Docs, Absent, None
<1> HIDE DEF row
<1>4. /\ docs' \in [Files -> Docs] /\ \A g \in Files \ {f} : docs'[g] = docs[g]
      /\ docs'[f] = Absent <=> docs[f] = Absent
      /\ docs[f] # Absent => docs'[f] = row
  BY <1>1, <1>3, SetFacts
<1>5. temp' \in [Names -> Files \cup {None}]
  BY <1>1 DEF Typed
<1>6. Typed'
  BY <1>1, <1>2, <1>4, <1>5 DEF Typed
<1>7. FileInv(u)'
  BY <1>2 DEF FileInv, Working
<1>8. DocumentInv(f)'
  <2>1. lesson => docs[f] # Absent
    BY <1>f, <1>2 DEF FileInv, Working
  <2>2. QED
    BY <1>1, <1>2, <1>3, <1>4, <2>1, Values DEF DocumentInv
<1>9. UploadStep(u)
  BY <1>f, <1>1, <1>2, <1>4 DEF UploadStep, TempRemoved
<1>10. QED
  BY <1>f, <1>2, <1>6, <1>7, <1>8, <1>9, UploadStepInv

LEMMA UploadToS3Inv ==
    ASSUME MaterialInv, NEW u \in Uploads, UploadToS3(u)
    PROVE  MaterialInv'
<1> USE DEF MaterialInv
<1>f. PICK f \in Files : f = File(u)
  BY FileFacts
<1>1. /\ Goto(u, "extracted", "uploaded") /\ bucket' = [bucket EXCEPT ![f] = "empty"]
      /\ Progress(f, 80)
      /\ lesson' = lesson /\ quizzed' = quizzed /\ texts' = texts /\ temp' = temp
      /\ at' = at /\ found' = found /\ outcome' = outcome /\ clobbered' = clobbered
  BY <1>f DEF UploadToS3
<1>2. /\ pc' \in [Requests -> UploadPlaces] /\ pc[u] = "extracted" /\ pc'[u] = "uploaded"
      /\ \A v \in Uploads \ {u} : pc'[v] = pc[v]
      /\ File(u)' = f /\ ReportsInv(u)'
  BY <1>f, <1>1, GoesOn DEF UploadPlaces
<1>3. /\ docs' \in [Files -> Docs] /\ \A g \in Files \ {f} : docs'[g] = docs[g]
      /\ docs'[f] = Absent <=> docs[f] = Absent
      /\ docs'[f].status = docs[f].status
  BY <1>1, ProgressFacts
<1>4. /\ bucket' \in [Files -> {None, "file", "empty"}] /\ bucket'[f] # None
      /\ \A g \in Files \ {f} : bucket'[g] = bucket[g]
  BY <1>1 DEF Typed, None
<1>5. Typed'
  BY <1>1, <1>2, <1>3, <1>4 DEF Typed
<1>6. FileInv(u)'
  BY <1>f, <1>1, <1>2, <1>3, <1>4 DEF FileInv, Working
<1>7. DocumentInv(f)'
  BY <1>1, <1>3, <1>4, SameDocument
<1>8. UploadStep(u)
  BY <1>f, <1>1, <1>2, <1>3, <1>4 DEF UploadStep, TempLeft
<1>9. QED
  BY <1>f, <1>2, <1>5, <1>6, <1>7, <1>8, UploadStepInv

LEMMA StoreTextInv ==
    ASSUME MaterialInv, NEW u \in Uploads, StoreText(u)
    PROVE  MaterialInv'
<1> USE DEF MaterialInv
<1>f. PICK f \in Files : f = File(u)
  BY FileFacts
<1>1. /\ Goto(u, "uploaded", "stored") /\ docs[f] # Absent
      /\ lesson' = lesson /\ quizzed' = quizzed /\ docs' = docs /\ temp' = temp
      /\ bucket' = bucket /\ at' = at /\ found' = found /\ outcome' = outcome
      /\ clobbered' = clobbered
  BY <1>f DEF StoreText
<1>2. /\ pc' \in [Requests -> UploadPlaces] /\ pc[u] = "uploaded" /\ pc'[u] = "stored"
      /\ \A v \in Uploads \ {u} : pc'[v] = pc[v]
      /\ File(u)' = f /\ ReportsInv(u)'
  BY <1>f, <1>1, GoesOn DEF UploadPlaces
<1>3. PICK t \in {found[u], Notice} : texts' = [texts EXCEPT ![f] = t]
  BY <1>f DEF StoreText
<1>4. t \in Files \cup {Notice} /\ (t \in {f, Notice} \/ f \in clobbered)
  BY <1>f, <1>2 DEF FileInv, Typed
<1>5. /\ texts' \in [Files -> Files \cup {None, Notice}] /\ texts'[f] = t
      /\ \A g \in Files \ {f} : texts'[g] = texts[g]
  BY <1>3, <1>4 DEF Typed
<1>6. Typed'
  BY <1>1, <1>2, <1>5 DEF Typed
<1>7. FileInv(u)'
  BY <1>f, <1>1, <1>2, <1>4, <1>5, Values DEF FileInv, Working
<1>8. DocumentInv(f)'
  BY <1>1, <1>4, <1>5, Values DEF DocumentInv
<1>9. UploadStep(u)
  BY <1>f, <1>1, <1>2, <1>5 DEF UploadStep, TempLeft
<1>10. QED
  BY <1>f, <1>2, <1>6, <1>7, <1>8, <1>9, UploadStepInv

\* What is completed by now has its text and its object.
LEMMA CompleteInv ==
    ASSUME MaterialInv, NEW u \in Uploads, Complete(u)
    PROVE  MaterialInv'
<1> USE DEF MaterialInv
<1> DEFINE row == [status |-> "completed", progress |-> 100]
<1>f. PICK f \in Files : f = File(u)
  BY FileFacts
<1>1. /\ Report(u, "stored", "success") /\ Set(f, row)
      /\ lesson' = lesson /\ quizzed' = quizzed /\ texts' = texts /\ temp' = temp
      /\ bucket' = bucket /\ found' = found /\ clobbered' = clobbered
  BY <1>f DEF Complete
<1>2. /\ pc' \in [Requests -> UploadPlaces] /\ pc[u] = "stored" /\ pc'[u] \in {"next", "ok"}
      /\ at' \in [Uploads -> Nat] /\ \A v \in Uploads : at'[v] \in 1..Len(Batch[v])
      /\ outcome' \in [Files -> {None, "success", "error"}] /\ outcome'[f] = "success"
      /\ \A v \in Uploads \ {u} : pc'[v] = pc[v] /\ at'[v] = at[v]
      /\ \A g \in Files \ {f} : outcome'[g] = outcome[g]
      /\ ReportsInv(u)'
  BY <1>f, <1>1, ReportFacts DEF UploadPlaces
<1>3. row \in Docs /\ row # Absent /\ row.status = "completed"
  BY DEF Docs, Absent, None
<1> HIDE DEF row
<1>4. /\ docs' \in [Files -> Docs] /\ \A g \in Files \ {f} : docs'[g] = docs[g]
      /\ docs'[f] = Absent <=> docs[f] = Absent
      /\ docs[f] # Absent => docs'[f] = row
  BY <1>1, <1>3, SetFacts
<1>5. Typed'
  BY <1>1, <1>2, <1>4 DEF Typed
<1>6. FileInv(u)'
  BY <1>2 DEF FileInv, Working
<1>7. DocumentInv(f)'
  <2>1. /\ lesson => docs[f] # Absent
        /\ bucket[f] # None /\ (docs[f] # Absent => texts[f] # None)
    BY <1>f, <1>2 DEF FileInv, Working
  <2>2. QED
    BY <1>1, <1>2, <1>3, <1>4, <2>1, Values DEF DocumentInv
<1>8. UploadStep(u)
  BY <1>f, <1>1, <1>2, <1>4 DEF UploadStep, TempLeft
<1>9. QED
  BY <1>f, <1>2, <1>5, <1>6, <1>7, <1>8, UploadStepInv

LEMMA AbortInv ==
    ASSUME MaterialInv, NEW u \in Uploads, Abort(u)
    PROVE  MaterialInv'
<1> USE DEF MaterialInv
<1>1. /\ pc[u] \in Working /\ Goto(u, pc[u], "failed")
      /\ lesson' = lesson /\ quizzed' = quizzed /\ docs' = docs /\ texts' = texts /\ temp' = temp
      /\ bucket' = bucket /\ at' = at /\ found' = found /\ outcome' = outcome
      /\ clobbered' = clobbered
  BY DEF Abort, rows, Working, Goto
<1>2. /\ pc' \in [Requests -> UploadPlaces] /\ pc'[u] = "failed"
      /\ \A v \in Uploads \ {u} : pc'[v] = pc[v]
      /\ ReportsInv(u)'
  BY <1>1, GoesOn DEF UploadPlaces, Working
<1>3. Typed'
  BY <1>1, <1>2 DEF Typed
<1>4. FileInv(u)'
  BY <1>2 DEF FileInv, Working
<1>5. \A f \in Files : DocumentInv(f)'
  BY <1>1 DEF DocumentInv
<1>6. UploadStep(u)
  BY <1>1, <1>2 DEF UploadStep, TempLeft, Working
<1>7. QED
  BY <1>2, <1>3, <1>4, <1>5, <1>6, UploadStepInv

-----------------------------------------------------------------------------
(* The steps of the lesson and of its readers.                             *)

LEMMA DeleteLessonInv ==
    ASSUME MaterialInv, NEW d \in Deleters, DeleteLesson(d)
    PROVE  MaterialInv'
<1> USE DEF MaterialInv
<1>1. /\ pc' = [pc EXCEPT ![d] = "ok"] /\ lesson' = FALSE /\ quizzed' = quizzed
      /\ docs' = [f \in Files |-> Absent] /\ texts' = [f \in Files |-> None]
      /\ temp' = temp /\ bucket' = bucket /\ at' = at /\ found' = found
      /\ outcome' = outcome /\ clobbered' = clobbered
  BY DEF DeleteLesson, Goto
<1>2. pc' \in [Requests -> UploadPlaces] /\ \A u \in Uploads : pc'[u] = pc[u]
  BY <1>1, RequestsAssumption DEF Typed, UploadPlaces, Requests
<1>3. Typed'
  BY <1>1, <1>2, Values DEF Typed
<1>4. \A u \in Uploads : ReportsInv(u)' /\ FileInv(u)'
  BY <1>1, <1>2, FileFacts DEF ReportsInv, FileInv, File
<1>5. \A f \in Files : DocumentInv(f)'
  BY <1>1, Values DEF DocumentInv
<1>6. \A n \in Names : TempInv(n)'
  BY <1>1, <1>2 DEF TempInv, File
<1>7. QED
  BY <1>3, <1>4, <1>5, <1>6

\* A quiz, a refused deletion and a listing change no document and no upload.
LEMMA QuietInv ==
    ASSUME MaterialInv, lesson' = lesson, quizzed' \in BOOLEAN, docs' = docs, texts' = texts,
           temp' = temp, bucket' = bucket, at' = at, found' = found, outcome' = outcome,
           clobbered' = clobbered, pc' \in [Requests -> UploadPlaces],
           \A u \in Uploads : pc'[u] = pc[u]
    PROVE  MaterialInv'
<1> USE DEF MaterialInv
<1>1. Typed'
  BY DEF Typed
<1>2. \A u \in Uploads : ReportsInv(u)' /\ FileInv(u)'
  BY DEF ReportsInv, FileInv, File
<1>3. \A f \in Files : DocumentInv(f)'
  BY DEF DocumentInv
<1>4. \A n \in Names : TempInv(n)'
  BY DEF TempInv, File
<1>5. QED
  BY <1>1, <1>2, <1>3, <1>4

-----------------------------------------------------------------------------
(* The theorems.                                                           *)

LEMMA MaterialInitInv == Init => MaterialInv
<1> SUFFICES ASSUME Init PROVE MaterialInv
  OBVIOUS
<1>1. \A u \in Uploads : Batch[u] \in Seq(Files) /\ Len(Batch[u]) \in Nat /\ Len(Batch[u]) > 0
                         /\ DOMAIN Batch[u] = 1..Len(Batch[u])
  BY FilesAssumption
<1>2. Typed
  <2>1. at \in [Uploads -> Nat] /\ \A u \in Uploads : at[u] \in 1..Len(Batch[u])
    BY <1>1 DEF Init
  <2>2. pc \in [Requests -> UploadPlaces]
    BY DEF Init, UploadPlaces
  <2>3. docs \in [Files -> Docs]
    BY Values DEF Init
  <2>4. QED
    BY <2>1, <2>2, <2>3 DEF Init, Typed
<1>3. \A u \in Uploads : pc[u] = "next" /\ at[u] = 1
  BY DEF Init, Requests
<1>4. ASSUME NEW u \in Uploads PROVE ReportsInv(u) /\ FileInv(u)
  <2>1. \A i \in DOMAIN Batch[u] : Batch[u][i] \in Files /\ 1 <= i
    BY <1>1
  <2>2. ReportsInv(u)
    BY <1>3, <2>1 DEF ReportsInv, Init
  <2>3. QED
    BY <1>3, <2>2 DEF FileInv, Working
<1>5. \A f \in Files : DocumentInv(f)
  BY Values DEF Init, DocumentInv
<1>6. \A n \in Names : TempInv(n)
  BY DEF Init, TempInv
<1>7. QED
  BY <1>2, <1>4, <1>5, <1>6 DEF MaterialInv

LEMMA MaterialNextInv == MaterialInv /\ [Next]_vars => MaterialInv'
<1> SUFFICES ASSUME MaterialInv, [Next]_vars PROVE MaterialInv'
  OBVIOUS
<1>1. CASE UNCHANGED vars
  BY <1>1, QuietInv DEF vars, MaterialInv, Typed
<1>2. ASSUME NEW u \in Uploads,
             \/ CreateRecord(u) \/ SaveTemp(u) \/ Extract(u) \/ ExtractNothing(u)
             \/ UploadToS3(u) \/ StoreText(u) \/ Complete(u) \/ Abort(u)
      PROVE  MaterialInv'
  BY <1>2, CreateRecordInv, SaveTempInv, ExtractInv, ExtractNothingInv, UploadToS3Inv,
     StoreTextInv, CompleteInv, AbortInv
<1>3. CASE GenerateQuiz
  BY <1>3, QuietInv DEF GenerateQuiz, rows, MaterialInv, Typed
<1>4. ASSUME NEW d \in Deleters, DeleteLesson(d) \/ DeleteRefused(d) PROVE MaterialInv'
  <2>1. CASE DeleteRefused(d)
    <3>1. pc' \in [Requests -> UploadPlaces] /\ \A u \in Uploads : pc'[u] = pc[u]
      BY <2>1, RequestsAssumption DEF DeleteRefused, Goto, MaterialInv, Typed, UploadPlaces, Requests
    <3>2. QED
      BY <2>1, <3>1, QuietInv DEF DeleteRefused, rows, MaterialInv, Typed
  <2>2. QED
    BY <1>4, <2>1, DeleteLessonInv
<1>5. ASSUME NEW v \in Readers, ListDocuments(v) PROVE MaterialInv'
  <2>1. pc' \in [Requests -> UploadPlaces] /\ \A u \in Uploads : pc'[u] = pc[u]
    BY <1>5, RequestsAssumption DEF ListDocuments, Goto, MaterialInv, Typed, UploadPlaces, Requests
  <2>2. QED
    BY <1>5, <2>1, QuietInv DEF ListDocuments, rows, MaterialInv, Typed
<1>6. QED
  BY <1>1, <1>2, <1>3, <1>4, <1>5 DEF Next

LEMMA MaterialInvariant == Spec => []MaterialInv
BY MaterialInitInv, MaterialNextInv, PTL DEF Spec

\* Every variable keeps its type, and no extracted text is stored without its document:
\* process_document of utils/file_processor.py and delete_lesson of machine/api/v1/lesson.py.
THEOREM MaterialTypesHold == Spec => []TypeOK
<1>1. MaterialInv => TypeOK
  BY DEF MaterialInv, Typed, TypeOK, DocumentInv, Docs, UploadPlaces
<1>2. QED
  BY <1>1, MaterialInvariant, PTL

\* What process_document reports of each file of any upload is what its document says, and a
\* completed document has its text and its object, whatever step another upload fails at and
\* whenever the lesson is deleted (utils/file_processor.py, machine/api/v1/lesson.py).
THEOREM DocumentsStayAsReported == Spec => []DocumentsAreAsReported
<1>1. MaterialInv => OutcomeIsStored
  <2> SUFFICES ASSUME MaterialInv, NEW u \in Uploads, pc[u] = "ok", NEW i \in DOMAIN Batch[u]
               PROVE  outcome[Batch[u][i]] # None
    BY DEF OutcomeIsStored, MaterialInv, DocumentInv
  <2>1. QED
    BY DEF MaterialInv, ReportsInv
<1>2. MaterialInv => CompletedIsWhole
  BY DEF MaterialInv, DocumentInv, CompletedIsWhole
<1>3. MaterialInv => DocumentsAreAsReported
  BY <1>1, <1>2 DEF DocumentsAreAsReported
<1>4. QED
  BY <1>3, MaterialInvariant, PTL

\* However many uploads copy to the same temporary name, a stored text is its own file's
\* unless another copied there before the extraction, and a temporary file stays behind only
\* with an upload that was aborted (utils/file_processor.py names it after the upload's file).
THEOREM TempFilesStaySound == Spec => []TempFilesAreSound
<1>1. MaterialInv => TextIsOfItsFile
  BY DEF MaterialInv, DocumentInv, TextIsOfItsFile
<1>2. MaterialInv => TempFilesAreRemoved
  <2> SUFFICES ASSUME MaterialInv, NEW n \in Names, temp[n] # None
               PROVE  \E u \in Uploads : pc[u] \in {"saved", "failed"}
                                         /\ temp[n] \in {Batch[u][i] : i \in 1..at[u]}
    BY DEF TempFilesAreRemoved
  <2>1. PICK u \in Uploads : pc[u] \in {"saved", "failed"} /\ temp[n] = File(u)
    BY DEF MaterialInv, TempInv
  <2>2. at[u] \in 1..at[u]
    BY FileFacts DEF MaterialInv
  <2>3. QED
    BY <2>1, <2>2 DEF File
<1>3. MaterialInv => TempFilesAreSound
  BY <1>1, <1>2 DEF TempFilesAreSound
<1>4. QED
  BY <1>3, MaterialInvariant, PTL

-----------------------------------------------------------------------------
(* The inductive invariant of the exercises.                               *)

RequestPlaces == {"idle", "found", "checked", "ok", "refused", "error", "no tests"}
Tests  == [exercise : ExerciseIds, public : BOOLEAN, by : Callers]

\* What a request was sent with and has read, as far as its later steps rely on it.
SentInv(r) ==
    /\ r \in Creations /\ reached[r] \in {"checked", "ok"} =>
         ask[r].shape \in Shapes /\ ask[r].body \in Bodies
    /\ r \in Updates /\ reached[r] \in {"found", "checked", "ok"} =>
         ask[r].shape \in Shapes /\ ask[r].body \in Bodies /\ ask[r].exercise \in ExerciseIds
    /\ r \in Deletions /\ reached[r] = "checked" /\ ask[r].shape = "quiz" => held[r].shape \in Shapes
    /\ held[r] = NoRow \/ held[r].shape \in Shapes

\* A request that has changed something has been answered, and how.
AnswerInv(r) ==
    r \in did =>
      \/ reached[r] = "ok"
      \/ reached[r] = "error" /\ r \in Deletions /\ ask[r].shape = "quiz" /\ held[r].shape = "code"

\* A row is the one that an answered request sent, or a seed's.
RowInv(e) ==
    LET row == exercises[e] IN
    /\ row.type \in Types \cup Shapes /\ row.shape \in Shapes
    /\ row.course \in courses \cup {NoCourse}
    /\ row.by \in Callers =>
         /\ reached[row.by] = "ok" /\ row.by \in Creations \cup Updates
         /\ row = Row(row.by, ask[row.by].shape, ask[row.by].body)

\* An exercise's identity was given once.
IdentityInv ==
    /\ DOMAIN exercises \subseteq ExerciseIds /\ deleted \subseteq ExerciseIds
    /\ deleted \cap DOMAIN exercises = {}
    /\ \A r \in Creations : r \in DOMAIN exercises \cup deleted => reached[r] = "ok"

PartsInv ==
    /\ courses \subseteq Courses
    /\ attempts \subseteq DOMAIN exercises
    /\ DOMAIN tests \subseteq TestCreations
    /\ \A t \in DOMAIN tests : tests[t] \in Tests /\ Exists(tests[t].exercise)
    /\ \A c \in configs : c.language \in Languages /\ Exists(c.exercise)
    /\ OneConfigPerLanguage

ExerciseInv ==
    /\ reached \in [Callers -> RequestPlaces] /\ DOMAIN ask = Callers /\ DOMAIN held = Callers
    /\ did \subseteq Callers
    /\ \A r \in Callers : SentInv(r) /\ AnswerInv(r)
    /\ \A e \in DOMAIN exercises : RowInv(e)
    /\ IdentityInv
    /\ PartsInv

-----------------------------------------------------------------------------
(* Tables, and what a step of one request leaves alone.                    *)

LEMMA RestrictFacts ==
    ASSUME NEW table, NEW S
    PROVE  /\ DOMAIN Restrict(table, S) = S
           /\ \A x \in S : Restrict(table, S)[x] = table[x]
BY DEF Restrict

LEMMA Moved ==
    ASSUME ExerciseInv, NEW r \in Callers, NEW from, NEW to \in RequestPlaces, Reach(r, from, to)
    PROVE  /\ reached' \in [Callers -> RequestPlaces] /\ reached[r] = from /\ reached'[r] = to
           /\ \A x \in Callers \ {r} : reached'[x] = reached[x]
BY DEF ExerciseInv, Reach

\* The requests' own part of a step: one that has not been answered moves.
RequestStep(r) ==
    /\ reached[r] \in {"idle", "found", "checked"}
    /\ reached' \in [Callers -> RequestPlaces] /\ DOMAIN ask' = Callers /\ DOMAIN held' = Callers
    /\ \A x \in Callers \ {r} : reached'[x] = reached[x] /\ ask'[x] = ask[x] /\ held'[x] = held[x]
    /\ did' = did \/ did' = did \cup {r}

LEMMA StepInv ==
    ASSUME ExerciseInv, NEW r \in Callers, RequestStep(r), courses' = courses,
           SentInv(r)', AnswerInv(r)', IdentityInv', PartsInv',
           \A e \in DOMAIN exercises' :
              (e \in DOMAIN exercises /\ exercises'[e] = exercises[e]) \/ RowInv(e)'
    PROVE  ExerciseInv'
<1> USE DEF ExerciseInv
<1>1. ASSUME NEW x \in Callers PROVE SentInv(x)' /\ AnswerInv(x)'
  <2>1. CASE x = r
    BY <2>1
  <2>2. CASE x # r
    <3>1. /\ reached'[x] = reached[x] /\ ask'[x] = ask[x] /\ held'[x] = held[x]
          /\ x \in did' <=> x \in did
      BY <2>2 DEF RequestStep
    <3>2. SentInv(x) /\ AnswerInv(x)
      OBVIOUS
    <3>3. QED
      BY <3>1, <3>2 DEF SentInv, AnswerInv
  <2>3. QED
    BY <2>1, <2>2
<1>2. ASSUME NEW e \in DOMAIN exercises, exercises'[e] = exercises[e] PROVE RowInv(e)'
  <2>1. RowInv(e)
    OBVIOUS
  <2>2. ASSUME exercises[e].by \in Callers
        PROVE  /\ reached'[exercises[e].by] = reached[exercises[e].by]
               /\ ask'[exercises[e].by] = ask[exercises[e].by]
    BY <2>1, <2>2 DEF RowInv, RequestStep
  <2>3. QED
    BY <1>2, <2>1, <2>2 DEF RowInv
<1>3. \A e \in DOMAIN exercises' : RowInv(e)'
  BY <1>2
<1>4. QED
  BY <1>1, <1>3 DEF RequestStep

\* A step that changes no table.
LEMMA QuietStep ==
    ASSUME ExerciseInv, NEW r \in Callers, RequestStep(r), UNCHANGED <<exerciseRows, did, deleted>>, SentInv(r)'
    PROVE  ExerciseInv'
<1> USE DEF ExerciseInv
<1>1. /\ exercises' = exercises /\ courses' = courses /\ attempts' = attempts
      /\ tests' = tests /\ configs' = configs /\ did' = did /\ deleted' = deleted
  BY DEF exerciseRows
<1>2. AnswerInv(r)'
  BY <1>1 DEF AnswerInv, RequestStep
<1>3. IdentityInv'
  <2>1. Creations \subseteq Callers
    BY DEF Callers
  <2>2. QED
    BY <1>1, <2>1 DEF IdentityInv, RequestStep
<1>4. PartsInv'
  BY <1>1 DEF PartsInv, Exists, OneConfigPerLanguage
<1>5. QED
  BY <1>1, <1>2, <1>3, <1>4, StepInv

\* What a lookup finds.
LEMMA LookupFacts ==
    ASSUME ExerciseInv, NEW e
    PROVE  /\ Lookup(e) = NoRow \/ Lookup(e).shape \in Shapes
           /\ Lookup(e) # NoRow => Lookup(e).shape \in Shapes
BY DEF ExerciseInv, RowInv, Lookup, Exists

\* A request that neither adds, edits nor deletes an exercise.
LEMMA OthersSent ==
    ASSUME NEW r, r \notin Creations, r \notin Updates, r \notin Deletions,
           held'[r] = NoRow \/ held'[r].shape \in Shapes
    PROVE  SentInv(r)'
BY DEF SentInv

Others == Readings \cup TestCreations \cup TestChanges \cup ConfigAdditions \cup Submissions

LEMMA Kinds ==
    /\ Creations \subseteq Callers /\ Updates \subseteq Callers
    /\ Deletions \subseteq Callers /\ Others \subseteq Callers
    /\ \A r \in Creations : r \notin Updates /\ r \notin Deletions /\ r \notin Others /\ r \notin Seeds
    /\ \A r \in Updates : r \notin Deletions /\ r \notin Others
    /\ \A r \in Deletions : r \notin Others
    /\ TestChanges \subseteq Callers /\ TestCreations \subseteq Callers
    /\ \A r \in TestChanges : /\ r \notin TestCreations /\ r \notin ConfigAdditions
                              /\ r \notin Readings /\ r \notin Submissions
    /\ "seed" \notin Callers
BY KindsAssumption DEF Callers, Others

-----------------------------------------------------------------------------
(* Adding and editing.                                                     *)

LEMMA CheckNewInv ==
    ASSUME ExerciseInv, NEW r, NEW shape \in Shapes, CheckNew(r, shape)
    PROVE  ExerciseInv'
<1> USE DEF ExerciseInv
<1>1. r \in Creations /\ UNCHANGED <<exerciseRows, did, deleted>> /\ held' = held
  BY DEF CheckNew
<1>2. r \in Callers /\ r \notin Updates /\ r \notin Deletions
  BY <1>1, Kinds
<1>3. held[r] = NoRow \/ held[r].shape \in Shapes
  BY <1>2 DEF SentInv
<1>4. CASE Refuse(r, "idle")
  <2>1. RequestStep(r) /\ reached'[r] = "refused"
    BY <1>1, <1>2, <1>4, Moved DEF Refuse, RequestStep, RequestPlaces
  <2>2. SentInv(r)'
    BY <1>1, <1>2, <1>3, <2>1 DEF SentInv
  <2>3. QED
    BY <1>1, <1>2, <2>1, <2>2, QuietStep
<1>5. ASSUME NEW b \in Bodies, Reach(r, "idle", "checked"),
             ask' = [ask EXCEPT ![r] = [shape |-> shape, body |-> b]]
      PROVE  ExerciseInv'
  <2>1. ask'[r] = [shape |-> shape, body |-> b]
    BY <1>2, <1>5
  <2>2. RequestStep(r)
    BY <1>1, <1>2, <1>5, Moved DEF RequestStep, RequestPlaces
  <2>3. SentInv(r)'
    BY <1>1, <1>2, <1>3, <2>1 DEF SentInv
  <2>4. QED
    BY <1>1, <1>2, <2>2, <2>3, QuietStep
<1>6. QED
  BY <1>4, <1>5 DEF CheckNew

\* A row as a request sends it is typed, and is the request's.
LEMMA RowFacts ==
    ASSUME NEW r, NEW shape \in Shapes, NEW b \in Bodies
    PROVE  /\ Row(r, shape, b).by = r /\ Row(r, shape, b).shape \in Shapes
           /\ Row(r, shape, b).type \in Types /\ Row(r, shape, b).course = b.course
           /\ b.course \in Courses
BY DEF Row, Bodies

LEMMA InsertInv ==
    ASSUME ExerciseInv, NEW r, NEW shape \in Shapes, Insert(r, shape)
    PROVE  ExerciseInv'
<1> USE DEF ExerciseInv
<1> DEFINE row == Row(r, shape, ask[r].body)
<1>1. /\ r \in Creations /\ courses' = courses /\ attempts' = attempts /\ tests' = tests
      /\ configs' = configs /\ ask' = ask /\ held' = held /\ deleted' = deleted
      /\ reached[r] = "checked" /\ ask[r].shape = shape
  BY DEF Insert, Step
<1>2. r \in Callers /\ r \notin Updates /\ r \notin Deletions
  BY <1>1, Kinds
<1>3. SentInv(r) /\ ask[r].body \in Bodies
  BY <1>1, <1>2 DEF SentInv
<1>4. CASE Reach(r, "checked", "error") /\ UNCHANGED <<exercises, did>>
  <2>1. RequestStep(r) /\ reached'[r] = "error"
    BY <1>1, <1>2, <1>4, Moved DEF RequestStep, RequestPlaces
  <2>2. SentInv(r)'
    BY <1>1, <1>2, <1>3, <2>1 DEF SentInv
  <2>3. QED
    BY <1>1, <1>2, <1>4, <2>1, <2>2, QuietStep DEF exerciseRows
<1>5. CASE /\ Reach(r, "checked", "ok") /\ ask[r].body.course \in courses
           /\ exercises' = With(exercises, r, row) /\ did' = did \cup {r}
  <2>1. RequestStep(r) /\ reached'[r] = "ok"
    BY <1>1, <1>2, <1>5, Moved DEF RequestStep, RequestPlaces
  <2>2. /\ DOMAIN exercises' = DOMAIN exercises \cup {r} /\ exercises'[r] = row
        /\ \A e \in DOMAIN exercises \ {r} : exercises'[e] = exercises[e]
    <3> HIDE DEF row
    <3>1. exercises' = With(exercises, r, row)
      BY <1>5
    <3>2. QED
      BY <3>1 DEF With
  <2>3. r \notin DOMAIN exercises /\ r \notin deleted
    BY <1>1 DEF IdentityInv
  <2>4. SentInv(r)' /\ AnswerInv(r)'
    BY <1>1, <1>2, <1>3, <2>1 DEF SentInv, AnswerInv
  <2>5. RowInv(r)'
    BY <1>1, <1>2, <1>3, <1>5, <2>1, <2>2, RowFacts DEF RowInv
  <2>6. IdentityInv'
    <3>1. r \in ExerciseIds /\ Creations \subseteq Callers
      BY <1>1, Kinds DEF ExerciseIds
    <3>2. QED
      BY <1>1, <2>1, <2>2, <2>3, <3>1 DEF IdentityInv, RequestStep
  <2>7. PartsInv'
    BY <1>1, <2>2 DEF PartsInv, Exists, OneConfigPerLanguage
  <2>8. QED
    BY <1>1, <1>2, <2>1, <2>2, <2>4, <2>5, <2>6, <2>7, StepInv
<1>6. QED
  BY <1>4, <1>5 DEF Insert, Step

LEMMA FindInv ==
    ASSUME ExerciseInv, NEW r, NEW shape \in Shapes,
           Find(r, shape) \/ CheckBody(r, shape)
    PROVE  ExerciseInv'
<1> USE DEF ExerciseInv
<1>1. r \in Updates /\ UNCHANGED <<exerciseRows, did, deleted>> /\ held' = held
  BY DEF Find, CheckBody
<1>2. r \in Callers /\ r \notin Creations /\ r \notin Deletions
  BY <1>1, Kinds
<1>3. SentInv(r) /\ (held[r] = NoRow \/ held[r].shape \in Shapes)
  BY <1>2 DEF SentInv
<1>4. ASSUME NEW from \in {"idle", "found"}, Reach(r, from, "refused"), ask' = ask
      PROVE  ExerciseInv'
  <2>1. RequestStep(r) /\ reached'[r] = "refused"
    BY <1>1, <1>2, <1>4, Moved DEF RequestStep, RequestPlaces
  <2>2. SentInv(r)'
    BY <1>1, <1>2, <1>3, <2>1 DEF SentInv
  <2>3. QED
    BY <1>1, <1>2, <2>1, <2>2, QuietStep
<1>5. ASSUME NEW b \in Bodies, NEW e \in ExerciseIds, Reach(r, "idle", "found"),
             ask' = [ask EXCEPT ![r] = [shape |-> shape, body |-> b, exercise |-> e]]
      PROVE  ExerciseInv'
  <2>1. ask'[r] = [shape |-> shape, body |-> b, exercise |-> e]
    BY <1>2, <1>5
  <2>2. RequestStep(r)
    BY <1>1, <1>2, <1>5, Moved DEF RequestStep, RequestPlaces
  <2>3. SentInv(r)'
    BY <1>1, <1>2, <1>3, <2>1 DEF SentInv
  <2>4. QED
    BY <1>1, <1>2, <2>2, <2>3, QuietStep
<1>6. ASSUME Reach(r, "found", "checked"), ask' = ask
      PROVE  ExerciseInv'
  <2>1. RequestStep(r) /\ reached[r] = "found"
    BY <1>1, <1>2, <1>6, Moved DEF RequestStep, RequestPlaces
  <2>2. SentInv(r)'
    BY <1>1, <1>2, <1>3, <1>6, <2>1 DEF SentInv
  <2>3. QED
    BY <1>1, <1>2, <2>1, <2>2, QuietStep
<1>7. QED
  BY <1>4, <1>5, <1>6 DEF Find, CheckBody, Refuse, Step

LEMMA WriteInv ==
    ASSUME ExerciseInv, NEW r, NEW shape \in Shapes, Write(r, shape)
    PROVE  ExerciseInv'
<1> USE DEF ExerciseInv
<1> DEFINE e == ask[r].exercise
           row == Row(r, shape, ask[r].body)
<1>1. /\ r \in Updates /\ courses' = courses /\ attempts' = attempts /\ tests' = tests
      /\ configs' = configs /\ ask' = ask /\ held' = held /\ deleted' = deleted
      /\ reached[r] = "checked" /\ ask[r].shape = shape
  BY DEF Write, Step
<1>2. r \in Callers /\ r \notin Creations /\ r \notin Deletions
  BY <1>1, Kinds
<1>3. SentInv(r) /\ ask[r].body \in Bodies
  BY <1>1, <1>2 DEF SentInv
<1>4. CASE Reach(r, "checked", "error") /\ UNCHANGED <<exercises, did>>
  <2>1. RequestStep(r) /\ reached'[r] = "error"
    BY <1>1, <1>2, <1>4, Moved DEF RequestStep, RequestPlaces
  <2>2. SentInv(r)'
    BY <1>1, <1>2, <1>3, <2>1 DEF SentInv
  <2>3. QED
    BY <1>1, <1>2, <1>4, <2>1, <2>2, QuietStep DEF exerciseRows
<1>5. CASE /\ Reach(r, "checked", "ok") /\ Exists(e) /\ ask[r].body.course \in courses
           /\ exercises' = [exercises EXCEPT ![e] = row] /\ did' = did \cup {r}
  <2>1. RequestStep(r) /\ reached'[r] = "ok"
    BY <1>1, <1>2, <1>5, Moved DEF RequestStep, RequestPlaces
  <2>2. /\ DOMAIN exercises' = DOMAIN exercises /\ exercises'[e] = row
        /\ \A x \in DOMAIN exercises \ {e} : exercises'[x] = exercises[x]
    BY <1>5 DEF Exists
  <2>3. SentInv(r)' /\ AnswerInv(r)'
    BY <1>1, <1>2, <1>3, <2>1 DEF SentInv, AnswerInv
  <2>4. ASSUME NEW x \in DOMAIN exercises, x = e PROVE RowInv(x)'
    BY <1>1, <1>2, <1>3, <1>5, <2>1, <2>2, <2>4, RowFacts DEF RowInv
  <2>5. IdentityInv'
    <3>1. Creations \subseteq Callers
      BY Kinds
    <3>2. QED
      BY <1>1, <1>2, <2>1, <2>2, <3>1 DEF IdentityInv, RequestStep
  <2>6. PartsInv'
    BY <1>1, <2>2 DEF PartsInv, Exists, OneConfigPerLanguage
  <2>7. QED
    BY <1>1, <1>2, <2>1, <2>2, <2>3, <2>4, <2>5, <2>6, StepInv
<1>6. QED
  BY <1>4, <1>5 DEF Write, Step

-----------------------------------------------------------------------------
(* Deleting.                                                               *)

LEMMA FindDeletedInv ==
    ASSUME ExerciseInv, NEW r, NEW by \in Shapes \cup {"ai-generated"}, FindDeleted(r, by)
    PROVE  ExerciseInv'
<1> USE DEF ExerciseInv
<1>1. r \in Deletions /\ UNCHANGED <<exerciseRows, did, deleted>>
  BY DEF FindDeleted
<1>2. r \in Callers /\ r \notin Creations /\ r \notin Updates
  BY <1>1, Kinds
<1>3. CASE Refuse(r, "idle") /\ held' = held
  <2>1. RequestStep(r) /\ reached'[r] = "refused"
    BY <1>1, <1>2, <1>3, Moved DEF Refuse, RequestStep, RequestPlaces
  <2>2. SentInv(r)'
    BY <1>2, <1>3, <2>1 DEF SentInv
  <2>3. QED
    BY <1>1, <1>2, <2>1, <2>2, QuietStep
<1>4. ASSUME NEW e \in ExerciseIds, by = "ai-generated" \/ Accepts(by, Lookup(e)),
             Reach(r, "idle", "checked"),
             ask' = [ask EXCEPT ![r] = [shape |-> by, exercise |-> e]],
             held' = [held EXCEPT ![r] = Lookup(e)]
      PROVE  ExerciseInv'
  <2>1. ask'[r].shape = by /\ held'[r] = Lookup(e)
    BY <1>2, <1>4
  <2>2. RequestStep(r)
    BY <1>1, <1>2, <1>4, Moved DEF RequestStep, RequestPlaces
  <2>3. by = "quiz" => Lookup(e) # NoRow
    BY <1>4 DEF Accepts
  <2>4. SentInv(r)'
    BY <1>2, <2>1, <2>3, LookupFacts DEF SentInv
  <2>5. QED
    BY <1>1, <1>2, <2>2, <2>4, QuietStep
<1>5. QED
  BY <1>3, <1>4 DEF FindDeleted

\* The parts go with their exercise, and only a quiz handler that cannot show code
\* questions answers a deletion with an error.
LEMMA DeleteInv ==
    ASSUME ExerciseInv, NEW r, NEW by \in Shapes \cup {"ai-generated"}, Delete(r, by)
    PROVE  ExerciseInv'
<1> USE DEF ExerciseInv
<1> DEFINE e == ask[r].exercise
<1>1. /\ r \in Deletions /\ courses' = courses /\ ask' = ask /\ held' = held
      /\ reached[r] = "checked" /\ ask[r].shape = by
      /\ Reach(r, "checked", IF Answered(by, held[r]) THEN "ok" ELSE "error")
      /\ exercises' = Restrict(exercises, DOMAIN exercises \ {e})
      /\ attempts' = attempts \ {e}
      /\ tests' = Restrict(tests, {t \in DOMAIN tests : tests[t].exercise # e})
      /\ configs' = {c \in configs : c.exercise # e}
      /\ did' = (IF Exists(e) THEN did \cup {r} ELSE did)
      /\ deleted' = (IF Exists(e) THEN deleted \cup {e} ELSE deleted)
  BY DEF Delete, Step
<1>2. r \in Callers /\ r \notin Creations /\ r \notin Updates /\ SentInv(r)
  BY <1>1, Kinds
<1>3. RequestStep(r) /\ reached'[r] = IF Answered(by, held[r]) THEN "ok" ELSE "error"
  BY <1>1, <1>2, Moved DEF RequestStep, RequestPlaces
<1>4. /\ DOMAIN exercises' = DOMAIN exercises \ {e}
      /\ \A x \in DOMAIN exercises' : exercises'[x] = exercises[x]
      /\ DOMAIN tests' = {t \in DOMAIN tests : tests[t].exercise # e}
      /\ \A t \in DOMAIN tests' : tests'[t] = tests[t]
  BY <1>1, RestrictFacts
<1>5. SentInv(r)'
  BY <1>1, <1>2, <1>3 DEF SentInv
<1>6. AnswerInv(r)'
  <2>1. ASSUME ~ Answered(by, held[r]) PROVE by = "quiz" /\ held[r].shape = "code"
    BY <1>1, <1>2, <2>1 DEF Answered, SentInv, Shapes
  <2>2. QED
    BY <1>1, <1>3, <2>1 DEF AnswerInv
<1>7. IdentityInv'
  <2>1. Creations \subseteq Callers
    BY Kinds
  <2>2. \A x \in Creations : reached[x] = "ok" => reached'[x] = "ok"
    BY <1>1, <1>2, <1>3, <2>1 DEF RequestStep
  <2>3. DOMAIN exercises' \cup deleted' \subseteq DOMAIN exercises \cup deleted
    BY <1>1, <1>4 DEF Exists
  <2>4. deleted' \cap DOMAIN exercises' = {}
    BY <1>1, <1>4 DEF Exists, IdentityInv
  <2>5. QED
    BY <2>2, <2>3, <2>4 DEF IdentityInv
<1>8. PartsInv'
  <2>1. \A t \in DOMAIN tests' : tests'[t] \in Tests /\ tests'[t].exercise \in DOMAIN exercises'
    BY <1>4 DEF PartsInv, Exists
  <2>2. \A c \in configs' : c \in configs /\ c.exercise \in DOMAIN exercises'
    BY <1>1, <1>4 DEF PartsInv, Exists
  <2>3. QED
    BY <1>1, <1>4, <2>1, <2>2, ZenonT(40) DEF PartsInv, Exists, OneConfigPerLanguage
<1>9. QED
  BY <1>1, <1>2, <1>3, <1>4, <1>5, <1>6, <1>7, <1>8, StepInv

LEMMA DeleteCourseInv ==
    ASSUME ExerciseInv, NEW c \in Courses, DeleteCourse(c)
    PROVE  ExerciseInv'
<1> USE DEF ExerciseInv
<1>1. /\ \A e \in DOMAIN exercises : exercises[e].course # c
      /\ courses' = courses \ {c} /\ exercises' = exercises /\ attempts' = attempts
      /\ tests' = tests /\ configs' = configs /\ reached' = reached /\ ask' = ask /\ held' = held
      /\ did' = did /\ deleted' = deleted
  BY DEF DeleteCourse
<1>2. \A r \in Callers : SentInv(r)' /\ AnswerInv(r)'
  BY <1>1 DEF SentInv, AnswerInv
<1>3. \A e \in DOMAIN exercises' : RowInv(e)'
  BY <1>1 DEF RowInv
<1>4. IdentityInv' /\ PartsInv'
  BY <1>1 DEF IdentityInv, PartsInv, Exists, OneConfigPerLanguage
<1>5. QED
  BY <1>1, <1>2, <1>3, <1>4

-----------------------------------------------------------------------------
(* Reading, test cases, configurations and submissions.                    *)

\* What is common to the steps of requests that write no exercise.
LEMMA OthersFacts ==
    ASSUME ExerciseInv, NEW r \in Others
    PROVE  /\ r \in Callers /\ r \notin Creations /\ r \notin Updates /\ r \notin Deletions
           /\ held[r] = NoRow \/ held[r].shape \in Shapes
BY Kinds DEF ExerciseInv, SentInv

\* ... and that change no table.
LEMMA QuietOthers ==
    ASSUME ExerciseInv, NEW r \in Others, NEW from \in {"idle", "checked"}, NEW to \in RequestPlaces,
           Reach(r, from, to), UNCHANGED <<exerciseRows, did, deleted>>,
           ask' = ask \/ \E a : ask' = [ask EXCEPT ![r] = a],
           held' = held \/ \E e : held' = [held EXCEPT ![r] = Lookup(e)]
    PROVE  ExerciseInv'
<1> USE DEF ExerciseInv
<1>1. r \in Callers /\ r \notin Creations /\ r \notin Updates /\ r \notin Deletions
  BY OthersFacts
<1>2. /\ DOMAIN held' = Callers /\ \A x \in Callers \ {r} : held'[x] = held[x]
      /\ held'[r] = NoRow \/ held'[r].shape \in Shapes
  <2>1. CASE held' = held
    BY <2>1, OthersFacts
  <2>2. ASSUME NEW e, held' = [held EXCEPT ![r] = Lookup(e)]
        PROVE  /\ DOMAIN held' = Callers /\ \A x \in Callers \ {r} : held'[x] = held[x]
               /\ held'[r] = Lookup(e)
    BY <1>1, <2>2
  <2>3. QED
    BY <2>1, <2>2, LookupFacts
<1>3. RequestStep(r)
  BY <1>1, <1>2, Moved DEF RequestStep
<1>4. SentInv(r)'
  BY <1>1, <1>2, OthersSent
<1>5. QED
  BY <1>1, <1>3, <1>4, QuietStep

LEMMA QuietStepsInv ==
    ASSUME ExerciseInv, NEW r,
           \/ \E shape \in Shapes : Read(r, shape)
           \/ FindTestcase(r) \/ FindExercise(r) \/ FindTests(r)
    PROVE  ExerciseInv'
<1>1. r \in Others
  BY DEF Read, FindTestcase, FindExercise, FindTests, Others
<1>2. ASSUME NEW shape \in Shapes, Read(r, shape) PROVE ExerciseInv'
  <2>1. UNCHANGED <<exerciseRows, did, deleted>>
    BY <1>2 DEF Read
  <2>2. PICK e \in ExerciseIds, to \in {"refused", "error", "ok"} :
          /\ ask' = [ask EXCEPT ![r] = [shape |-> shape, exercise |-> e]]
          /\ held' = [held EXCEPT ![r] = Lookup(e)] /\ Reach(r, "idle", to)
    BY <1>2 DEF Read
  <2>3. QED
    BY <1>1, <2>1, <2>2, QuietOthers DEF RequestPlaces
<1>3. CASE FindTestcase(r)
  <2>1. UNCHANGED <<exerciseRows, did, deleted>> /\ held' = held
    BY <1>3 DEF FindTestcase
  <2>2. \/ Reach(r, "idle", "refused") /\ ask' = ask
        \/ \E t : Reach(r, "idle", "checked") /\ ask' = [ask EXCEPT ![r] = [test |-> t]]
    BY <1>3 DEF FindTestcase, Refuse
  <2>3. QED
    BY <1>1, <2>1, <2>2, QuietOthers DEF RequestPlaces
<1>4. CASE FindExercise(r)
  <2>1. UNCHANGED <<exerciseRows, did, deleted>> /\ held' = held
    BY <1>4 DEF FindExercise
  <2>2. PICK e \in ExerciseIds, to \in {"checked", "refused"} :
          ask' = [ask EXCEPT ![r] = [exercise |-> e]] /\ Reach(r, "idle", to)
    BY <1>4 DEF FindExercise
  <2>3. QED
    BY <1>1, <2>1, <2>2, QuietOthers DEF RequestPlaces
<1>5. CASE FindTests(r)
  <2>1. /\ UNCHANGED <<exerciseRows, did, deleted>> /\ ask' = ask /\ held' = held
        /\ \E to \in {"ok", "no tests"} : Reach(r, "checked", to)
    BY <1>5 DEF FindTests
  <2>2. QED
    BY <1>1, <2>1, QuietOthers DEF RequestPlaces
<1>6. QED
  BY <1>2, <1>3, <1>4, <1>5

\* A step that changes test cases or configurations only, and succeeds.
LEMMA PartsStep ==
    ASSUME ExerciseInv, NEW r \in Others, NEW from \in {"idle", "checked"},
           Reach(r, from, "ok"), did' = did \/ did' = did \cup {r}, ask' = ask, held' = held,
           exercises' = exercises, courses' = courses, attempts' = attempts, deleted' = deleted,
           PartsInv'
    PROVE  ExerciseInv'
<1> USE DEF ExerciseInv
<1>1. r \in Callers /\ r \notin Creations /\ r \notin Updates /\ r \notin Deletions
  BY OthersFacts
<1>2. RequestStep(r) /\ reached'[r] = "ok"
  BY <1>1, Moved DEF RequestStep, RequestPlaces
<1>3. SentInv(r)' /\ AnswerInv(r)'
  BY <1>1, <1>2, OthersFacts, OthersSent DEF AnswerInv
<1>4. IdentityInv'
  <2>1. Creations \subseteq Callers
    BY Kinds
  <2>2. QED
    BY <1>1, <1>2, <2>1 DEF IdentityInv, RequestStep
<1>5. QED
  BY <1>1, <1>2, <1>3, <1>4, StepInv

LEMMA TestcasesInv ==
    ASSUME ExerciseInv, NEW r,
           CreateTestcase(r) \/ UpdateTestcase(r) \/ DeleteTestcase(r)
    PROVE  ExerciseInv'
<1> USE DEF ExerciseInv
<1>1. /\ r \in Others /\ r \in Callers /\ held' = held /\ ask' = ask /\ exercises' = exercises
      /\ courses' = courses /\ attempts' = attempts /\ configs' = configs /\ deleted' = deleted
  BY DEF CreateTestcase, UpdateTestcase, DeleteTestcase, Others, Callers
<1>2. ASSUME NEW to \in {"error", "refused"}, Reach(r, "idle", to), UNCHANGED <<tests, did>>
      PROVE  ExerciseInv'
  BY <1>1, <1>2, QuietOthers DEF RequestPlaces, exerciseRows
<1>3. ASSUME NEW e \in ExerciseIds, NEW public \in BOOLEAN, r \in TestCreations,
             Reach(r, "idle", "ok"), Exists(e), did' = did \cup {r},
             tests' = With(tests, r, [exercise |-> e, public |-> public, by |-> r])
      PROVE  ExerciseInv'
  <2> DEFINE test == [exercise |-> e, public |-> public, by |-> r]
  <2>1. test \in Tests /\ test.exercise = e
    BY <1>1 DEF Tests
  <2> HIDE DEF test
  <2>2. tests' = With(tests, r, test)
    BY <1>3 DEF test
  <2>3. /\ DOMAIN tests' = DOMAIN tests \cup {r} /\ tests'[r] = test
        /\ \A t \in DOMAIN tests \ {r} : tests'[t] = tests[t]
    BY <2>2 DEF With
  <2>4. PartsInv'
    BY <1>1, <1>3, <2>1, <2>3 DEF PartsInv, Exists, OneConfigPerLanguage
  <2>5. QED
    BY <1>1, <1>3, <2>4, PartsStep
<1>4. ASSUME NEW t \in TestCreations, NEW public \in BOOLEAN,
             Reach(r, "idle", "ok"), t \in DOMAIN tests, did' = did \cup {r},
             tests' = [tests EXCEPT ![t].public = public, ![t].by = r]
      PROVE  ExerciseInv'
  <2>1. tests[t] \in Tests
    BY <1>4 DEF PartsInv
  <2> DEFINE test == [tests[t] EXCEPT !.public = public, !.by = r]
  <2>2. test \in Tests /\ test.exercise = tests[t].exercise
    BY <1>1, <2>1 DEF Tests
  <2>3. DOMAIN tests' = DOMAIN tests /\ tests'[t] = test
    BY <1>4
  <2>4. \A x \in DOMAIN tests \ {t} : tests'[x] = tests[x]
    BY <1>4
  <2> HIDE DEF test
  <2>5. PartsInv'
    BY <1>1, <2>2, <2>3, <2>4 DEF PartsInv, Exists, OneConfigPerLanguage
  <2>6. QED
    BY <1>1, <1>4, <2>5, PartsStep
<1>5. CASE DeleteTestcase(r)
  <2>1. /\ Reach(r, "checked", "ok") /\ (did' = did \/ did' = did \cup {r})
        /\ tests' = Restrict(tests, DOMAIN tests \ {ask[r].test})
    BY <1>5 DEF DeleteTestcase
  <2>2. DOMAIN tests' \subseteq DOMAIN tests /\ \A t \in DOMAIN tests' : tests'[t] = tests[t]
    BY <2>1, RestrictFacts
  <2>3. PartsInv'
    BY <1>1, <2>2 DEF PartsInv, Exists, OneConfigPerLanguage
  <2>4. QED
    BY <1>1, <2>1, <2>3, PartsStep
<1>6. CASE CreateTestcase(r)
  BY <1>2, <1>3, <1>6 DEF CreateTestcase
<1>7. CASE UpdateTestcase(r)
  BY <1>2, <1>4, <1>7 DEF UpdateTestcase
<1>8. QED
  BY <1>5, <1>6, <1>7

LEMMA AddLanguageConfigInv ==
    ASSUME ExerciseInv, NEW r, AddLanguageConfig(r)
    PROVE  ExerciseInv'
<1> USE DEF ExerciseInv
<1>1. /\ r \in Others /\ held' = held /\ ask' = ask /\ exercises' = exercises
      /\ courses' = courses /\ attempts' = attempts /\ tests' = tests /\ deleted' = deleted
  BY DEF AddLanguageConfig, Others
<1>2. CASE Reach(r, "idle", "error") /\ UNCHANGED <<configs, did>>
  BY <1>1, <1>2, QuietOthers DEF RequestPlaces, exerciseRows
<1>3. ASSUME NEW e \in ExerciseIds, NEW l \in Languages, Reach(r, "idle", "ok"), Exists(e),
             ~ \E c \in configs : c.exercise = e /\ c.language = l,
             configs' = configs \cup {[by |-> r, exercise |-> e, language |-> l]},
             did' = did \cup {r}
      PROVE  ExerciseInv'
  <2>1. \A c \in configs' :
          c \in configs \/ (c.exercise = e /\ c.language = l /\ c = [by |-> r, exercise |-> e, language |-> l])
    BY <1>3
  <2>2. OneConfigPerLanguage'
    BY <1>3, <2>1 DEF OneConfigPerLanguage, PartsInv
  <2>3. PartsInv'
    BY <1>1, <1>3, <2>1, <2>2 DEF PartsInv, Exists
  <2>4. QED
    BY <1>1, <1>3, <2>3, PartsStep
<1>4. QED
  BY <1>2, <1>3 DEF AddLanguageConfig

-----------------------------------------------------------------------------
(* The theorems.                                                           *)

LEMMA ExerciseInitInv == ExerciseInit => ExerciseInv
<1> SUFFICES ASSUME ExerciseInit PROVE ExerciseInv
  OBVIOUS
<1>1. DOMAIN exercises = Seeds /\ DOMAIN tests = {}
  BY DEF ExerciseInit
<1>2. \A r \in Callers : reached[r] = "idle" /\ held[r] = NoRow
  BY DEF ExerciseInit
<1>3. \A r \in Callers : SentInv(r) /\ AnswerInv(r)
  BY <1>2 DEF SentInv, AnswerInv, ExerciseInit
<1>4. ASSUME NEW e \in Seeds PROVE RowInv(e)
  <2>1. PICK s \in Shapes, c \in Courses \cup {NoCourse} :
          exercises[e] = [by |-> "seed", type |-> s, shape |-> s, course |-> c, questions |-> 1, max |-> 3]
    BY DEF ExerciseInit
  <2>2. courses = Courses
    BY DEF ExerciseInit
  <2>3. QED
    BY <2>1, <2>2, Kinds DEF RowInv
<1>5. IdentityInv /\ PartsInv
  BY <1>1, Kinds DEF ExerciseInit, IdentityInv, PartsInv, ExerciseIds, OneConfigPerLanguage
<1>6. QED
  BY <1>1, <1>3, <1>4, <1>5 DEF ExerciseInit, ExerciseInv, RequestPlaces

LEMMA ExerciseNextInv == ExerciseInv /\ [ExerciseNext]_exerciseVars => ExerciseInv'
<1> SUFFICES ASSUME ExerciseInv, [ExerciseNext]_exerciseVars PROVE ExerciseInv'
  OBVIOUS
<1>1. CASE UNCHANGED exerciseVars
  <2>1. /\ exercises' = exercises /\ courses' = courses /\ attempts' = attempts /\ tests' = tests
        /\ configs' = configs /\ reached' = reached /\ ask' = ask /\ held' = held /\ did' = did
        /\ deleted' = deleted
    BY <1>1 DEF exerciseVars
  <2>2. QED
    BY <2>1 DEF ExerciseInv, SentInv, AnswerInv, RowInv, IdentityInv, PartsInv, Exists, OneConfigPerLanguage
<1>2. "quiz" \in Shapes /\ "code" \in Shapes
  BY DEF Shapes
<1>3. ASSUME NEW r \in Callers, add_exercises(r) \/ add_code_exercise(r) PROVE ExerciseInv'
  BY <1>2, <1>3, CheckNewInv, InsertInv DEF add_exercises, add_code_exercise
<1>4. ASSUME NEW r \in Callers, update_exercise(r) \/ update_code_exercise(r) PROVE ExerciseInv'
  BY <1>2, <1>4, FindInv, WriteInv DEF update_exercise, update_code_exercise
<1>5. ASSUME NEW r \in Callers,
             \/ delete_exercise(r) \/ delete_code_exercise(r)
             \/ delete_ai_generated_code_exercise(r)
      PROVE  ExerciseInv'
  BY <1>2, <1>5, FindDeletedInv, DeleteInv
  DEF delete_exercise, delete_code_exercise, delete_ai_generated_code_exercise
<1>6. ASSUME NEW r \in Callers,
             \/ get_exercise(r) \/ get_code_exercise(r) \/ submit_code(r) \/ FindTestcase(r)
      PROVE  ExerciseInv'
  BY <1>2, <1>6, QuietStepsInv DEF get_exercise, get_code_exercise, submit_code
<1>7. ASSUME NEW r \in Callers,
             CreateTestcase(r) \/ UpdateTestcase(r) \/ DeleteTestcase(r) \/ AddLanguageConfig(r)
      PROVE  ExerciseInv'
  BY <1>7, TestcasesInv, AddLanguageConfigInv
<1>8. ASSUME NEW c \in Courses, DeleteCourse(c) PROVE ExerciseInv'
  BY <1>8, DeleteCourseInv
<1>9. QED
  BY <1>1, <1>3, <1>4, <1>5, <1>6, <1>7, <1>8 DEF ExerciseNext, Serve, delete_testcase

LEMMA ExerciseInvariant == ExerciseSpec => []ExerciseInv
<1>1. ExerciseInit => ExerciseInv
  BY ExerciseInitInv
<1>2. ExerciseInv /\ [ExerciseNext]_exerciseVars => ExerciseInv'
  BY ExerciseNextInv
<1>3. QED
  BY <1>1, <1>2, PTL DEF ExerciseSpec

\* Every variable keeps its type, and the identity of a deleted exercise is not used again,
\* for every request of machine/api/v1/exercise.py that is a call of one handler.
THEOREM ExerciseTypesHold == ExerciseSpec => []ExerciseTypeOK
<1>1. ExerciseInv => ExerciseTypeOK
  BY DEF ExerciseInv, SentInv, RowInv, IdentityInv, PartsInv, Exists, Tests, ExerciseIds, RequestPlaces, ExerciseTypeOK
<1>2. QED
  BY <1>1, ExerciseInvariant, PTL

\* No part outlives its exercise and no exercise its course, and a language has one
\* configuration, although the handlers of machine/api/v1/exercise.py write on what they
\* looked up before.
THEOREM PartsStayWithTheirWhole == ExerciseSpec => []PartsHaveTheirWhole
<1>1. ExerciseInv => PartsHaveTheirWhole
  BY DEF ExerciseInv, RowInv, PartsInv, PartsHaveTheirWhole
<1>2. QED
  BY <1>1, ExerciseInvariant, PTL

-----------------------------------------------------------------------------
(* What an answer means: invariants on top of ExerciseInv.                 *)

\* A request that was answered "ok" has changed something or came late; one that is to delete
\* has found what it deletes, and test cases are found after they were made.
ChangedInv(r) ==
    /\ reached[r] = "ok" => r \in did \cup Readings \cup Submissions \/ LateDeletion(r)
    /\ r \in Deletions /\ reached[r] = "checked" =>
         held[r] = NoRow \/ Exists(ask[r].exercise) \/ ask[r].exercise \in deleted
    /\ r \in TestChanges /\ r \notin did /\ reached[r] \in {"checked", "ok"} =>
         ask[r].test \in TestCreations /\ reached[ask[r].test] # "idle"

\* The exercise bears an edit that was answered "ok".
Edited(e) ==
    Exists(e) /\ \E q \in Updates : reached[q] = "ok" /\ ask[q].exercise = e /\ exercises[e].by = q

StandInv(r) ==
    r \in Updates /\ reached[r] = "ok" => ask[r].exercise \in deleted \/ Edited(ask[r].exercise)

AnswersInv ==
    /\ \A t \in DOMAIN tests : reached[t] # "idle"
    /\ \A r \in Callers : ChangedInv(r)
    /\ \A r \in Updates : StandInv(r)

\* Rows disappear into deleted, and what they bear changes by an edit that is answered "ok".
RowsStep(r) ==
    /\ deleted \subseteq deleted'
    /\ DOMAIN exercises \subseteq DOMAIN exercises' \cup deleted'
    /\ \A e \in DOMAIN exercises \cap DOMAIN exercises' :
         \/ exercises'[e] = exercises[e]
         \/ /\ r \in Updates /\ reached'[r] = "ok" /\ ask'[r].exercise = e
            /\ exercises'[e].by = r
    /\ DOMAIN tests' \subseteq DOMAIN tests \cup (IF reached[r] = "idle" THEN {r} ELSE {})

LEMMA StepOf ==
    ASSUME ExerciseInv, NEW r \in Callers, NEW from \in {"idle", "found", "checked"},
           NEW to \in RequestPlaces, Reach(r, from, to),
           ask' = ask \/ \E a : ask' = [ask EXCEPT ![r] = a],
           held' = held \/ \E h : held' = [held EXCEPT ![r] = h],
           did' = did \/ did' = did \cup {r}
    PROVE  RequestStep(r) /\ reached[r] = from /\ reached'[r] = to
<1>1. /\ reached' \in [Callers -> RequestPlaces] /\ reached[r] = from /\ reached'[r] = to
      /\ \A x \in Callers \ {r} : reached'[x] = reached[x]
  BY Moved
<1>2. DOMAIN ask' = Callers /\ \A x \in Callers \ {r} : ask'[x] = ask[x]
  BY DEF ExerciseInv
<1>3. DOMAIN held' = Callers /\ \A x \in Callers \ {r} : held'[x] = held[x]
  BY DEF ExerciseInv
<1>4. QED
  BY <1>1, <1>2, <1>3 DEF RequestStep

\* What a step of one request means for the answers of all.
LEMMA AnswersStep ==
    ASSUME ExerciseInv, AnswersInv, NEW r \in Callers, RequestStep(r), RowsStep(r),
           reached'[r] # "idle", ChangedInv(r)', r \in Updates => StandInv(r)'
    PROVE  AnswersInv'
<1>1. \A x \in Callers \ {r} :
        /\ reached'[x] = reached[x] /\ ask'[x] = ask[x] /\ held'[x] = held[x]
        /\ x \in did' <=> x \in did
  BY DEF RequestStep
<1>2. ASSUME NEW t \in DOMAIN tests' PROVE reached'[t] # "idle"
  <2>1. t \in Callers
    BY <1>2, Kinds DEF RowsStep, ExerciseInv, PartsInv
  <2>2. t = r \/ t \in DOMAIN tests
    BY <1>2 DEF RowsStep
  <2>3. QED
    BY <1>1, <2>1, <2>2 DEF AnswersInv
<1>3. ASSUME NEW t \in TestCreations, reached[t] # "idle" PROVE reached'[t] # "idle"
  BY <1>1, <1>3, Kinds
<1>4. ASSUME NEW x \in Callers \ {r} PROVE ChangedInv(x)'
  <2>1. ChangedInv(x)
    BY DEF AnswersInv
  <2>2. ASSUME x \in Deletions, held[x] = NoRow \/ ask[x].exercise \in deleted
        PROVE  LateDeletion(x)'
    BY <1>1, <2>2 DEF LateDeletion, RowsStep
  <2>3. ASSUME x \in TestChanges, reached[x] = "ok", x \notin did, ask[x].test \notin DOMAIN tests
        PROVE  LateDeletion(x)'
    <3>1. reached[ask[x].test] # "idle"
      BY <2>1, <2>3 DEF ChangedInv
    <3>2. ask[x].test \notin DOMAIN tests'
      BY <2>3, <3>1 DEF RowsStep
    <3>3. QED
      BY <1>1, <2>3, <3>2 DEF LateDeletion
  <2>4. reached'[x] = "ok" => x \in did' \cup Readings \cup Submissions \/ LateDeletion(x)'
    BY <1>1, <2>1, <2>2, <2>3 DEF ChangedInv, LateDeletion
  <2>5. x \in Deletions /\ reached'[x] = "checked" =>
          held'[x] = NoRow \/ Exists(ask[x].exercise)' \/ ask'[x].exercise \in deleted'
    BY <1>1, <2>1 DEF ChangedInv, RowsStep, Exists
  <2>6. x \in TestChanges /\ x \notin did' /\ reached'[x] \in {"checked", "ok"} =>
          ask'[x].test \in TestCreations /\ reached'[ask'[x].test] # "idle"
    BY <1>1, <1>3, <2>1 DEF ChangedInv
  <2>7. QED
    BY <1>1, <2>4, <2>5, <2>6 DEF ChangedInv, Exists
<1>5. ASSUME NEW e, Edited(e) PROVE e \in deleted' \/ Edited(e)'
  <2>1. PICK q \in Updates : reached[q] = "ok" /\ ask[q].exercise = e /\ exercises[e].by = q
    BY <1>5 DEF Edited
  <2>2. e \in DOMAIN exercises
    BY <1>5 DEF Edited, Exists
  <2>3. q \in Callers \ {r}
    BY <2>1, Kinds DEF RequestStep
  <2>4. CASE e \in DOMAIN exercises' /\ exercises'[e] = exercises[e]
    BY <1>1, <2>1, <2>3, <2>4 DEF Edited, Exists
  <2>5. CASE /\ e \in DOMAIN exercises' /\ r \in Updates /\ reached'[r] = "ok"
             /\ ask'[r].exercise = e /\ exercises'[e].by = r
    BY <2>5 DEF Edited, Exists
  <2>6. QED
    BY <2>2, <2>4, <2>5 DEF RowsStep
<1>6. \A x \in Callers : ChangedInv(x)'
  BY <1>4
<1>7. ASSUME NEW x \in Updates PROVE StandInv(x)'
  <2>1. CASE x = r
    BY <2>1
  <2>2. CASE x # r
    <3>1. reached'[x] = reached[x] /\ ask'[x] = ask[x]
      BY <1>1, <2>2, Kinds
    <3>2. StandInv(x)
      BY DEF AnswersInv
    <3>3. CASE reached[x] # "ok"
      BY <3>1, <3>3 DEF StandInv
    <3>4. CASE ask[x].exercise \in deleted
      BY <3>1, <3>4 DEF StandInv, RowsStep
    <3>5. CASE Edited(ask[x].exercise)
      <4>1. PICK e : e = ask[x].exercise
        OBVIOUS
      <4>2. e \in deleted' \/ Edited(e)'
        BY <1>5, <3>5, <4>1
      <4>3. e = ask'[x].exercise
        BY <3>1, <4>1
      <4>4. QED
        BY <4>2, <4>3 DEF StandInv, Edited
    <3>6. QED
      BY <3>2, <3>3, <3>4, <3>5 DEF StandInv
  <2>3. QED
    BY <2>1, <2>2
<1>8. QED
  BY <1>2, <1>6, <1>7 DEF AnswersInv

\* A step that changes no table and is not an answer "ok" that has to mean something.
LEMMA QuietAnswers ==
    ASSUME ExerciseInv, AnswersInv, NEW r \in Callers, NEW from \in {"idle", "found", "checked"},
           NEW to \in RequestPlaces \ {"idle"}, Reach(r, from, to),
           ask' = ask \/ \E a : ask' = [ask EXCEPT ![r] = a],
           held' = held \/ \E h : held' = [held EXCEPT ![r] = h],
           UNCHANGED <<exerciseRows, did, deleted>>,
           to = "ok" => r \in Readings \cup Submissions /\ r \notin Updates,
           r \notin Deletions \cup TestChanges \/ to \in {"refused", "error"}
    PROVE  AnswersInv'
<1>1. /\ exercises' = exercises /\ tests' = tests /\ did' = did /\ deleted' = deleted
  BY DEF exerciseRows
<1>2. RequestStep(r) /\ reached'[r] = to
  BY <1>1, StepOf
<1>3. RowsStep(r)
  BY <1>1 DEF RowsStep
<1>4. ChangedInv(r)'
  BY <1>2 DEF ChangedInv
<1>5. r \in Updates => StandInv(r)'
  BY <1>2 DEF StandInv
<1>6. QED
  BY <1>2, <1>3, <1>4, <1>5, AnswersStep

LEMMA AddingAnswers ==
    ASSUME ExerciseInv, AnswersInv, NEW r, NEW shape \in Shapes,
           CheckNew(r, shape) \/ Insert(r, shape)
    PROVE  AnswersInv'
<1>1. /\ r \in Creations /\ r \in Callers /\ r \notin Updates /\ r \notin Deletions
      /\ r \notin TestChanges
  BY Kinds DEF CheckNew, Insert, Others
<1>2. ASSUME CheckNew(r, shape) PROVE AnswersInv'
  <2>1. UNCHANGED <<exerciseRows, did, deleted>> /\ held' = held
    BY <1>2 DEF CheckNew
  <2>2. PICK to \in {"refused", "checked"} :
          Reach(r, "idle", to) /\ (ask' = ask \/ \E a : ask' = [ask EXCEPT ![r] = a])
    BY <1>2 DEF CheckNew, Refuse
  <2>3. QED
    BY <1>1, <2>1, <2>2, QuietAnswers DEF RequestPlaces
<1>3. ASSUME Reach(r, "checked", "error"), Insert(r, shape), UNCHANGED <<exercises, did>>
      PROVE  AnswersInv'
  <2>1. UNCHANGED <<exerciseRows, did, deleted>> /\ held' = held /\ ask' = ask
    BY <1>3 DEF Insert, exerciseRows
  <2>2. QED
    BY <1>1, <1>3, <2>1, QuietAnswers DEF RequestPlaces
<1>4. ASSUME Reach(r, "checked", "ok"), Insert(r, shape), did' = did \cup {r},
             exercises' = With(exercises, r, Row(r, shape, ask[r].body))
      PROVE  AnswersInv'
  <2>1. ask' = ask /\ held' = held /\ deleted' = deleted /\ tests' = tests
    BY <1>4 DEF Insert
  <2>2. RequestStep(r) /\ reached[r] = "checked" /\ reached'[r] = "ok"
    BY <1>1, <1>4, <2>1, StepOf DEF RequestPlaces
  <2>3. r \notin DOMAIN exercises
    BY <1>1, <2>2 DEF ExerciseInv, IdentityInv
  <2>4. /\ DOMAIN exercises \subseteq DOMAIN exercises'
        /\ \A e \in DOMAIN exercises : exercises'[e] = exercises[e]
    BY <1>4, <2>3 DEF With
  <2>5. RowsStep(r)
    BY <2>1, <2>4 DEF RowsStep
  <2>6. ChangedInv(r)'
    BY <1>1, <1>4, <2>2 DEF ChangedInv
  <2>7. QED
    BY <1>1, <2>2, <2>5, <2>6, AnswersStep
<1>5. QED
  BY <1>2, <1>3, <1>4 DEF Insert, Step

LEMMA EditingAnswers ==
    ASSUME ExerciseInv, AnswersInv, NEW r, NEW shape \in Shapes,
           Find(r, shape) \/ CheckBody(r, shape) \/ Write(r, shape)
    PROVE  AnswersInv'
<1>1. /\ r \in Updates /\ r \in Callers /\ r \notin Creations /\ r \notin Deletions
      /\ r \notin TestChanges
  BY Kinds DEF Find, CheckBody, Write, Others
<1>2. ASSUME Find(r, shape) \/ CheckBody(r, shape) PROVE AnswersInv'
  <2>1. UNCHANGED <<exerciseRows, did, deleted>> /\ held' = held
    BY <1>2 DEF Find, CheckBody
  <2>2. PICK from \in {"idle", "found"}, to \in {"refused", "found", "checked"} :
          Reach(r, from, to) /\ (ask' = ask \/ \E a : ask' = [ask EXCEPT ![r] = a])
    BY <1>2 DEF Find, CheckBody, Refuse, Step
  <2>3. QED
    BY <1>1, <2>1, <2>2, QuietAnswers DEF RequestPlaces
<1>3. ASSUME Reach(r, "checked", "error"), Write(r, shape), UNCHANGED <<exercises, did>>
      PROVE  AnswersInv'
  <2>1. UNCHANGED <<exerciseRows, did, deleted>> /\ held' = held /\ ask' = ask
    BY <1>3 DEF Write, exerciseRows
  <2>2. QED
    BY <1>1, <1>3, <2>1, QuietAnswers DEF RequestPlaces
<1>4. ASSUME Reach(r, "checked", "ok"), Write(r, shape), did' = did \cup {r},
             Exists(ask[r].exercise),
             exercises' = [exercises EXCEPT ![ask[r].exercise] = Row(r, shape, ask[r].body)]
      PROVE  AnswersInv'
  <2> DEFINE e == ask[r].exercise
  <2>1. ask' = ask /\ held' = held /\ deleted' = deleted /\ tests' = tests
    BY <1>4 DEF Write
  <2>2. RequestStep(r) /\ reached'[r] = "ok"
    BY <1>1, <1>4, <2>1, StepOf DEF RequestPlaces
  <2>3. /\ DOMAIN exercises' = DOMAIN exercises /\ e \in DOMAIN exercises
        /\ exercises'[e] = Row(r, shape, ask[r].body)
        /\ \A x \in DOMAIN exercises \ {e} : exercises'[x] = exercises[x]
    BY <1>4 DEF Exists
  <2>4. exercises'[e].by = r
    BY <2>3 DEF Row
  <2>5. RowsStep(r)
    BY <1>1, <2>1, <2>2, <2>3, <2>4 DEF RowsStep
  <2>6. ChangedInv(r)' /\ StandInv(r)'
    BY <1>1, <1>4, <2>1, <2>2, <2>3, <2>4 DEF ChangedInv, StandInv, Edited, Exists
  <2>7. QED
    BY <1>1, <2>2, <2>5, <2>6, AnswersStep
<1>5. QED
  BY <1>2, <1>3, <1>4 DEF Write, Step

LEMMA DeletingAnswers ==
    ASSUME ExerciseInv, AnswersInv, NEW r, NEW by \in Shapes \cup {"ai-generated"},
           FindDeleted(r, by) \/ Delete(r, by)
    PROVE  AnswersInv'
<1>1. /\ r \in Deletions /\ r \in Callers /\ r \notin Creations /\ r \notin Updates
      /\ r \notin TestChanges
  BY Kinds DEF FindDeleted, Delete, Others
<1>2. ASSUME FindDeleted(r, by), Refuse(r, "idle"), held' = held PROVE AnswersInv'
  BY <1>1, <1>2, QuietAnswers DEF FindDeleted, Refuse, RequestPlaces
<1>3. ASSUME FindDeleted(r, by), NEW x \in ExerciseIds, Reach(r, "idle", "checked"),
             ask' = [ask EXCEPT ![r] = [shape |-> by, exercise |-> x]],
             held' = [held EXCEPT ![r] = Lookup(x)]
      PROVE  AnswersInv'
  <2>1. exercises' = exercises /\ tests' = tests /\ did' = did /\ deleted' = deleted
    BY <1>3 DEF FindDeleted, exerciseRows
  <2>2. RequestStep(r) /\ reached'[r] = "checked"
    BY <1>1, <1>3, <2>1, StepOf DEF RequestPlaces
  <2>3. ask'[r].exercise = x /\ held'[r] = Lookup(x)
    BY <1>1, <1>3 DEF ExerciseInv
  <2>4. ChangedInv(r)'
    BY <1>1, <2>1, <2>2, <2>3 DEF ChangedInv, Lookup, Exists
  <2>5. RowsStep(r)
    BY <2>1 DEF RowsStep
  <2>6. QED
    BY <1>1, <2>2, <2>4, <2>5, AnswersStep
<1>4. ASSUME Delete(r, by) PROVE AnswersInv'
  <2> DEFINE e == ask[r].exercise
             to == IF Answered(by, held[r]) THEN "ok" ELSE "error"
  <2>1. /\ ask' = ask /\ held' = held /\ Reach(r, "checked", to)
        /\ exercises' = Restrict(exercises, DOMAIN exercises \ {e})
        /\ tests' = Restrict(tests, {t \in DOMAIN tests : tests[t].exercise # e})
        /\ did' = (IF Exists(e) THEN did \cup {r} ELSE did)
        /\ deleted' = (IF Exists(e) THEN deleted \cup {e} ELSE deleted)
    BY <1>4 DEF Delete, Step
  <2>2. to \in {"ok", "error"}
    OBVIOUS
  <2> HIDE DEF to
  <2>3. RequestStep(r) /\ reached[r] = "checked" /\ reached'[r] = to
    BY <1>1, <2>1, <2>2, StepOf DEF RequestPlaces
  <2>4. /\ DOMAIN exercises' = DOMAIN exercises \ {e}
        /\ \A x \in DOMAIN exercises' : exercises'[x] = exercises[x]
        /\ DOMAIN tests' \subseteq DOMAIN tests
    BY <2>1, RestrictFacts
  <2>5. RowsStep(r)
    BY <2>1, <2>4 DEF RowsStep, Exists
  <2>6. held[r] = NoRow \/ Exists(e) \/ e \in deleted
    BY <1>1, <2>3 DEF AnswersInv, ChangedInv
  <2>7. r \in did' \/ LateDeletion(r)'
    BY <1>1, <2>1, <2>6 DEF LateDeletion
  <2>8. ChangedInv(r)'
    BY <1>1, <2>2, <2>3, <2>7 DEF ChangedInv
  <2>9. QED
    BY <1>1, <2>2, <2>3, <2>5, <2>8, AnswersStep
<1>5. QED
  BY <1>2, <1>3, <1>4 DEF FindDeleted

LEMMA ReadingAnswers ==
    ASSUME ExerciseInv, AnswersInv, NEW r,
           (\E shape \in Shapes : Read(r, shape)) \/ FindExercise(r) \/ FindTests(r)
    PROVE  AnswersInv'
<1>1. /\ r \in Readings \cup Submissions /\ r \in Others /\ r \notin TestChanges
  BY Kinds DEF Read, FindExercise, FindTests, Others
<1>2. r \in Callers /\ r \notin Updates /\ r \notin Deletions
  BY <1>1, OthersFacts
<1>3. UNCHANGED <<exerciseRows, did, deleted>>
  BY DEF Read, FindExercise, FindTests
<1>4. PICK from \in {"idle", "checked"}, to \in {"refused", "error", "ok", "checked", "no tests"} :
        Reach(r, from, to)
  BY DEF Read, FindExercise, FindTests
<1>5. ask' = ask \/ \E a : ask' = [ask EXCEPT ![r] = a]
  BY DEF Read, FindExercise, FindTests
<1>6. held' = held \/ \E h : held' = [held EXCEPT ![r] = h]
  BY DEF Read, FindExercise, FindTests
<1>7. to \in RequestPlaces \ {"idle"} /\ from \in {"idle", "found", "checked"}
  BY DEF RequestPlaces
<1>8. QED
  BY <1>1, <1>2, <1>3, <1>4, <1>5, <1>6, <1>7, QuietAnswers, ZenonT(60)

\* A request about test cases or configurations that has changed what it was to change.
LEMMA DoneAnswers ==
    ASSUME ExerciseInv, AnswersInv, NEW r \in Others, NEW from \in {"idle", "checked"},
           Reach(r, from, "ok"), did' = did \cup {r}, ask' = ask, held' = held,
           exercises' = exercises, deleted' = deleted,
           DOMAIN tests' \subseteq DOMAIN tests \cup (IF from = "idle" THEN {r} ELSE {})
    PROVE  AnswersInv'
<1>1. r \in Callers /\ r \notin Creations /\ r \notin Updates /\ r \notin Deletions
  BY OthersFacts
<1>2. RequestStep(r) /\ reached[r] = from /\ reached'[r] = "ok"
  BY <1>1, StepOf DEF RequestPlaces
<1>3. RowsStep(r)
  BY <1>2 DEF RowsStep
<1>4. ChangedInv(r)'
  BY <1>1, <1>2 DEF ChangedInv
<1>5. QED
  BY <1>1, <1>2, <1>3, <1>4, AnswersStep

LEMMA PartsAnswers ==
    ASSUME ExerciseInv, AnswersInv, NEW r,
           CreateTestcase(r) \/ UpdateTestcase(r) \/ AddLanguageConfig(r)
    PROVE  AnswersInv'
<1>1. /\ r \in Others /\ r \in Callers /\ r \notin Updates /\ r \notin Deletions
      /\ held' = held /\ ask' = ask /\ exercises' = exercises
      /\ courses' = courses /\ attempts' = attempts /\ deleted' = deleted
  BY OthersFacts DEF CreateTestcase, UpdateTestcase, AddLanguageConfig, Others
<1>2. ASSUME NEW to \in {"error", "refused"}, Reach(r, "idle", to), UNCHANGED <<tests, configs, did>>
      PROVE  AnswersInv'
  BY <1>1, <1>2, QuietAnswers DEF RequestPlaces, exerciseRows
<1>3. ASSUME Reach(r, "idle", "ok"), did' = did \cup {r}, DOMAIN tests' \subseteq DOMAIN tests \cup {r}
      PROVE  AnswersInv'
  BY <1>1, <1>3, DoneAnswers
<1>4. CASE CreateTestcase(r)
  <2>1. configs' = configs
    BY <1>4 DEF CreateTestcase
  <2>2. \/ \E to \in {"error", "refused"} : Reach(r, "idle", to) /\ UNCHANGED <<tests, did>>
        \/ /\ Reach(r, "idle", "ok") /\ did' = did \cup {r}
           /\ DOMAIN tests' \subseteq DOMAIN tests \cup {r}
    BY <1>4 DEF CreateTestcase, With
  <2>3. QED
    BY <1>2, <1>3, <2>1, <2>2
<1>5. CASE UpdateTestcase(r)
  <2>1. configs' = configs
    BY <1>5 DEF UpdateTestcase
  <2>2. \/ \E to \in {"error", "refused"} : Reach(r, "idle", to) /\ UNCHANGED <<tests, did>>
        \/ /\ Reach(r, "idle", "ok") /\ did' = did \cup {r}
           /\ \E t \in TestCreations, public \in BOOLEAN :
                tests' = [tests EXCEPT ![t].public = public, ![t].by = r]
    BY <1>5 DEF UpdateTestcase
  <2>3. ASSUME NEW t, NEW public, tests' = [tests EXCEPT ![t].public = public, ![t].by = r]
        PROVE  DOMAIN tests' \subseteq DOMAIN tests \cup {r}
    BY <2>3
  <2>4. QED
    BY <1>2, <1>3, <2>1, <2>2, <2>3
<1>6. CASE AddLanguageConfig(r)
  <2>1. tests' = tests
    BY <1>6 DEF AddLanguageConfig
  <2>2. \/ Reach(r, "idle", "error") /\ UNCHANGED <<configs, did>>
        \/ Reach(r, "idle", "ok") /\ did' = did \cup {r}
    BY <1>6 DEF AddLanguageConfig
  <2>3. QED
    BY <1>2, <1>3, <2>1, <2>2
<1>7. QED
  BY <1>4, <1>5, <1>6

\* The deletion of a test case that was found: it is there still, or has been deleted since.
LEMMA TestDeletionAnswers ==
    ASSUME ExerciseInv, AnswersInv, NEW r, delete_testcase(r)
    PROVE  AnswersInv'
<1>1. /\ r \in TestChanges /\ r \in Others /\ r \in Callers /\ r \notin Updates
      /\ r \notin Deletions /\ held' = held /\ exercises' = exercises /\ deleted' = deleted
  BY Kinds, OthersFacts DEF delete_testcase, FindTestcase, DeleteTestcase, Others, exerciseRows
<1>2. ASSUME FindTestcase(r), Refuse(r, "idle") PROVE AnswersInv'
  BY <1>1, <1>2, QuietAnswers DEF FindTestcase, Refuse, RequestPlaces
<1>3. ASSUME FindTestcase(r), NEW t \in TestCreations, t \in DOMAIN tests, Reach(r, "idle", "checked"),
             ask' = [ask EXCEPT ![r] = [test |-> t]]
      PROVE  AnswersInv'
  <2>1. tests' = tests /\ did' = did
    BY <1>3 DEF FindTestcase, exerciseRows
  <2>2. RequestStep(r) /\ reached'[r] = "checked" /\ \A x \in Callers \ {r} : reached'[x] = reached[x]
    BY <1>1, <1>3, <2>1, StepOf DEF RequestPlaces, RequestStep
  <2>3. ask'[r].test = t
    BY <1>1, <1>3 DEF ExerciseInv
  <2>4. reached'[t] # "idle"
    BY <1>1, <1>3, <2>2, Kinds DEF AnswersInv
  <2>5. ChangedInv(r)'
    BY <1>1, <1>3, <2>2, <2>3, <2>4 DEF ChangedInv
  <2>6. RowsStep(r)
    BY <1>1, <2>1 DEF RowsStep
  <2>7. QED
    BY <1>1, <2>2, <2>5, <2>6, AnswersStep
<1>4. ASSUME DeleteTestcase(r) PROVE AnswersInv'
  <2> DEFINE t == ask[r].test
  <2>1. /\ Reach(r, "checked", "ok") /\ ask' = ask
        /\ tests' = Restrict(tests, DOMAIN tests \ {t})
        /\ did' = (IF t \in DOMAIN tests THEN did \cup {r} ELSE did)
    BY <1>4 DEF DeleteTestcase
  <2>2. DOMAIN tests' = DOMAIN tests \ {t}
    BY <2>1, RestrictFacts
  <2>3. /\ RequestStep(r) /\ reached[r] = "checked" /\ reached'[r] = "ok"
        /\ \A x \in Callers \ {r} : reached'[x] = reached[x]
    BY <1>1, <2>1, StepOf DEF RequestPlaces, RequestStep
  <2>4. LateDeletion(r)'
    BY <1>1, <2>1, <2>2 DEF LateDeletion
  <2>5. r \notin did' => t \in TestCreations /\ reached'[t] # "idle"
    <3>1. r \notin did' => r \notin did
      BY <2>1
    <3>2. r \notin did => t \in TestCreations /\ reached[t] # "idle"
      BY <1>1, <2>3 DEF AnswersInv, ChangedInv
    <3>3. QED
      BY <1>1, <2>3, <3>1, <3>2, Kinds
  <2>6. ChangedInv(r)'
    BY <1>1, <2>1, <2>3, <2>4, <2>5 DEF ChangedInv
  <2>7. RowsStep(r)
    BY <1>1, <2>2 DEF RowsStep
  <2>8. QED
    BY <1>1, <2>3, <2>6, <2>7, AnswersStep
<1>5. QED
  BY <1>2, <1>3, <1>4 DEF delete_testcase, FindTestcase

LEMMA AnswersNextInv ==
    ASSUME ExerciseInv, AnswersInv, [ExerciseNext]_exerciseVars
    PROVE  AnswersInv'
<1>1. ASSUME /\ exercises' = exercises /\ tests' = tests /\ reached' = reached /\ ask' = ask
             /\ held' = held /\ did' = did /\ deleted' = deleted
      PROVE  AnswersInv'
  BY <1>1 DEF AnswersInv, ChangedInv, LateDeletion, StandInv, Edited, Exists
<1>2. CASE UNCHANGED exerciseVars
  BY <1>1, <1>2 DEF exerciseVars
<1>3. "quiz" \in Shapes /\ "code" \in Shapes
  BY DEF Shapes
<1>4. ASSUME NEW r \in Callers, add_exercises(r) \/ add_code_exercise(r) PROVE AnswersInv'
  BY <1>3, <1>4, AddingAnswers DEF add_exercises, add_code_exercise
<1>5. ASSUME NEW r \in Callers, update_exercise(r) \/ update_code_exercise(r) PROVE AnswersInv'
  BY <1>3, <1>5, EditingAnswers DEF update_exercise, update_code_exercise
<1>6. ASSUME NEW r \in Callers,
             \/ delete_exercise(r) \/ delete_code_exercise(r)
             \/ delete_ai_generated_code_exercise(r)
      PROVE  AnswersInv'
  BY <1>3, <1>6, DeletingAnswers
  DEF delete_exercise, delete_code_exercise, delete_ai_generated_code_exercise
<1>7. ASSUME NEW r \in Callers, get_exercise(r) \/ get_code_exercise(r) \/ submit_code(r)
      PROVE  AnswersInv'
  BY <1>3, <1>7, ReadingAnswers DEF get_exercise, get_code_exercise, submit_code
<1>8. ASSUME NEW r \in Callers,
             CreateTestcase(r) \/ UpdateTestcase(r) \/ delete_testcase(r) \/ AddLanguageConfig(r)
      PROVE  AnswersInv'
  BY <1>8, PartsAnswers, TestDeletionAnswers
<1>9. ASSUME NEW c \in Courses, DeleteCourse(c) PROVE AnswersInv'
  BY <1>1, <1>9 DEF DeleteCourse
<1>10. QED
  BY <1>2, <1>4, <1>5, <1>6, <1>7, <1>8, <1>9 DEF ExerciseNext, Serve

LEMMA AnswersInvariant == ExerciseSpec => []AnswersInv
<1>1. ExerciseInit => AnswersInv
  <2> SUFFICES ASSUME ExerciseInit PROVE AnswersInv
    OBVIOUS
  <2>1. DOMAIN tests = {}
    BY DEF ExerciseInit
  <2>2. \A r \in Callers : reached[r] = "idle"
    BY DEF ExerciseInit
  <2>3. QED
    BY <2>1, <2>2, Kinds DEF AnswersInv, ChangedInv, StandInv
<1>2. ExerciseInv /\ AnswersInv /\ [ExerciseNext]_exerciseVars => AnswersInv'
  BY AnswersNextInv
<1>3. QED
  BY <1>1, <1>2, ExerciseInvariant, PTL DEF ExerciseSpec

\* A stored exercise is what one request sent, however many edits overlap.  A request that
\* machine/api/v1/exercise.py answers "ok" has changed the rows itself, unless it deletes what
\* is deleted already; an edit answered so stands until another one or the deletion; and an
\* error means that nothing was changed, but for the quiz handler that deletes code questions
\* and then cannot show them.
THEOREM EditsStayWhole == ExerciseSpec => []EditsAreWhole
<1>1. ExerciseInv => ExercisesAreOfOneRequest
  BY DEF ExerciseInv, RowInv, ExercisesAreOfOneRequest
<1>2. ExerciseInv => ErrorsChangeNothing
  BY DEF ExerciseInv, AnswerInv, ErrorsChangeNothing
<1>3. AnswersInv => AnswersMeanChanges
  BY DEF AnswersInv, ChangedInv, AnswersMeanChanges
<1>4. AnswersInv => EditsStand
  BY DEF AnswersInv, StandInv, Edited, EditsStand
<1>5. ExerciseInv /\ AnswersInv => EditsAreWhole
  BY <1>1, <1>2, <1>3, <1>4 DEF EditsAreWhole
<1>6. QED
  BY <1>5, ExerciseInvariant, AnswersInvariant, PTL

-----------------------------------------------------------------------------
(* The scenes.                                                             *)

\* Whichever scene is played, documents, exercises and their requests keep their types
\* (utils/file_processor.py, machine/api/v1/exercise.py): a scene is a behaviour of one
\* component beside which the other rests.
THEOREM ScenesKeepTypes == MCSpec => []TypesOK
<1>1. MCSpec => Spec
  <2>1. MCInit => Init
    BY DEF MCInit
  <2>2. [MCNext]_<<scene, vars, exerciseVars>> => [Next]_vars
    BY DEF MCNext, LessonScene, ExerciseScene
  <2>3. QED
    BY <2>1, <2>2, PTL DEF MCSpec, Spec
<1>2. MCSpec => ExerciseSpec
  <2>1. MCInit => ExerciseInit
    BY DEF MCInit
  <2>2. Cast[scene] \subseteq Callers \/ scene \notin DOMAIN Cast
    BY DEF Cast, Callers
  <2>3. [MCNext]_<<scene, vars, exerciseVars>> => [ExerciseNext]_exerciseVars
    BY <2>2 DEF MCNext, LessonScene, ExerciseScene, ExerciseNext
  <2>4. QED
    BY <2>1, <2>3, PTL DEF MCSpec, ExerciseSpec
<1>3. TypeOK /\ ExerciseTypeOK => TypesOK
  BY DEF TypesOK
<1>4. QED
  BY <1>1, <1>2, <1>3, MaterialTypesHold, ExerciseTypesHold, PTL

=============================================================================
