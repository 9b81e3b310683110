--------------------------- MODULE LessonMaterial ---------------------------
(***************************************************************************)
(* A lesson of a professor's course and the documents uploaded to it       *)
(* (machine/api/v1/lesson.py): process_document of utils/file_processor.py *)
(* takes each file of an upload through a temporary file named after it,   *)
(* the text extractor, S3 and the database, with a commit after each step. *)
(*                                                                         *)
(* Between its awaits a request runs alone: copying to the temporary file  *)
(* and extracting from it are single steps, with other requests between.   *)
(***************************************************************************)
EXTENDS Integers, Sequences

CONSTANTS
    Files,      \* the files uploaded
    Uploads,    \* the calls of add_documents
    Batch,      \* per upload, the sequence of its files
    Names,      \* file names
    NameOf,     \* per file, its name
    Pdfs,       \* the files that are PDF
    Deleters,   \* the calls of delete_lesson
    Readers     \* the calls of get_documents

\* A file is one part of one request: what is uploaded twice are two files of one name.
ASSUME FilesAssumption ==
    /\ NameOf \in [Files -> Names]
    /\ Batch \in [Uploads -> Seq(Files)]
    /\ \A u \in Uploads : Len(Batch[u]) > 0
    /\ \A u, v \in Uploads : \A i \in DOMAIN Batch[u], j \in DOMAIN Batch[v] :
         Batch[u][i] = Batch[v][j] => u = v /\ i = j

ASSUME RequestsAssumption ==
    Uploads \cap Deleters = {} /\ Uploads \cap Readers = {}

Requests == Uploads \cup Deleters \cup Readers

VARIABLES
    lesson,     \* whether the lesson is there
    quizzed,    \* whether a generated quiz with questions hangs below the lesson
    docs,       \* per file, its document's row
    texts,      \* per file, the extracted text stored for it: the file it comes from
    temp,       \* per name, the file whose content the temporary file holds
    bucket,     \* per file, the content of its object in S3
    pc,
    at,         \* per upload, the position of the file it processes
    found,      \* per upload, the text extracted for that file
    outcome,    \* per file, what the upload is going to report
    clobbered   \* history: files copied, whose name another copied to before the extraction

vars == <<lesson, quizzed, docs, texts, temp, bucket, pc, at, found, outcome, clobbered>>
rows == <<docs, texts>>

\* No document, text, temporary file or object; and a text that is a notice instead of the
\* file's text (the extractor's for a PDF it cannot read, or the fallback's).
None   == "none"
Notice == "notice"
Absent == [status |-> None, progress |-> 0]

ASSUME TextsAssumption == None \notin Files /\ Notice \notin Files

TypeOK ==
    /\ lesson \in BOOLEAN /\ quizzed \in BOOLEAN
    /\ \A f \in Files :
         /\ docs[f] = Absent \/ docs[f] \in [status : {"processing", "failed", "completed"},
                                             progress : {0, 30, 50, 80, 100}]
         /\ texts[f] \in Files \cup {None, Notice}
         /\ bucket[f] \in {None, "file", "empty"}
         /\ outcome[f] \in {None, "success", "error"}
         /\ docs[f] = Absent => texts[f] = None
    /\ temp \in [Names -> Files \cup {None}]
    /\ pc \in [Requests -> {"idle", "next", "recorded", "saved", "extracted", "uploaded", "stored",
                            "ok", "refused", "failed"}]
    /\ \A u \in Uploads : at[u] \in 1..Len(Batch[u]) /\ found[u] \in Files \cup {None, Notice}

Init ==
    /\ lesson = TRUE
    /\ quizzed = FALSE
    /\ docs = [f \in Files |-> Absent]
    /\ texts = [f \in Files |-> None]
    /\ temp = [n \in Names |-> None]
    /\ bucket = [f \in Files |-> None]
    /\ pc = [r \in Requests |-> IF r \in Uploads THEN "next" ELSE "idle"]
    /\ at = [u \in Uploads |-> 1]
    /\ found = [u \in Uploads |-> None]
    /\ outcome = [f \in Files |-> None]
    /\ clobbered = {}

Goto(r, from, to) ==
    /\ pc[r] = from
    /\ pc' = [pc EXCEPT ![r] = to]

File(u) == Batch[u][at[u]]

\* An update of the document's row, which changes nothing when the row is gone.
Set(f, row) == docs' = [docs EXCEPT ![f] = IF @ = Absent THEN @ ELSE row]
Progress(f, n) == Set(f, [docs[f] EXCEPT !.progress = n])

\* The result of the file is kept for the answer and the next file is taken.
Report(u, from, result) ==
    /\ outcome' = [outcome EXCEPT ![File(u)] = result]
    /\ IF at[u] = Len(Batch[u])
       THEN Goto(u, from, "ok") /\ UNCHANGED at
       ELSE Goto(u, from, "next") /\ at' = [at EXCEPT ![u] = @ + 1]

-----------------------------------------------------------------------------
(* add_documents and process_document.                                     *)

\* The row's insert breaks the foreign key when the lesson is gone, which ends the request.
CreateRecord(u) ==
    /\ Goto(u, "next", IF lesson THEN "recorded" ELSE "failed")
    /\ docs' = IF lesson THEN [docs EXCEPT ![File(u)] = [status |-> "processing", progress |-> 0]]
               ELSE docs
    /\ UNCHANGED <<lesson, quizzed, texts, temp, bucket, at, found, outcome, clobbered>>

\* Mutant: a temporary file that is there is taken for the own one.
SaveTemp_IfMissing(u) ==
    LET n == NameOf[File(u)]
    IN  /\ Goto(u, "recorded", "saved")
        /\ temp' = [temp EXCEPT ![n] = IF @ = None THEN File(u) ELSE @]
        /\ Progress(File(u), 30)
        /\ UNCHANGED <<lesson, quizzed, texts, bucket, at, found, outcome, clobbered>>

\* The files of a name that are copied and not extracted yet, their copy there or not.
Copied(n) == {f \in Files : \E v \in Uploads : pc[v] = "saved" /\ f = File(v) /\ NameOf[f] = n}

SaveTemp(u) ==
    LET n == NameOf[File(u)]
    IN  /\ Goto(u, "recorded", "saved")
        /\ temp' = [temp EXCEPT ![n] = File(u)]
        /\ clobbered' = clobbered \cup Copied(n)
        /\ Progress(File(u), 30)
        /\ UNCHANGED <<lesson, quizzed, texts, bucket, at, found, outcome>>

\* Extraction of the file that the temporary file holds: its text, nothing, or for a PDF the
\* notice that it failed.
Texts(u) == {temp[NameOf[File(u)]]} \cup (IF File(u) \in Pdfs THEN {Notice} ELSE {})

Extract(u) ==
    LET n == NameOf[File(u)]
    IN  /\ Goto(u, "saved", "extracted")
        /\ temp[n] # None
        /\ \E t \in Texts(u) : found' = [found EXCEPT ![u] = t]
        /\ temp' = [temp EXCEPT ![n] = None]
        /\ Progress(File(u), 50)
        /\ UNCHANGED <<lesson, quizzed, texts, bucket, at, outcome, clobbered>>

\* Mutant: the failure is not stored.
ExtractNothing_Processing(u) ==
    LET n == NameOf[File(u)]
    IN  /\ Report(u, "saved", "error")
        /\ temp[n] # None
        /\ temp' = [temp EXCEPT ![n] = None]
        /\ UNCHANGED <<lesson, quizzed, docs, texts, bucket, found, clobbered>>

\* No text, or a type that is not extracted.
ExtractNothing(u) ==
    LET n == NameOf[File(u)]
    IN  /\ Report(u, "saved", "error")
        /\ temp[n] # None
        /\ temp' = [temp EXCEPT ![n] = None]
        /\ Set(File(u), [status |-> "failed", progress |-> 100])
        /\ UNCHANGED <<lesson, quizzed, texts, bucket, found, clobbered>>

\* file.read() continues where the copy to the temporary file stopped, at the end.
UploadToS3(u) ==
    /\ Goto(u, "extracted", "uploaded")
    /\ bucket' = [bucket EXCEPT ![File(u)] = "empty"]
    /\ Progress(File(u), 80)
    /\ UNCHANGED <<lesson, quizzed, texts, temp, at, found, outcome, clobbered>>

\* When the insert of the text raises, a notice is inserted instead; with the document gone
\* both raise.
StoreText(u) ==
    /\ Goto(u, "uploaded", "stored")
    /\ docs[File(u)] # Absent
    /\ \E t \in {found[u], Notice} : texts' = [texts EXCEPT ![File(u)] = t]
    /\ UNCHANGED <<lesson, quizzed, docs, temp, bucket, at, found, outcome, clobbered>>

Complete(u) ==
    /\ Report(u, "stored", "success")
    /\ Set(File(u), [status |-> "completed", progress |-> 100])
    /\ UNCHANGED <<lesson, quizzed, texts, temp, bucket, found, clobbered>>

\* Whatever raises after the row exists reaches the handler, whose second line uses the
\* traceback module that the file does not import: a NameError ends the request, and the
\* row is not marked.  A temporary file that another upload removed is one such case.
Abort(u) ==
    /\ pc[u] \in {"recorded", "saved", "extracted", "uploaded", "stored"}
    /\ pc' = [pc EXCEPT ![u] = "failed"]
    /\ UNCHANGED <<lesson, quizzed, rows, temp, bucket, at, found, outcome, clobbered>>

-----------------------------------------------------------------------------
(* The lesson.                                                             *)

\* A student's quiz is generated for a module of a recommended lesson of this one.
GenerateQuiz ==
    /\ lesson /\ ~quizzed
    /\ quizzed' = TRUE
    /\ UNCHANGED <<lesson, rows, temp, bucket, pc, at, found, outcome, clobbered>>

\* Mutant: the texts are not deleted with their documents.
DeleteLesson_KeepTexts(d) ==
    /\ Goto(d, "idle", "ok")
    /\ lesson /\ ~quizzed
    /\ lesson' = FALSE
    /\ docs' = [f \in Files |-> Absent]
    /\ UNCHANGED <<quizzed, texts, temp, bucket, at, found, outcome, clobbered>>

\* Recommended lessons, documents and the lesson in one transaction; the database deletes
\* modules, quizzes and extracted texts with them.
DeleteLesson(d) ==
    /\ Goto(d, "idle", "ok")
    /\ lesson /\ ~quizzed
    /\ lesson' = FALSE
    /\ docs' = [f \in Files |-> Absent]
    /\ texts' = [f \in Files |-> None]
    /\ UNCHANGED <<quizzed, temp, bucket, at, found, outcome, clobbered>>

\* A quiz's questions refer to it without ON DELETE: everything is rolled back.
DeleteRefused(d) ==
    /\ Goto(d, "idle", "refused")
    /\ lesson /\ quizzed
    /\ UNCHANGED <<lesson, quizzed, rows, temp, bucket, at, found, outcome, clobbered>>

HasUrl(f) == docs[f].status = "completed"

\* A link is signed for each document; signing an empty key raises.
ListDocuments(v) ==
    /\ Goto(v, "idle", IF \A f \in Files : docs[f] = Absent \/ HasUrl(f) THEN "ok" ELSE "failed")
    /\ UNCHANGED <<lesson, quizzed, rows, temp, bucket, at, found, outcome, clobbered>>

Next ==
    \/ \E u \in Uploads :
         \/ CreateRecord(u) \/ SaveTemp(u) \/ Extract(u) \/ ExtractNothing(u)
         \/ UploadToS3(u) \/ StoreText(u) \/ Complete(u) \/ Abort(u)
    \/ GenerateQuiz
    \/ \E d \in Deleters : DeleteLesson(d) \/ DeleteRefused(d)
    \/ \E v \in Readers : ListDocuments(v)

Spec == Init /\ [][Next]_vars

-----------------------------------------------------------------------------
(* Properties.                                                             *)

\* A document that is completed has a text and an object in S3.
CompletedIsWhole ==
    \A f \in Files : docs[f].status = "completed" => texts[f] # None /\ bucket[f] # None

\* The text stored for a document is that of its file, or a notice, unless another file of
\* the same name was copied between the file's copying and its extraction.
TextIsOfItsFile == \A f \in Files : texts[f] \in {f, Notice, None} \/ f \in clobbered

\* What an upload reports of a file is what its document says, unless the lesson was
\* deleted; and an answered upload reports each of its files.
OutcomeIsStored ==
    /\ \A f \in Files :
         /\ outcome[f] = "success" /\ lesson => docs[f].status = "completed"
         /\ outcome[f] = "error" /\ lesson => docs[f].status = "failed"
    /\ \A u \in Uploads : pc[u] = "ok" => \A i \in DOMAIN Batch[u] : outcome[Batch[u][i]] # None

\* A temporary file is left behind only by an upload that has not finished with it.
TempFilesAreRemoved ==
    \A n \in Names :
        temp[n] # None =>
            \E u \in Uploads : pc[u] \in {"saved", "failed"} /\ temp[n] \in {Batch[u][i] : i \in 1..at[u]}

\* What is reported and shown of a document is so, whatever step its upload fails at and
\* whether or not its lesson is deleted meanwhile.
DocumentsAreAsReported == OutcomeIsStored /\ CompletedIsWhole

\* The temporary files, which uploads of the same file name share, serve the upload that
\* wrote them, and are removed.
TempFilesAreSound == TextIsOfItsFile /\ TempFilesAreRemoved

\* The handler sets "status": "failed" for any error: no document of an ended upload is
\* still being processed.
ErrorsAreRecorded ==
    \A u \in Uploads : pc[u] = "failed" =>
        \A i \in 1..at[u] : docs[Batch[u][i]].status # "processing"

=============================================================================
