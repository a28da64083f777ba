--------------------------- MODULE KnowledgeBase ---------------------------
(***************************************************************************)
(* The documents users upload for retrieval: a file and its sidecar in the *)
(* upload directory, chunks in the vector store, and the shared keyword    *)
(* index, which is rebuilt from the directory.  An upload, and the retry   *)
(* of a failed one, indexes in a goroutine of its own; a new version of a  *)
(* source replaces the older ones once it is indexed.                      *)
(*                                                                         *)
(*   internal/app/knowledge_app.go            upload, delete, retry        *)
(*   internal/infra/filestore/upload_store.go files and sidecars           *)
(*   internal/ai/rag/indexing_service.go      IndexSource, SyncBM25Index   *)
(*   internal/infra/milvus/vector_store.go    DeleteBySourceExcept         *)
(*                                                                         *)
(* The text of a document and how it is split are left out: the chunks of  *)
(* one indexing are one pair of document and indexing job.  Uploads are    *)
(* Markdown files, which have an id in the keyword index.  What a crash    *)
(* leaves in the quarantine directory is read by nobody.                   *)
(***************************************************************************)
EXTENDS Naturals, FiniteSets, FiniteSetsExt

CONSTANTS
  Uploads,     \* calls of HandleUpload, each with the file it would store
  UserCalls,   \* calls that delete a document or index it again
  SourceOf,    \* the source key of each upload: its user and file name
  ContentOf,   \* the hash of its content
  NoDoc,       \* the document of a call that has not chosen one
  Patient,     \* users wait for the jobs of a source to end, and index only
               \* its newest version again
  KbFaults,    \* the kinds of failure that may happen, each once
  KbMaxFaults  \* bound: failures in one behaviour

KbFaultKinds == { "milvus",  \* the vector store or the embedder errs
                  "disk",    \* a write, rename or removal of a file errs
                  "crash" }  \* the process dies and starts anew

ASSUME UploadsAssumption ==
  IsFiniteSet(Uploads) /\ Uploads \cap UserCalls = {} /\ NoDoc \notin Uploads
ASSUME KbFaultsAssumption ==
  Patient \in BOOLEAN /\ KbFaults \subseteq KbFaultKinds /\ KbMaxFaults \in Nat

VARIABLES
  stored,    \* the uploads whose file is in the directory
  sidecar,   \* the status in each upload's metadata file, if it is readable
  version,   \* the version in it; 0 before there is one
  chunks,    \* the vector store: the document and the job of each chunk
  lexical,   \* the documents in the shared keyword index
  job,       \* where each call, or the goroutine it started, stands
  doc,       \* the document it is about
  deletes,   \* the calls that delete
  verdict,   \* the status it is writing
  doomed,    \* the chunks its query has found and it will delete
  todo,      \* the documents it has listed and not come to yet
  loaded,    \* the documents of the keyword index it is building
  tried,     \* sources a deletion was begun of (history)
  hit        \* failures so far

dirVars == <<stored, sidecar, version>>
jobVars == <<doc, deletes, verdict, doomed, todo, loaded>>
kbVars == <<dirVars, chunks, lexical, job, jobVars, tried, hit>>

Jobs == Uploads \cup UserCalls
Chunks == Uploads \X Jobs

DocStatuses == {"indexing", "ready", "failed"}

Rest == {"idle", "ended", "succeeded", "lost"}
JobSteps == Rest \cup { "rename", "mark", "open", "write", "load", "insert",
                        "query", "purge", "list", "read", "others", "lookup",
                        "unlink", "unlabel" }

Source(j) == SourceOf[doc[j]]
UnderWay(j) == job[j] \notin Rest
Busy(s) == \E j \in Jobs : UnderWay(j) /\ Source(j) = s

\* The metadata file of u can be read and decoded.
Readable(u) == sidecar[u] \in DocStatuses

\* One metadata file that does not decode fails every listing.
Listable == \A u \in Uploads : sidecar[u] # "torn"
Records(s) == {u \in Uploads : Readable(u) /\ SourceOf[u] = s}

Newest(u) == \A r \in Records(SourceOf[u]) : version[r] <= version[u]

\* The files the loader reads: there, and with no metadata that fails it.
Loadable == {u \in stored : sidecar[u] # "torn"}

KbFault(k) == /\ k \in KbFaults \ hit /\ Cardinality(hit) < KbMaxFaults
              /\ hit' = hit \cup {k}

JobGoto(j, step) == job' = [job EXCEPT ![j] = step]

-----------------------------------------------------------------------------
(* SaveUpload *)

Duplicates(u) ==
  {r \in Records(SourceOf[u]) : ContentOf[r] = ContentOf[u] /\ r \in stored}

NextVersion(u) == Max({0} \cup {version[r] : r \in Records(SourceOf[u])}) + 1

\* The directory is listed: an upload may be refused, or be a duplicate.
SaveUpload(u) ==
  /\ job[u] = "idle"
  /\ Patient => ~Busy(SourceOf[u])
  /\ IF Listable /\ Duplicates(u) = {}
       THEN /\ doc' = [doc EXCEPT ![u] = u]
            /\ version' = [version EXCEPT ![u] = NextVersion(u)]
            /\ JobGoto(u, "rename")
       ELSE JobGoto(u, "ended") /\ UNCHANGED <<doc, version>>
  /\ UNCHANGED <<stored, sidecar, chunks, lexical, deletes, verdict, doomed,
                 todo, loaded, tried, hit>>

Rename(u) ==
  /\ job[u] = "rename"
  /\ \/ /\ stored' = stored \cup {u}
        /\ verdict' = [verdict EXCEPT ![u] = "indexing"]
        /\ JobGoto(u, "open")
        /\ UNCHANGED hit
     \/ /\ KbFault("disk")
        /\ JobGoto(u, "ended")
        /\ UNCHANGED <<stored, verdict>>
  /\ UNCHANGED <<sidecar, version, chunks, lexical, doc, deletes, doomed,
                 todo, loaded, tried>>

-----------------------------------------------------------------------------
(* Writing a status *)

\* Reads the record whose status it writes; the goroutine only warns when it
\* cannot.
AfterMark(j) == CASE verdict[j] = "indexing" -> "ended"
                  [] verdict[j] = "ready" -> "others"
                  [] verdict[j] = "failed" -> "ended"

MarkUploadStatus(j) ==
  /\ job[j] = "mark"
  /\ JobGoto(j, IF Readable(doc[j]) THEN "open" ELSE AfterMark(j))
  /\ UNCHANGED <<dirVars, chunks, lexical, jobVars, tried, hit>>

\* An upload whose record cannot be written is taken back.
Unwritten(j) ==
  /\ KbFault("disk")
  /\ JobGoto(j, AfterMark(j))
  /\ stored' = IF verdict[j] = "indexing" /\ j \in Uploads
                 THEN stored \ {doc[j]} ELSE stored

\* The file is truncated, or created, and then written from its start.  One
\* removed in between stays removed, and of a longer text that another writer
\* left in between the end remains.
Longer == { <<"indexing", "ready">>, <<"indexing", "failed">>,
            <<"failed", "ready">> }
Written(old, status) == IF old = "none" THEN "none"
                        ELSE IF <<old, status>> \in Longer THEN "torn"
                        ELSE status

OpenMetadata(j) ==
  /\ job[j] = "open"
  /\ \/ /\ sidecar' = [sidecar EXCEPT ![doc[j]] = "torn"]
        /\ JobGoto(j, "write")
        /\ UNCHANGED <<stored, hit>>
     \/ Unwritten(j) /\ UNCHANGED sidecar
  /\ UNCHANGED <<version, chunks, lexical, jobVars, tried>>

WriteMetadata(j) ==
  /\ job[j] = "write"
  /\ \/ /\ sidecar' = [sidecar EXCEPT ![doc[j]] = Written(@, verdict[j])]
        /\ JobGoto(j, IF verdict[j] = "indexing" THEN "load" ELSE AfterMark(j))
        /\ UNCHANGED <<stored, hit>>
     \/ Unwritten(j) /\ UNCHANGED sidecar
  /\ UNCHANGED <<version, chunks, lexical, jobVars, tried>>

-----------------------------------------------------------------------------
(* IndexSource *)

FailedM(j) ==
  verdict' = [verdict EXCEPT ![j] = "failed"] /\ JobGoto(j, "ended")
Failed(j) ==
  verdict' = [verdict EXCEPT ![j] = "failed"] /\ JobGoto(j, "mark")

LoadFile(j) ==
  /\ job[j] = "load"
  /\ IF doc[j] \in Loadable THEN JobGoto(j, "insert") /\ UNCHANGED verdict
                            ELSE Failed(j)
  /\ UNCHANGED <<dirVars, chunks, lexical, doc, deletes, doomed, todo, loaded,
                 tried, hit>>

\* A failed insertion may have been carried out.
InsertChunks(j) ==
  /\ job[j] = "insert"
  /\ \/ /\ chunks' = chunks \cup {<<doc[j], j>>}
        /\ JobGoto(j, "query")
        /\ UNCHANGED <<verdict, hit>>
     \/ /\ KbFault("milvus")
        /\ chunks' \in {chunks, chunks \cup {<<doc[j], j>>}}
        /\ Failed(j)
  /\ UNCHANGED <<dirVars, lexical, doc, deletes, doomed, todo, loaded, tried>>

-----------------------------------------------------------------------------
(* DeleteBySourceExcept, for an indexing and for a deletion *)

KeptM(j) == {}
Kept(j) == IF j \in deletes THEN {} ELSE {<<doc[j], j>>}
Others(j) == {c \in chunks : SourceOf[c[1]] = Source(j)} \ Kept(j)

AfterPurge(j) == IF j \in deletes THEN "lookup" ELSE "list"

\* A deletion gives up, an indexing is marked as failed.
VectorFailsM(j) ==
  /\ KbFault("milvus")
  /\ IF j \in deletes THEN JobGoto(j, "lookup") /\ UNCHANGED verdict
                      ELSE Failed(j)
VectorFails(j) ==
  /\ KbFault("milvus")
  /\ IF j \in deletes THEN JobGoto(j, "ended") /\ UNCHANGED verdict
                      ELSE Failed(j)

QueryChunks(j) ==
  /\ job[j] = "query"
  /\ \/ /\ doomed' = [doomed EXCEPT ![j] = Others(j)]
        /\ JobGoto(j, IF Others(j) = {} THEN AfterPurge(j) ELSE "purge")
        /\ UNCHANGED <<verdict, hit>>
     \/ VectorFails(j) /\ UNCHANGED doomed
  /\ UNCHANGED <<dirVars, chunks, lexical, doc, deletes, todo, loaded, tried>>

PurgeChunks(j) ==
  /\ job[j] = "purge"
  /\ doomed' = [doomed EXCEPT ![j] = {}]
  /\ \/ /\ chunks' = chunks \ doomed[j]
        /\ JobGoto(j, AfterPurge(j))
        /\ UNCHANGED <<verdict, hit>>
     \/ /\ VectorFails(j)
        /\ chunks' \in {chunks, chunks \ doomed[j]}
  /\ UNCHANGED <<dirVars, lexical, doc, deletes, todo, loaded, tried>>

-----------------------------------------------------------------------------
(* SyncBM25Index *)

ListFiles(j) ==
  /\ job[j] = "list"
  /\ todo' = [todo EXCEPT ![j] = stored]
  /\ JobGoto(j, "read")
  /\ UNCHANGED <<dirVars, chunks, lexical, doc, deletes, verdict, doomed,
                 loaded, tried, hit>>

\* One file after the other, in the order of their names, which begin with
\* random characters; what cannot be loaded is passed over.
ReadFile(j) ==
  /\ job[j] = "read" /\ todo[j] # {}
  /\ LET d == CHOOSE f \in todo[j] : TRUE IN
       /\ todo' = [todo EXCEPT ![j] = @ \ {d}]
       /\ loaded' = [loaded EXCEPT ![j] = @ \cup ({d} \cap Loadable)]
  /\ UNCHANGED <<dirVars, chunks, lexical, job, doc, deletes, verdict, doomed,
                 tried, hit>>

SetSharedBM25Index(j) ==
  /\ job[j] = "read" /\ todo[j] = {}
  /\ lexical' = loaded[j]
  /\ loaded' = [loaded EXCEPT ![j] = {}]
  /\ IF j \in deletes
       THEN JobGoto(j, "succeeded") /\ UNCHANGED verdict
       ELSE JobGoto(j, "mark") /\ verdict' = [verdict EXCEPT ![j] = "ready"]
  /\ UNCHANGED <<dirVars, chunks, doc, deletes, doomed, todo, tried, hit>>

-----------------------------------------------------------------------------
(* CleanupReplacedUploads and DeleteUpload *)

\* The other versions are listed, whatever their status and their age.
ListReplaced(j) ==
  /\ job[j] = "others"
  /\ LET replaced == Records(Source(j)) \ {doc[j]} IN
       IF Listable /\ replaced # {}
         THEN JobGoto(j, "unlink") /\ todo' = [todo EXCEPT ![j] = replaced]
         ELSE JobGoto(j, "ended") /\ UNCHANGED todo
  /\ UNCHANGED <<dirVars, chunks, lexical, doc, deletes, verdict, doomed,
                 loaded, tried, hit>>

\* The record of the document to delete is read once more.
LookupUpload(j) ==
  /\ job[j] = "lookup"
  /\ IF Readable(doc[j])
       THEN JobGoto(j, "unlink") /\ todo' = [todo EXCEPT ![j] = {doc[j]}]
       ELSE JobGoto(j, "ended") /\ UNCHANGED todo
  /\ UNCHANGED <<dirVars, chunks, lexical, doc, deletes, verdict, doomed,
                 loaded, tried, hit>>

\* The order of the listing, newest version first, is left open.
Victim(j) == CHOOSE d \in todo[j] : TRUE

RemovalFails(j) ==
  /\ KbFault("disk")
  /\ todo' = [todo EXCEPT ![j] = {}]
  /\ JobGoto(j, "ended")

RemoveFile(j) ==
  /\ job[j] = "unlink"
  /\ \/ /\ stored' = stored \ {Victim(j)}
        /\ JobGoto(j, "unlabel")
        /\ UNCHANGED <<todo, hit>>
     \/ RemovalFails(j) /\ UNCHANGED stored
  /\ UNCHANGED <<sidecar, version, chunks, lexical, doc, deletes, verdict,
                 doomed, loaded, tried>>

AfterRemoval(j) == IF todo'[j] # {} THEN "unlink"
                   ELSE IF j \in deletes THEN "list" ELSE "ended"

RemoveMetadata(j) ==
  /\ job[j] = "unlabel"
  /\ \/ /\ sidecar' = [sidecar EXCEPT ![Victim(j)] = "none"]
        /\ todo' = [todo EXCEPT ![j] = @ \ {Victim(j)}]
        /\ JobGoto(j, AfterRemoval(j))
        /\ UNCHANGED hit
     \/ RemovalFails(j) /\ UNCHANGED sidecar
  /\ UNCHANGED <<stored, version, chunks, lexical, doc, deletes, verdict,
                 doomed, loaded, tried>>

-----------------------------------------------------------------------------
(* The calls of a user *)

\* The call reads the record of a document.
OwnedDocument(j, d) ==
  /\ job[j] = "idle"
  /\ Readable(d)
  /\ Patient => ~Busy(SourceOf[d])
  /\ doc' = [doc EXCEPT ![j] = d]
  /\ UNCHANGED <<dirVars, chunks, lexical, doomed, todo, loaded, hit>>

DeleteDocument(j, d) ==
  /\ OwnedDocument(j, d)
  /\ sidecar[d] # "indexing"
  /\ deletes' = deletes \cup {j}
  /\ tried' = tried \cup {SourceOf[d]}
  /\ JobGoto(j, "query")
  /\ UNCHANGED verdict

RetryDocumentIndex(j, d) ==
  /\ OwnedDocument(j, d)
  /\ sidecar[d] = "failed"
  /\ Patient => Newest(d)
  /\ verdict' = [verdict EXCEPT ![j] = "indexing"]
  /\ JobGoto(j, "mark")
  /\ UNCHANGED <<deletes, tried>>

-----------------------------------------------------------------------------
\* The process dies; the next one rebuilds the keyword index as it starts.
KbCrash ==
  /\ KbFault("crash")
  /\ \E j \in Jobs : UnderWay(j)
  /\ job' = [j \in Jobs |-> IF UnderWay(j) THEN "lost" ELSE job[j]]
  /\ lexical' = Loadable
  /\ doomed' = [j \in Jobs |-> {}]
  /\ todo' = [j \in Jobs |-> {}]
  /\ loaded' = [j \in Jobs |-> {}]
  /\ UNCHANGED <<dirVars, chunks, doc, deletes, verdict, tried>>

KbInit ==
  /\ stored = {} /\ chunks = {} /\ lexical = {} /\ deletes = {}
  /\ tried = {} /\ hit = {}
  /\ sidecar = [u \in Uploads |-> "none"]
  /\ version = [u \in Uploads |-> 0]
  /\ job = [j \in Jobs |-> "idle"]
  /\ doc = [j \in Jobs |-> NoDoc]
  /\ verdict = [j \in Jobs |-> "indexing"]
  /\ doomed = [j \in Jobs |-> {}]
  /\ todo = [j \in Jobs |-> {}]
  /\ loaded = [j \in Jobs |-> {}]

\* A step of a call, or of the goroutine it started, once it has begun.
JobStep(j) ==
  \/ j \in Uploads /\ Rename(j)
  \/ MarkUploadStatus(j) \/ OpenMetadata(j) \/ WriteMetadata(j)
  \/ LoadFile(j) \/ InsertChunks(j) \/ QueryChunks(j) \/ PurgeChunks(j)
  \/ ListFiles(j) \/ ReadFile(j) \/ SetSharedBM25Index(j)
  \/ ListReplaced(j) \/ LookupUpload(j) \/ RemoveFile(j) \/ RemoveMetadata(j)

KbNext ==
  \/ \E u \in Uploads : SaveUpload(u)
  \/ \E j \in UserCalls, d \in Uploads :
       DeleteDocument(j, d) \/ RetryDocumentIndex(j, d)
  \/ \E j \in Jobs : JobStep(j)
  \/ KbCrash

KbSpec == KbInit /\ [][KbNext]_kbVars

-----------------------------------------------------------------------------
(* Properties *)

\* Types: what each variable may hold, and that a job that runs has its
\* document.
KbTypeInv ==
  /\ stored \subseteq Uploads /\ chunks \subseteq Chunks
  /\ lexical \subseteq Uploads /\ deletes \subseteq UserCalls
  /\ sidecar \in [Uploads -> DocStatuses \cup {"none", "torn"}]
  /\ job \in [Jobs -> JobSteps]
  /\ doc \in [Jobs -> Uploads \cup {NoDoc}]
  /\ verdict \in [Jobs -> DocStatuses]
  /\ doomed \in [Jobs -> SUBSET Chunks]
  /\ todo \in [Jobs -> SUBSET Uploads]
  /\ loaded \in [Jobs -> SUBSET Uploads]
  /\ hit \subseteq KbFaultKinds
  /\ \A j \in Jobs : UnderWay(j) => doc[j] \in Uploads

KbQuiet == \A j \in Jobs : ~UnderWay(j)

\* Retrieval finds u of its source, and nothing else of it.
Served(u) ==
  /\ u \in stored
  /\ \E j \in Jobs : <<u, j>> \in chunks
  /\ \A c \in chunks : SourceOf[c[1]] = SourceOf[u] => c[1] = u

\* Retrieval finds the source of u, and no version of it before u.
Current(u) ==
  /\ \E c \in chunks : SourceOf[c[1]] = SourceOf[u]
  /\ \A c \in chunks :
       SourceOf[c[1]] = SourceOf[u] => c[1] = u \/ version[u] < version[c[1]]

\* At every moment, a document shown as ready is found, or newer versions of
\* it are, and none it has replaced; the newest version shown as ready is
\* found alone and its file is there (IndexSource inserts before it deletes,
\* MarkUploadStatus comes last).  What the failed indexing of a newer version
\* may leave beside an older ready one is what ReadyIsFoundAlone is about.  A
\* deletion that was begun excuses the loss of chunks; while a record is torn
\* no listing shows anything.
ReadyIsSearchable ==
  \A u \in Uploads :
    sidecar[u] = "ready" /\ Listable /\ SourceOf[u] \notin tried
    => Current(u) /\ (Newest(u) => Served(u))

\* Once no job runs, a document shown as ready is what retrieval finds of its
\* source, and no other version is, also when the indexing of a newer one has
\* failed.  The chunks of a failed version stay where a failure of the vector
\* store left them, beside the ready one's or in their place.
ReadyIsFoundAlone ==
  KbQuiet => \A u \in Uploads :
    sidecar[u] = "ready" /\ Listable /\ SourceOf[u] \notin tried => Served(u)

\* What the vector store returns belongs to a document users still see, and
\* can delete, whatever fails and wherever the process dies: chunks go before
\* the record that names their source does (DeleteDocument, IndexSource).
SearchableIsListed ==
  \A c \in chunks : sidecar[c[1]] # "none" \/ Busy(SourceOf[c[1]])

\* A document shown as being indexed is being indexed, unless a file could
\* not be written or the process died: users can neither delete nor retry one
\* nor upload it again (startIndexing always ends with a verdict).
IndexingIsUnderWay ==
  \A u \in Uploads :
    sidecar[u] = "indexing" =>
      \/ \E j \in Jobs : UnderWay(j) /\ doc[j] = u
      \/ hit \cap {"disk", "crash"} # {}

\* Once no job runs, the keyword index holds the files of the directory
\* (SyncBM25Index rebuilds it after each indexing and each deletion).
LexicalFollowsFiles == KbQuiet => lexical = Loadable

=============================================================================
