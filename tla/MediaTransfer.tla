---------------------------- MODULE MediaTransfer ----------------------------
(***************************************************************************)
(* Attachments of one room on their way between a window and the encrypted *)
(* media core of the member: apps/desktop/workers/media-transfer.js, the   *)
(* media half of room.js (sendMediaMessage, readMedia) and put and get of  *)
(* lib/encrypted-media.js.                                                 *)
(*                                                                         *)
(* A window sends the chunks of its file and may repeat or skip any, since *)
(* it does not see every answer.  Chunks have one length.  Ids of          *)
(* transfers are drawn at random and used once; an attachment has the name *)
(* of the upload it came from.  The copy that put makes of an upload's     *)
(* chunks is one step: it waits for no I/O in between.                     *)
(***************************************************************************)
EXTENDS Naturals, Sequences, FiniteSets

CONSTANTS
  Uploads, Downloads,
  Bytes,              \* contents of a chunk
  MaxChunks,          \* bound on the length of a file
  MaxActiveUploads,   \* MAX_ACTIVE_UPLOADS
  MaxActiveDownloads, \* MAX_ACTIVE_DOWNLOADS
  MaxReads,           \* maxConcurrentReads of the media store
  MaxBegins           \* bound on the exports that are begun and not through yet

ASSUME MediaAssumption ==
  /\ MaxChunks \in Nat \ {0}
  /\ MaxActiveUploads \in Nat /\ MaxActiveDownloads \in Nat \ {0}
  /\ MaxReads \in Nat /\ MaxBegins \in Nat

VARIABLES
  file,        \* the file a window imports
  upload,      \* state of an upload: "new", "open", "committing" or "gone"
  chunks,      \* its chunks
  import,      \* sendMediaMessage for it: "no", "room", "writing" or "stored"
  plaintext,   \* what put has collected
  writing,     \* activeWrite
  attachments, \* uploads whose message the room has, with what was stored
  download,    \* state of a download: "new", "checked", "reading", "open" or "gone"
  item,        \* the attachment it reads
  nextIndex,
  lastIndex,   \* the index after the last one read, 0 for null
  got,         \* chunks the window has of a download
  mediaClosed

uploading == <<file, upload, chunks, import, plaintext, writing, attachments>>
downloading == <<download, item, nextIndex, lastIndex, got>>
mediaVars == <<uploading, downloading, mediaClosed>>

Files == UNION {[1 .. n -> Bytes] : n \in 1 .. MaxChunks}
Unfinished(state) == {x \in DOMAIN state : state[x] \notin {"new", "gone"}}
\* The next id that is drawn; which one does not matter.
IsNext(x, state) == state[x] = "new" /\ x = CHOOSE y \in DOMAIN state : state[y] = "new"
Kept == {d \in Downloads : download[d] = "open"}
Reading == {d \in Downloads : download[d] = "reading"}
UnderWay == {d \in Downloads : download[d] \in {"checked", "reading"}}

MediaOK ==
  /\ file \in [Uploads -> Files \cup {<<>>}]
  /\ upload \in [Uploads -> {"new", "open", "committing", "gone"}]
  /\ chunks \in [Uploads -> Seq(Bytes)] /\ plaintext \in [Uploads -> Seq(Bytes)]
  /\ import \in [Uploads -> {"no", "room", "writing", "stored"}]
  /\ writing \subseteq Uploads
  /\ attachments \subseteq [id : Uploads, bytes : Files]
  /\ download \in [Downloads -> {"new", "checked", "reading", "open", "gone"}]
  /\ nextIndex \in [Downloads -> 0 .. MaxChunks] /\ lastIndex \in [Downloads -> 0 .. MaxChunks]
  /\ got \in [Downloads -> Seq(Bytes)]
  /\ mediaClosed \in BOOLEAN
  /\ Cardinality(Unfinished(upload)) <= MaxActiveUploads

MediaInit ==
  /\ file = [u \in Uploads |-> <<>>]
  /\ upload = [u \in Uploads |-> "new"] /\ chunks = [u \in Uploads |-> <<>>]
  /\ import = [u \in Uploads |-> "no"] /\ plaintext = [u \in Uploads |-> <<>>]
  /\ writing = {} /\ attachments = {}
  /\ download = [d \in Downloads |-> "new"] /\ item = [d \in Downloads |-> {}]
  /\ nextIndex = [d \in Downloads |-> 0] /\ lastIndex = [d \in Downloads |-> 0]
  /\ got = [d \in Downloads |-> <<>>]
  /\ mediaClosed = FALSE

-----------------------------------------------------------------------------
(* Imports. *)

HasUploadSlot == Cardinality(Unfinished(upload)) < MaxActiveUploads
BeginUpload(u, f) ==
  /\ ~mediaClosed /\ IsNext(u, upload) /\ HasUploadSlot
  /\ upload' = [upload EXCEPT ![u] = "open"]
  /\ file' = [file EXCEPT ![u] = f]
  /\ UNCHANGED <<chunks, import, plaintext, writing, attachments, downloading, mediaClosed>>

\* A chunk that came before has the same bytes and changes nothing.
FaultSkipChunks(u, index) == index >= Len(chunks[u])
NextChunk(u, index) == index = Len(chunks[u])
AppendUpload(u, index) ==
  /\ ~mediaClosed /\ upload[u] = "open"
  /\ NextChunk(u, index)
  /\ chunks' = [chunks EXCEPT ![u] = Append(@, file[u][index + 1])]
  /\ UNCHANGED <<file, upload, import, plaintext, writing, attachments, downloading, mediaClosed>>

Complete(u) == Len(chunks[u]) = Len(file[u])
CommitUpload(u) ==
  /\ ~mediaClosed /\ upload[u] = "open" /\ Complete(u)
  /\ upload' = [upload EXCEPT ![u] = "committing"]
  /\ import' = [import EXCEPT ![u] = "room"]
  /\ UNCHANGED <<file, chunks, plaintext, writing, attachments, downloading, mediaClosed>>

\* _disposeUpload.
Dispose(u) ==
  /\ upload' = [upload EXCEPT ![u] = "gone"]
  /\ chunks' = [chunks EXCEPT ![u] = <<>>]

\* The call into the room ends, and with it the upload.
FaultLeaveWriting(u) == writing
Released(u) == writing \ {u}
EndImport(u, posted) ==
  /\ Dispose(u)
  /\ import' = [import EXCEPT ![u] = "no"]
  /\ plaintext' = [plaintext EXCEPT ![u] = <<>>]
  /\ writing' = Released(u)
  /\ attachments' = attachments \cup posted
  /\ UNCHANGED <<file, downloading, mediaClosed>>

\* The room is open, its media core is ready and bound to the member; put
\* copies the chunks, which a closing manager has cleared.
CollectImport(u) ==
  /\ import[u] = "room"
  /\ IF writing = {} /\ chunks[u] # <<>>
     THEN /\ import' = [import EXCEPT ![u] = "writing"]
          /\ plaintext' = [plaintext EXCEPT ![u] = chunks[u]]
          /\ writing' = {u}
          /\ UNCHANGED <<file, upload, chunks, attachments, downloading, mediaClosed>>
     ELSE EndImport(u, {})

\* All blocks are in the core.
WriteImport(u) ==
  /\ import[u] = "writing"
  /\ import' = [import EXCEPT ![u] = "stored"]
  /\ writing' = Released(u)
  /\ UNCHANGED <<file, upload, chunks, plaintext, attachments, downloading, mediaClosed>>

\* message.add is accepted.
PostImport(u) ==
  /\ import[u] = "stored"
  /\ EndImport(u, {[id |-> u, bytes |-> plaintext[u]]})

\* The room is closed, the binding or the message is rejected, or a block
\* cannot be written.
ImportFails(u) == import[u] # "no" /\ EndImport(u, {})

AbortUpload(u) ==
  /\ upload[u] = "open" /\ Dispose(u)
  /\ UNCHANGED <<file, import, plaintext, writing, attachments, downloading, mediaClosed>>

\* MEDIA_TRANSFER_IDLE_MS without a chunk; a commit stops the timer.
UploadExpires(u) ==
  /\ upload[u] = "open" /\ Dispose(u)
  /\ UNCHANGED <<file, import, plaintext, writing, attachments, downloading, mediaClosed>>

-----------------------------------------------------------------------------
(* Downloads. *)

\* The manager counts what is registered, and nothing is before it was read.
HasDownloadSlot == Cardinality(Kept) < MaxActiveDownloads
BeginDownload(d, a) ==
  /\ ~mediaClosed /\ IsNext(d, download) /\ HasDownloadSlot
  /\ Cardinality(UnderWay) < MaxBegins
  /\ a \in attachments
  /\ download' = [download EXCEPT ![d] = "checked"]
  /\ item' = [item EXCEPT ![d] = {a}]
  /\ UNCHANGED <<uploading, nextIndex, lastIndex, got, mediaClosed>>

\* Behind the lookups of the item, the room and the binding and the opening of
\* the media store, which counts its reads and refuses one too many.
HasReadSlot == Cardinality(Reading) < MaxReads
StartRead(d) ==
  /\ download[d] = "checked"
  /\ download' = [download EXCEPT ![d] = IF HasReadSlot THEN "reading" ELSE "gone"]
  /\ UNCHANGED <<uploading, item, nextIndex, lastIndex, got, mediaClosed>>

Content(d) == (CHOOSE a \in item[d] : TRUE).bytes

\* The blocks were fetched, decrypted and verified; a manager that was closed
\* meanwhile registers them as well.
DownloadReady(d) ==
  /\ download[d] = "reading"
  /\ download' = [download EXCEPT ![d] = "open"]
  /\ UNCHANGED <<uploading, item, nextIndex, lastIndex, got, mediaClosed>>

DownloadFails(d) ==
  /\ d \in UnderWay
  /\ download' = [download EXCEPT ![d] = "gone"]
  /\ UNCHANGED <<uploading, item, nextIndex, lastIndex, got, mediaClosed>>

\* The window asks for the chunk it misses next and may not get the answer.
LastRead(d, index) == index + 1
ReadDownloadChunk(d, answered) ==
  LET index == Len(got[d]) IN
  /\ ~mediaClosed /\ download[d] = "open"
  /\ index \in {nextIndex[d], lastIndex[d] - 1}
  /\ got' = [got EXCEPT ![d] = IF answered THEN Append(@, Content(d)[index + 1]) ELSE @]
  /\ IF index = nextIndex[d]
     THEN /\ lastIndex' = [lastIndex EXCEPT ![d] = LastRead(d, index)]
          /\ nextIndex' = [nextIndex EXCEPT ![d] = index + 1]
     ELSE UNCHANGED <<lastIndex, nextIndex>>
  /\ download' = [download EXCEPT ![d] = IF index + 1 < Len(Content(d)) THEN "open" ELSE "gone"]
  /\ UNCHANGED <<uploading, item, mediaClosed>>

\* closeDownload, or the idle timer.
CloseDownload(d) ==
  /\ download[d] = "open"
  /\ download' = [download EXCEPT ![d] = "gone"]
  /\ UNCHANGED <<uploading, item, nextIndex, lastIndex, got, mediaClosed>>

-----------------------------------------------------------------------------
\* The worker closes; calls into the room that have begun go on.
CloseMedia ==
  /\ ~mediaClosed /\ mediaClosed' = TRUE
  /\ upload' = [u \in Uploads |-> IF upload[u] = "new" THEN "new" ELSE "gone"]
  /\ chunks' = [u \in Uploads |-> <<>>]
  /\ download' = [d \in Downloads |-> IF download[d] = "open" THEN "gone" ELSE download[d]]
  /\ UNCHANGED <<file, import, plaintext, writing, attachments, item, nextIndex, lastIndex, got>>

MediaNext ==
  \/ \E u \in Uploads :
       \/ CommitUpload(u) \/ AbortUpload(u) \/ UploadExpires(u)
       \/ CollectImport(u) \/ WriteImport(u) \/ PostImport(u) \/ ImportFails(u)
       \/ \E f \in Files : BeginUpload(u, f)
       \/ \E index \in 0 .. Len(file[u]) - 1 : AppendUpload(u, index)
  \/ \E d \in Downloads :
       \/ StartRead(d) \/ DownloadReady(d) \/ DownloadFails(d) \/ CloseDownload(d)
       \/ \E a \in attachments : BeginDownload(d, a)
       \/ \E answered \in BOOLEAN : ReadDownloadChunk(d, answered)
  \/ CloseMedia

MediaSpec == MediaInit /\ [][MediaNext]_mediaVars

-----------------------------------------------------------------------------
(* What must hold. *)

\* An attachment that the room shows is the whole file, in order and without
\* gaps or repeats, whatever the window repeated, whenever timers fired and
\* whichever import ran beside it or was cut off by closing.
AttachmentIsTheFile == \A a \in attachments : a.bytes = file[a.id]

\* What a window has read is the beginning of the attachment, and while the
\* download is there the chunk it misses next can be read, even when the
\* answer that carried it was lost.
ReadsGoOn ==
  \A d \in Downloads :
    /\ item[d] # {} => got[d] = SubSeq(Content(d), 1, Len(got[d]))
    /\ download[d] = "open" => Len(got[d]) \in {nextIndex[d], lastIndex[d] - 1}

\* A file goes through whole, into the room and out of it.
FileGoesThrough == AttachmentIsTheFile /\ ReadsGoOn

\* Plaintext in memory: the count of downloads is taken before the lookups and
\* the read, and the download is registered after them, so that the limit may
\* be passed, by as many exports as the windows begin before the first of them
\* is registered.  The media store bounds the reads beside each other only.
PlaintextIsBounded ==
  /\ Cardinality(Kept) + Cardinality(UnderWay) <= MaxActiveDownloads - 1 + MaxBegins
  /\ Cardinality(Reading) <= MaxReads

\* The media core is written by an import that is still under way: one that
\* failed has given it back, or no import of this member would succeed again.
WriterIsReleased ==
  /\ Cardinality(writing) <= 1
  /\ \A u \in writing : import[u] = "writing"

\* Transfers that were abandoned, timed out or failed hold on to nothing that
\* the next one needs.
NothingIsHeld == PlaintextIsBounded /\ WriterIsReleased

\* Transfers end as they should, whatever happens around them: a file arrives
\* whole and readable, and what a transfer took is free again.
TransfersGoThrough == FileGoesThrough /\ NothingIsHeld
=============================================================================
