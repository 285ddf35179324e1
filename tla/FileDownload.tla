---------------------------- MODULE FileDownload ----------------------------
(***************************************************************************)
(* The download of one file of a peer: the peer hashes the file and then   *)
(* streams it, the client resumes a partial download, checks the hash and  *)
(* publishes the file by a hard link. A file is a sequence of pieces, each *)
(* of the version of the source it was read from; its ETag is the version. *)
(***************************************************************************)
EXTENDS Naturals, Sequences

CONSTANTS
  Version, Size,  \* the contents the source may have, and their pieces
  MaxFiles,       \* bound: files the client makes
  MaxChanges,     \* bound: changes of the source
  RemovalFails    \* whether the client may stop, or fail, before it has removed
                  \* a partial download that was published

VARIABLES
  source,    \* what the peer's file is
  disk,      \* the client's files by inode
  part,      \* the inode of the .part file, or 0
  meta,      \* the ETag in the .meta file, or 0
  published, \* the inodes that were given a name, with the version they are of
  client,    \* the attempt under way
  changes    \* bound: changes of the source

downloadVars == <<source, disk, part, meta, published, client, changes>>

Resting == [at |-> "idle", etag |-> 0, again |-> FALSE, calm |-> TRUE]

DownloadInit ==
  /\ source \in Version
  /\ disk = <<>> /\ part = 0 /\ meta = 0 /\ published = {}
  /\ client = Resting /\ changes = 0

Whole(v) == [i \in 1 .. Size[v] |-> v]

ExistingLen == IF part = 0 THEN 0 ELSE Len(disk[part])

Goes(step) == client' = [client EXCEPT !.at = step]

(* download_file_observed, with the locks of the download taken. calm says *)
(* that nothing outside has disturbed the attempt.                         *)
Begin ==
  /\ client.at \in {"idle", "failed"}
  /\ client' = [Resting EXCEPT !.at = "asking"]
  /\ UNCHANGED <<source, disk, part, meta, published, changes>>

(* Mutant of Retry: a range beyond the end, or a wrong hash, is an error.  *)
RetryNever == Goes("failed") /\ UNCHANGED <<part, meta>>

(* remove_partial, which succeeds here, and once more, from nothing.       *)
Retry ==
  IF client.again THEN Goes("failed") /\ UNCHANGED <<part, meta>>
  ELSE /\ part' = 0 /\ meta' = 0
       /\ client' = [client EXCEPT !.at = "asking", !.again = TRUE]

(* The request asks for the rest of what is there, if it is still the same.*)
SameAsBefore == ExistingLen > 0 /\ meta # 0 /\ meta = source

(* parse_range: no piece of the file is left to be sent.                   *)
Beyond == ExistingLen >= Size[source]

(* stream_file: range not satisfiable                                      *)
AskBeyond ==
  /\ client.at = "asking" /\ SameAsBefore /\ Beyond
  /\ Retry
  /\ UNCHANGED <<source, disk, published, changes>>

Heads == client' = [client EXCEPT !.at = "heading", !.etag = source]

(* Partial content, as validate_partial_response accepts it: the rest of   *)
(* the file that the .meta file names.                                     *)
AskRest ==
  /\ client.at = "asking" /\ SameAsBefore /\ ~Beyond
  /\ Heads
  /\ UNCHANGED <<source, disk, part, meta, published, changes>>

(* stream_file: all of the file; what is there is cut.                     *)
AskAll ==
  /\ client.at = "asking" /\ ~SameAsBefore
  /\ Heads
  /\ disk' = IF ExistingLen > 0 THEN [disk EXCEPT ![part] = <<>>] ELSE disk
  /\ UNCHANGED <<source, part, meta, published, changes>>

(* write_download_meta; the part file is opened, or made.                  *)
WriteMeta ==
  /\ client.at = "heading"
  /\ meta' = client.etag
  /\ IF part # 0 THEN UNCHANGED <<part, disk>>
     ELSE Len(disk) < MaxFiles /\ disk' = Append(disk, <<>>) /\ part' = Len(disk) + 1
  /\ Goes("writing")
  /\ UNCHANGED <<source, published, changes>>

(* write_response_to_part: a chunk of what the source is now.              *)
WriteChunk ==
  /\ client.at = "writing"
  /\ ExistingLen < Size[client.etag] /\ ExistingLen < Size[source]
  /\ disk' = [disk EXCEPT ![part] = Append(@, source)]
  /\ UNCHANGED <<source, part, meta, published, client, changes>>

(* The stream ends, with the length it was to have or short of it.         *)
WriteEnds ==
  /\ client.at = "writing"
  /\ \/ ExistingLen = Size[client.etag] /\ Goes("checking")
     \/ ExistingLen < Size[client.etag] /\ ExistingLen >= Size[source] /\ Goes("failed")
  /\ UNCHANGED <<source, disk, part, meta, published, changes>>

(* Mutant of Verified: the length is enough.                               *)
VerifiedLength == Len(disk[part]) = Size[client.etag]

(* verify_part_hash *)
Verified == disk[part] = Whole(client.etag)

Verify ==
  /\ client.at = "checking"
  /\ IF Verified THEN Goes("linking") /\ UNCHANGED <<part, meta>> ELSE Retry
  /\ UNCHANGED <<source, disk, published, changes>>

(* The part file gets a free name as well.                                 *)
Link ==
  /\ client.at = "linking"
  /\ published' = published \cup {[file |-> part, version |-> client.etag]}
  /\ Goes("removing")
  /\ UNCHANGED <<source, disk, part, meta, changes>>

(* remove_partial, whose failures are ignored.                             *)
RemovePartial ==
  /\ client.at = "removing"
  /\ \/ part' = 0 /\ meta' = 0
     \/ RemovalFails /\ part' = 0 /\ UNCHANGED meta
     \/ RemovalFails /\ meta' = 0 /\ UNCHANGED part
     \/ RemovalFails /\ UNCHANGED <<part, meta>>
  /\ client' = Resting
  /\ UNCHANGED <<source, disk, published, changes>>

(* The attempt is cancelled, loses its connection, times out or crashes.   *)
Lose ==
  /\ client.at \in {"asking", "heading", "writing", "checking", "linking"}
  /\ client' = Resting
  /\ UNCHANGED <<source, disk, part, meta, published, changes>>

(* The peer's file is written over.                                        *)
Change(v) ==
  /\ v # source /\ changes < MaxChanges /\ changes' = changes + 1
  /\ source' = v
  /\ client' = [client EXCEPT !.calm = FALSE]
  /\ UNCHANGED <<disk, part, meta, published>>

DownloadNext ==
  \/ Begin \/ AskBeyond \/ AskRest \/ AskAll \/ WriteMeta
  \/ WriteChunk \/ WriteEnds
  \/ Verify \/ Link \/ RemovePartial \/ Lose
  \/ \E v \in Version : Change(v)

DownloadSpec == DownloadInit /\ [][DownloadNext]_downloadVars

-----------------------------------------------------------------------------
(* A file that was published is all of one version of the source and stays *)
(* what it is, whatever is downloaded after it.                            *)
PublishedStays == \A p \in published : disk[p.file] = Whole(p.version)

(* What earlier attempts left behind is never in the way: an attempt fails *)
(* by its own judgement only if the source changed during it.              *)
CalmAttemptSucceeds == client.calm => client.at # "failed"

=============================================================================
