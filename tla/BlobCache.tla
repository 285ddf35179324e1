----------------------------- MODULE BlobCache -----------------------------
(***************************************************************************)
(* The payload of an entry: bytes that are kept under their hash in the    *)
(* blob directory of each computer that captured or has used it.           *)
(*                                                                         *)
(* An entry travels without its payload. Who needs it looks at home, then  *)
(* asks the computer it is from, then another that has the entry, and      *)
(* keeps what it got. There is one content here, in pieces that are their  *)
(* position in it, or 0 where nothing was written. Each computer may       *)
(* capture it; an entry is the computer it is from.                        *)
(***************************************************************************)
EXTENDS Naturals, Sequences

CONSTANTS
  Computer,    \* the computers
  Task,        \* the requests at work at the same time
  Length,      \* the pieces of the content
  MaxInodes,   \* bound: files that are made
  Together     \* whether two requests of one computer may be in write_blob at once

ASSUME BlobAssumption == Length \in Nat \ {0} /\ MaxInodes \in Nat /\ Together \in BOOLEAN

VARIABLES
  inode,       \* the contents of the files
  blob,        \* the file with the blob's name on each computer, or 0
  temp,        \* the file with the temporary name, or 0
  entriesOf,   \* the entries in the history of each computer
  task,        \* the progress of each request
  handed       \* history: what was handed out as the payload

blobVars == <<inode, blob, temp, entriesOf, task, handed>>

Bytes == [k \in 1 .. Length |-> k]

NoTask(n) == [at |-> "rest", kind |-> "resolve", on |-> n, from |-> n, data |-> <<>>,
              file |-> 0, pos |-> 0]

BlobInit ==
  /\ inode = <<>>
  /\ blob = [n \in Computer |-> 0] /\ temp = [n \in Computer |-> 0]
  /\ entriesOf = [n \in Computer |-> {}]
  /\ \E n \in Computer : task = [c \in Task |-> NoTask(n)]
  /\ handed = {}

TaskGoes(c, at) == task' = [task EXCEPT ![c].at = at]
Rests(c) == TaskGoes(c, "rest")

-----------------------------------------------------------------------------
(* Requests *)

(* A large text or image, or a thumbnail: its blob is written first.       *)
CaptureBlob(c, n) ==
  /\ task[c].at = "rest"
  /\ task' = [task EXCEPT ![c] =
       [NoTask(n) EXCEPT !.at = "looking", !.kind = "capture", !.data = Bytes]]
  /\ UNCHANGED <<inode, blob, temp, entriesOf, handed>>

Holders(e) == {m \in Computer : e \in entriesOf[m]}

(* The entry that is asked for is found here or with a peer.               *)
Asked(c, e) == task[c].at = "rest" /\ Holders(e) # {}

HandOut(contents) == handed' = handed \cup {contents}

(* The payload of entry e is wanted for the clipboard or as a preview. It  *)
(* may be here.                                                            *)
Resolve(c, n, e) ==
  /\ Asked(c, e)
  /\ IF blob[n] # 0 THEN HandOut(inode[blob[n]]) /\ UNCHANGED task
     ELSE /\ task' = [task EXCEPT ![c] = [NoTask(n) EXCEPT !.at = "fetching", !.from = e]]
          /\ UNCHANGED handed
  /\ UNCHANGED <<inode, blob, temp, entriesOf>>

(* Where it is from, else a computer that has the entry.                   *)
Sources(e) == {e} \cup Holders(e)

(* GET /v1/blobs/{hash}: any of them may not answer, or not have the blob. *)
Serve(m, c) ==
  /\ blob[m] # 0
  /\ task' = [task EXCEPT ![c].at = "looking", ![c].data = inode[blob[m]]]

FetchBlob(c) ==
  /\ task[c].at = "fetching"
  /\ \E m \in Sources(task[c].from) : Serve(m, c)
  /\ UNCHANGED <<inode, blob, temp, entriesOf, handed>>

-----------------------------------------------------------------------------
(* write_blob, and what is done after it *)

Writing(c) == task[c].at \in {"creating", "writing"}

(* A captured payload gets its entry, a fetched one is handed out.         *)
Saved(c) ==
  IF task[c].kind = "capture" THEN TaskGoes(c, "recording") /\ UNCHANGED handed
  ELSE Rests(c) /\ HandOut(task[c].data)

(* What is there already is left as it is.                                 *)
LookForBlob(c) ==
  /\ task[c].at = "looking"
  /\ Together \/ \A d \in Task : Writing(d) => task[d].on # task[c].on
  /\ IF blob[task[c].on] # 0 THEN Saved(c) ELSE TaskGoes(c, "creating") /\ UNCHANGED handed
  /\ UNCHANGED <<inode, blob, temp, entriesOf>>

OpenTemp(c, n, contents) ==
  IF temp[n] # 0
  THEN /\ inode' = [inode EXCEPT ![temp[n]] = contents] /\ UNCHANGED temp
       /\ task' = [task EXCEPT ![c].at = "writing", ![c].file = temp[n], ![c].pos = 0]
  ELSE /\ Len(inode) < MaxInodes /\ inode' = Append(inode, <<>>)
       /\ temp' = [temp EXCEPT ![n] = Len(inode) + 1]
       /\ task' = [task EXCEPT ![c].at = "writing", ![c].file = Len(inode) + 1, ![c].pos = 0]

(* Mutant of CreateTemp: what a stopped write left is not cut.             *)
CreateTempKeeping(c) ==
  /\ task[c].at = "creating"
  /\ LET n == task[c].on IN
     OpenTemp(c, n, IF temp[n] # 0 THEN Append(inode[temp[n]], 0) ELSE <<>>)
  /\ UNCHANGED <<blob, entriesOf, handed>>

(* File::create: an old temporary file is cut to nothing.                  *)
CreateTemp(c) ==
  /\ task[c].at = "creating"
  /\ OpenTemp(c, task[c].on, <<>>)
  /\ UNCHANGED <<blob, entriesOf, handed>>

(* The next piece, at the position this request has come to.               *)
WriteTemp(c) ==
  /\ task[c].at = "writing" /\ task[c].pos < Len(task[c].data)
  /\ LET p == task[c].pos + 1
         old == inode[task[c].file]
     IN inode' = [inode EXCEPT ![task[c].file] =
          [k \in 1 .. (IF p > Len(old) THEN p ELSE Len(old)) |->
             IF k = p THEN task[c].data[p] ELSE IF k <= Len(old) THEN old[k] ELSE 0]]
  /\ task' = [task EXCEPT ![c].pos = @ + 1]
  /\ UNCHANGED <<blob, temp, entriesOf, handed>>

(* Synced, then renamed: whatever has the temporary name by now.           *)
RenameTemp(c) ==
  /\ task[c].at = "writing" /\ task[c].pos = Len(task[c].data)
  /\ LET n == task[c].on IN
     IF temp[n] = 0 THEN Rests(c) /\ UNCHANGED <<blob, temp, handed>>
     ELSE /\ blob' = [blob EXCEPT ![n] = temp[n]]
          /\ temp' = [temp EXCEPT ![n] = 0]
          /\ Saved(c)
  /\ UNCHANGED <<inode, entriesOf>>

RecordEntry(c) ==
  /\ task[c].at = "recording"
  /\ entriesOf' = [entriesOf EXCEPT ![task[c].on] = @ \cup {task[c].on}]
  /\ Rests(c)
  /\ UNCHANGED <<inode, blob, temp, handed>>

-----------------------------------------------------------------------------
(* Entries travel, and go; their blobs stay.                               *)

PushTo(m, e) == entriesOf' = [entriesOf EXCEPT ![m] = @ \cup {e}]

(* From its history, or one that it has found with a peer.                 *)
SendEntry(m, e) ==
  /\ Holders(e) \ {m} # {} /\ PushTo(m, e)
  /\ UNCHANGED <<inode, blob, temp, task, handed>>

DeleteEntry(n, e) ==
  /\ e \in entriesOf[n]
  /\ entriesOf' = [entriesOf EXCEPT ![n] = @ \ {e}]
  /\ UNCHANGED <<inode, blob, temp, task, handed>>

(* A request fails at any step.                                            *)
TaskFails(c) ==
  /\ task[c].at # "rest" /\ Rests(c)
  /\ UNCHANGED <<inode, blob, temp, entriesOf, handed>>

(* The process stops, and with it all of its requests.                     *)
ComputerStops(n) ==
  /\ \E c \in Task : task[c].on = n /\ task[c].at # "rest"
  /\ task' = [c \in Task |-> IF task[c].on = n THEN [task[c] EXCEPT !.at = "rest"] ELSE task[c]]
  /\ UNCHANGED <<inode, blob, temp, entriesOf, handed>>

BlobNext ==
  \/ \E c \in Task :
       \/ FetchBlob(c) \/ LookForBlob(c) \/ CreateTemp(c) \/ WriteTemp(c)
       \/ RenameTemp(c) \/ RecordEntry(c) \/ TaskFails(c)
       \/ \E n \in Computer :
            CaptureBlob(c, n) \/ \E e \in Computer : Resolve(c, n, e)
  \/ \E n, e \in Computer : DeleteEntry(n, e) \/ SendEntry(n, e)
  \/ \E n \in Computer : ComputerStops(n)

BlobSpec == BlobInit /\ [][BlobNext]_blobVars

-----------------------------------------------------------------------------
(* Wherever it was fetched from, and whatever stopped at any step, what is *)
(* under a hash, and what was handed out as it, is the content.            *)
BlobsAreWhole ==
  /\ \A n \in Computer : blob[n] # 0 => inode[blob[n]] = Bytes
  /\ handed \subseteq {Bytes}

(* No history anywhere has an entry whose payload its own computer lacks.  *)
EntriesHavePayloads == \A n \in Computer : \A e \in entriesOf[n] : blob[e] # 0

(* What is known of an entry's payload while each computer has one writer  *)
(* at a time: it is there, where the entry is from, and it is whole,       *)
(* wherever it came from and whatever stopped or failed on the way.        *)
PayloadsAreKept == BlobsAreWhole /\ EntriesHavePayloads

(* "so a crash never leaves a partial blob that later validates as         *)
(* complete" (store.rs): what is there while nobody writes is whole.       *)
NothingPartialIsLeft ==
  \A n \in Computer :
    (\A c \in Task : Writing(c) => task[c].on # n) =>
      (blob[n] # 0 => inode[blob[n]] = Bytes)

=============================================================================
