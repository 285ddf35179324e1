--------------------------- MODULE MobileGateway ---------------------------
(***************************************************************************)
(* What a phone may do once it is paired: the resumable uploads of         *)
(* uploads.rs, behind the gateway of MobilePairing, with the phone's side  *)
(* of it in client.dart.                                                   *)
(*                                                                         *)
(* The requests of one gateway take its lock one after the other, but the  *)
(* process may stop between any two effects on the disk, and a request     *)
(* goes on after its gateway was stopped.  Each device uploads one file of *)
(* Size units; a unit is its position in the file, or 0 when the phone     *)
(* read something else.  In the other surface of the same code, devices    *)
(* are configured rather than paired, and outlive the process.             *)
(***************************************************************************)
EXTENDS MobilePairing, FiniteSetsExt

CONSTANTS
  MaxIds,       \* bound: the sessions that are created
  Size,         \* the size of every file
  Chunk,        \* the most units in a chunk
  MaxSessions,  \* mobile.max_sessions
  MaxStored,    \* mobile.max_storage_bytes
  MaxFaults,    \* bound: crashes, failing writes and changes of a phone's file
  Surfaces,     \* the surfaces a run looks at
  Overlap       \* whether a gateway may start while one that was stopped is at work

ASSUME UploadAssumption ==
  /\ MaxIds \in Nat
  /\ Size \in Nat \ {0} /\ Chunk \in Nat \ {0}
  /\ MaxSessions \in Nat /\ MaxStored \in Nat /\ MaxFaults \in Nat
  /\ Surfaces \subseteq {"paired", "configured"} /\ Overlap \in BOOLEAN

VARIABLES
  surface,      \* how devices get to upload
  router,       \* the number of the upload router, 0 while there is none
  routers,      \* the routers started so far
  unavailable,  \* load failed
  sessions,     \* the sessions in memory, and whether they are completed
  reserved,     \* the storage they reserve
  disk,         \* the directory of each session
  given,        \* the session ids given out
  entries,      \* the sessions whose entry is in the store
  working,      \* the requests at work, each with the router it came by
  known,        \* what each device's phone has been told of its upload
  torn,         \* history: directories whose making or removal was broken off
  faults

uploadVars ==
  <<surface, router, routers, unavailable, sessions, reserved, disk, given,
    entries, working, known, torn, faults>>
vars == <<pairingVars, uploadVars>>

upload == <<router, routers, unavailable>>
memory == <<upload, sessions, reserved>>

Id == 1 .. MaxIds

Device == 1 .. Max({1, MaxTickets})
NoDir == [dir |-> FALSE, data |-> <<>>, part |-> FALSE, bin |-> FALSE,
          manifest |-> "none", device |-> 0]
Unknown == [id |-> 0, offset |-> 0, done |-> FALSE]

UploadInit ==
  /\ surface \in Surfaces
  /\ router = 0 /\ routers = 0 /\ unavailable = FALSE
  /\ sessions = <<>> /\ reserved = 0
  /\ disk = [i \in Id |-> NoDir] /\ given = 0 /\ entries = {}
  /\ working = {}
  /\ known = [d \in Device |-> Unknown]
  /\ torn = {} /\ faults = 0

-----------------------------------------------------------------------------
(* Sessions *)

File == [n \in 1 .. Size |-> n]

(* The length of the payload, when it can be read.                         *)
Readable(i) ==
  /\ disk[i].dir /\ disk[i].manifest # "none"
  /\ IF disk[i].manifest = "completed" THEN disk[i].bin ELSE disk[i].bin \/ disk[i].part
  /\ Len(disk[i].data) <= Size
Offset(i) == Len(disk[i].data)

Owned(d, i) == i \in DOMAIN sessions /\ disk[i].device = d

(* A phone has the credentials of the device, and they are still good.     *)
Connected(d) == Authorized(d) /\ \E p \in Phone : credential[p] = d

MayUpload(d) ==
  /\ router # 0 /\ ~unavailable
  /\ IF surface = "paired" THEN Connected(d) ELSE d = 1

(* The requests of one router take turns.                                  *)
Free == \A w \in working : w.router # router

(* What the phone's client learns from an answer, unless it is lost.       *)
Tell(d, i, n, done) ==
  known' = [known EXCEPT ![d] = [id |-> i, offset |-> n, done |-> @.done \/ done]]
MayTell(d, i, n, done) == UNCHANGED known \/ Tell(d, i, n, done)

Work(d, kind, i) ==
  [router |-> router, device |-> d, kind |-> kind, id |-> i, step |-> kind,
   units |-> <<>>, expire |-> {}, doomed |-> 0]
Begin(w) == working' = working \cup {w}
Becomes(w, v) == working' = (working \ {w}) \cup {v}
Then(w, step) == Becomes(w, [w EXCEPT !.step = step])
Finish(w) == working' = working \ {w}

-----------------------------------------------------------------------------
(* Starting and stopping *)

(* load: every directory must be readable.  Sessions past their time are   *)
(* removed before the router is up.                                        *)
StartRouter ==
  LET found == {i \in Id : disk[i].dir} IN
  /\ router' = routers + 1 /\ routers' = routers + 1
  /\ IF \A i \in found : Readable(i)
     THEN /\ unavailable' = FALSE
          /\ sessions' = [i \in found |-> disk[i].manifest = "completed"]
          /\ reserved' = Size * Cardinality(found)
          /\ \E E \in SUBSET {i \in found : disk[i].manifest = "open"} :
               IF E = {} THEN UNCHANGED working
               ELSE Begin([Work(0, "load", 0) EXCEPT !.router = routers + 1, !.expire = E])
     ELSE /\ unavailable' = TRUE /\ sessions' = <<>> /\ reserved' = 0
          /\ UNCHANGED working
  /\ UNCHANGED <<surface, disk, given, entries, known, torn, faults>>

StopRouter ==
  /\ router' = 0 /\ sessions' = <<>> /\ reserved' = 0 /\ unavailable' = FALSE
  /\ UNCHANGED routers

-----------------------------------------------------------------------------
(* Requests: the checks they begin with *)

Asked == UNCHANGED <<memory, disk, given, entries, torn>>

(* POST /v1/uploads, which the client sends until it knows the session.    *)
(* Any open session may be past its time.                                  *)
AskCreate(d) ==
  /\ MayUpload(d) /\ Free /\ known[d].id = 0 /\ given < MaxIds
  /\ \E E \in SUBSET {i \in DOMAIN sessions : ~sessions[i]} :
       Begin([Work(d, "create", 0) EXCEPT !.expire = E])
  /\ UNCHANGED known /\ Asked

(* GET /v1/uploads/{id} *)
Ask(d) ==
  LET i == known[d].id IN
  /\ MayUpload(d) /\ Free /\ Owned(d, i) /\ Readable(i)
  /\ Tell(d, i, Offset(i), sessions[i])
  /\ UNCHANGED working /\ Asked

Units(from) == SubSeq(File, from + 1, Min({from + Chunk, Size}))

(* Mutant of MayAppend: the offset is not compared.                        *)
MayAppendAnywhere(i, from) ==
  Readable(i) /\ Offset(i) + Len(Units(from)) <= Size

MayAppend(i, from) ==
  Readable(i) /\ Offset(i) = from /\ from + Len(Units(from)) <= Size

(* PATCH /v1/uploads/{id}, also when it comes late: from any offset the    *)
(* phone has known.                                                        *)
AskPatch(d, from) ==
  LET i == known[d].id IN
  /\ MayUpload(d) /\ Free /\ Owned(d, i) /\ ~sessions[i] /\ ~disk[i].bin
  /\ from <= known[d].offset /\ from < Size /\ MayAppend(i, from)
  /\ Begin([Work(d, "patch", i) EXCEPT !.units = Units(from)])
  /\ UNCHANGED known /\ Asked

(* Mutant of Verified: only the size is compared.                          *)
VerifiedBySize(i) == Len(disk[i].data) = Size

Verified(i) == disk[i].data = File

(* POST /v1/uploads/{id}/complete *)
AskComplete(d) ==
  LET i == known[d].id IN
  /\ MayUpload(d) /\ Free /\ Owned(d, i)
  /\ IF sessions[i] THEN MayTell(d, i, Size, TRUE) /\ UNCHANGED working
     ELSE /\ disk[i].bin \/ disk[i].part
          /\ Verified(i)
          /\ Begin([Work(d, "complete", i) EXCEPT
                      !.step = IF disk[i].bin THEN "store" ELSE "link"])
          /\ UNCHANGED known
  /\ Asked

(* DELETE /v1/uploads/{id}, which the app does not use.                    *)
AskDelete(d) ==
  LET i == known[d].id IN
  /\ MayUpload(d) /\ Free /\ Owned(d, i) /\ ~sessions[i] /\ ~disk[i].bin
  /\ Begin(Work(d, "delete", i))
  /\ UNCHANGED known /\ Asked

-----------------------------------------------------------------------------
(* Requests: their steps.  Only those of the present router change what it *)
(* remembers.                                                              *)

Live(w) == w.router = router

(* Mutant of ForgetSession: the storage stays reserved.                    *)
ForgetSessionOnly(w, i) ==
  /\ sessions' = IF Live(w) THEN [j \in DOMAIN sessions \ {i} |-> sessions[j]] ELSE sessions
  /\ UNCHANGED reserved

ForgetSession(w, i) ==
  IF Live(w) /\ i \in DOMAIN sessions
  THEN /\ sessions' = [j \in DOMAIN sessions \ {i} |-> sessions[j]]
       /\ reserved' = reserved - Size
  ELSE UNCHANGED <<sessions, reserved>>

(* cleanup, one session after the other: a published one is left alone ... *)
Examine(w) ==
  /\ w.expire # {} /\ w.doomed = 0
  /\ LET i == Min(w.expire) IN
     Becomes(w, IF disk[i].bin THEN [w EXCEPT !.expire = @ \ {i}]
                ELSE [w EXCEPT !.doomed = i])
  /\ UNCHANGED <<memory, disk, given, entries, known, torn>>

(* ... and any other removed, first from the disk.                         *)
Expire(w) ==
  /\ w.doomed # 0 /\ disk[w.doomed].dir
  /\ disk' = [disk EXCEPT ![w.doomed] = NoDir]
  /\ ForgetSession(w, w.doomed)
  /\ Becomes(w, [w EXCEPT !.expire = @ \ {w.doomed}, !.doomed = 0])
  /\ UNCHANGED <<upload, given, entries, known, torn>>

Loaded(w) ==
  /\ w.step = "load" /\ w.expire = {}
  /\ Finish(w)
  /\ UNCHANGED <<memory, disk, given, entries, known, torn>>

(* The sessions a request knows of: after its gateway was stopped, that    *)
(* one's, which are on the disk.                                           *)
Sessions(w) == IF Live(w) THEN DOMAIN sessions ELSE {i \in Id : Readable(i)}

Mine(w) == {i \in Sessions(w) : disk[i].device = w.device}

(* Mutant of Full: only the number of sessions is bounded.                 *)
FullOfSessions(w) == Cardinality(Sessions(w)) >= MaxSessions

Full(w) ==
  \/ Cardinality(Sessions(w)) >= MaxSessions
  \/ (IF Live(w) THEN reserved ELSE Size * Cardinality(Sessions(w))) + Size > MaxStored

(* The same request finds its session again; else the quotas are checked.  *)
Find(w) ==
  /\ w.step = "create" /\ w.expire = {}
  /\ IF Mine(w) # {}
     THEN /\ Finish(w)
          /\ \E i \in Mine(w) :
               IF Readable(i) THEN MayTell(w.device, i, Offset(i), disk[i].manifest = "completed")
               ELSE UNCHANGED known
     ELSE /\ UNCHANGED known
          /\ IF Full(w) THEN Finish(w) ELSE Then(w, "place")
  /\ UNCHANGED <<memory, disk, given, entries, torn>>

(* The directory, the empty payload, the manifest.                         *)
MakeDir(w) ==
  /\ w.step = "place" /\ given < MaxIds /\ given' = given + 1
  /\ disk' = [disk EXCEPT ![given'] = [NoDir EXCEPT !.dir = TRUE, !.device = w.device]]
  /\ Becomes(w, [w EXCEPT !.id = given', !.step = "part"])
  /\ UNCHANGED <<memory, entries, known, torn>>

MakePart(w) ==
  /\ w.step = "part"
  /\ disk' = [disk EXCEPT ![w.id].part = TRUE]
  /\ Then(w, "manifest")
  /\ UNCHANGED <<memory, given, entries, known, torn>>

Created(w) ==
  /\ w.step = "manifest"
  /\ disk' = [disk EXCEPT ![w.id].manifest = "open"]
  /\ IF Live(w)
     THEN /\ sessions' = [i \in DOMAIN sessions \cup {w.id} |-> i # w.id /\ sessions[i]]
          /\ reserved' = reserved + Size
     ELSE UNCHANGED <<sessions, reserved>>
  /\ MayTell(w.device, w.id, 0, FALSE)
  /\ Finish(w)
  /\ UNCHANGED <<upload, given, entries, torn>>

(* A chunk is appended and synced, and the manifest touched.               *)
AppendChunk(w) ==
  /\ w.step = "patch" /\ disk[w.id].part
  /\ disk' = [disk EXCEPT ![w.id].data = @ \o w.units]
  /\ MayTell(w.device, w.id, Len(disk'[w.id].data), FALSE)
  /\ Finish(w)
  /\ UNCHANGED <<memory, given, entries, torn>>

(* complete: the payload is linked to its final name, the entry is stored  *)
(* under the session's id, and the manifest says so.                       *)
Link(w) ==
  /\ w.step = "link" /\ disk[w.id].part
  /\ disk' = [disk EXCEPT ![w.id].bin = TRUE]
  /\ Then(w, "store")
  /\ UNCHANGED <<memory, given, entries, known, torn>>

StoreEntry(w) ==
  /\ w.step = "store"
  /\ entries' = entries \cup {w.id}
  /\ Then(w, "completed")
  /\ UNCHANGED <<memory, disk, given, known, torn>>

(* Mutant of Completed: the manifest is left as it was.                    *)
CompletedInMemory(w) ==
  /\ w.step = "completed" /\ disk[w.id].dir
  /\ sessions' = IF Live(w) THEN [sessions EXCEPT ![w.id] = TRUE] ELSE sessions
  /\ disk' = [disk EXCEPT ![w.id].part = FALSE]
  /\ MayTell(w.device, w.id, Size, TRUE)
  /\ Finish(w)
  /\ UNCHANGED <<upload, reserved, given, entries, torn>>

Completed(w) ==
  /\ w.step = "completed" /\ disk[w.id].dir
  /\ sessions' = IF Live(w) THEN [sessions EXCEPT ![w.id] = TRUE] ELSE sessions
  /\ disk' = [disk EXCEPT ![w.id].manifest = "completed", ![w.id].part = FALSE]
  /\ MayTell(w.device, w.id, Size, TRUE)
  /\ Finish(w)
  /\ UNCHANGED <<upload, reserved, given, entries, torn>>

Remove(w) ==
  /\ w.step = "delete"
  /\ disk' = [disk EXCEPT ![w.id] = NoDir]
  /\ ForgetSession(w, w.id) /\ Finish(w)
  /\ UNCHANGED <<upload, given, entries, known, torn>>

UploadStep(w) ==
  \/ Examine(w) \/ Expire(w) \/ Loaded(w)
  \/ Find(w) \/ MakeDir(w) \/ MakePart(w) \/ Created(w) \/ AppendChunk(w)
  \/ Link(w) \/ StoreEntry(w) \/ Completed(w) \/ Remove(w)

-----------------------------------------------------------------------------
(* Faults *)

Making(w) == w.step \in {"part", "manifest"}
Removing(w) == w.doomed # 0 \/ w.step = "delete"
Target(w) == IF w.doomed # 0 THEN w.doomed ELSE w.id

(* Mutant of Residue: the manifest is written in place.                    *)
ResidueInPlace(w) ==
  LET r == disk[Target(w)] IN
  IF w.step \in {"patch", "completed"} THEN {r, [r EXCEPT !.manifest = "none"]} ELSE {r}

(* What may be on the disk when a request is broken off.  A manifest is    *)
(* written next to the last and renamed over it.                           *)
Residue(w) ==
  LET r == disk[Target(w)] IN
  IF Removing(w)
  THEN {[r EXCEPT !.part = p, !.manifest = m] : p \in {FALSE, r.part}, m \in {"none", r.manifest}}
  ELSE IF w.step = "patch"
  THEN {[r EXCEPT !.data = @ \o SubSeq(w.units, 1, n)] : n \in 0 .. Len(w.units)}
  ELSE {r}

Tears(w) == IF Making(w) \/ Removing(w) THEN {Target(w)} ELSE {}

(* An effect on the disk fails: the request ends without one.  The files   *)
(* it works on may also be gone.  A load that fails leaves the router      *)
(* unavailable, a create tries to take its directory back.                 *)
Fail(w) ==
  /\ IF Target(w) # 0 /\ ~Making(w) /\ ~disk[Target(w)].dir THEN UNCHANGED faults
     ELSE faults < MaxFaults /\ faults' = faults + 1
  /\ IF Target(w) = 0 THEN UNCHANGED <<disk, torn>>
     ELSE \E r \in Residue(w) \cup (IF Making(w) THEN {NoDir} ELSE {}) :
            /\ disk' = [disk EXCEPT ![Target(w)] = r]
            /\ torn' = IF r = NoDir THEN torn ELSE torn \cup Tears(w)
  /\ IF w.kind = "load" /\ Live(w)
     THEN unavailable' = TRUE /\ sessions' = <<>> /\ reserved' = 0
     ELSE UNCHANGED <<unavailable, sessions, reserved>>
  /\ Finish(w)
  /\ UNCHANGED <<router, routers, given, entries, known>>

(* The phone reads other bytes than it announced.                          *)
ReadOther(w) ==
  /\ w.kind = "patch" /\ \A n \in DOMAIN w.units : w.units[n] # 0
  /\ faults < MaxFaults /\ faults' = faults + 1
  /\ Becomes(w, [w EXCEPT !.units = [n \in DOMAIN w.units |-> 0]])
  /\ UNCHANGED <<memory, disk, given, entries, known, torn>>

(* The process stops: what was at work is broken off.                      *)
Crash ==
  /\ router # 0 \/ working # {}
  /\ faults < MaxFaults /\ faults' = faults + 1
  /\ \E left \in [working -> UNION {{disk[i]} : i \in Id} \cup UNION {Residue(w) : w \in {v \in working : Target(v) # 0}}] :
       /\ \A w \in working : Target(w) # 0 => left[w] \in Residue(w)
       /\ disk' = [i \in Id |->
            IF \E w \in working : Target(w) = i
            THEN left[CHOOSE w \in working : Target(w) = i] ELSE disk[i]]
  /\ torn' = torn \cup UNION {Tears(w) : w \in working}
  /\ working' = {} /\ StopRouter
  /\ UNCHANGED <<surface, given, entries, known>>

-----------------------------------------------------------------------------

Init == PairingInit /\ UploadInit

NoUpload == UNCHANGED uploadVars
NoPairing == UNCHANGED pairingVars

(* POST /v1/mobile/pairing starts a gateway where there is none, with an   *)
(* upload router of its own; requests of the last one may be at work.      *)
Pairing ==
  /\ surface = "paired"
  /\ \/ PairingStep /\ NoUpload
     \/ /\ ShowTicket
        /\ IF running THEN NoUpload
           ELSE (Overlap \/ working = {}) /\ StartRouter
     \/ /\ Forget /\ StopRouter
        /\ UNCHANGED <<surface, disk, given, entries, working, known, torn, faults>>

StartConfigured ==
  /\ surface = "configured" /\ router = 0
  /\ StartRouter /\ NoPairing

Requests ==
  /\ \E d \in Device :
       \/ AskCreate(d) \/ Ask(d) \/ AskComplete(d) \/ AskDelete(d)
       \/ \E from \in 0 .. Size : AskPatch(d, from)
  /\ NoPairing /\ UNCHANGED <<surface, faults>>

Steps ==
  /\ \E w \in working :
       \/ UploadStep(w) /\ UNCHANGED faults
       \/ Fail(w) \/ ReadOther(w)
  /\ NoPairing /\ UNCHANGED surface

Crashes ==
  /\ Crash
  /\ IF running THEN Forget ELSE NoPairing

Next == Pairing \/ StartConfigured \/ Requests \/ Steps \/ Crashes

Spec == Init /\ [][Next]_vars

-----------------------------------------------------------------------------
(* Properties *)

Directory ==
  [dir : BOOLEAN, data : Seq(0 .. Size), part : BOOLEAN, bin : BOOLEAN,
   manifest : {"none", "open", "completed"}, device : Device \cup {0}]
Working ==
  [router : 1 .. routers, device : Device \cup {0}, id : Id \cup {0},
   kind : {"load", "create", "patch", "complete", "delete"},
   step : {"load", "create", "place", "part", "manifest", "patch", "link", "store",
           "completed", "delete"},
   units : Seq(0 .. Size), expire : SUBSET Id, doomed : Id \cup {0}]

(* Every variable has its type; requests with a lock hold it alone.        *)
TypeOK ==
  /\ PairingTypeOK
  /\ surface \in Surfaces /\ routers \in Nat /\ router \in {0, routers}
  /\ unavailable \in BOOLEAN /\ reserved \in Nat
  /\ DOMAIN sessions \subseteq Id /\ \A i \in DOMAIN sessions : sessions[i] \in BOOLEAN
  /\ disk \in [Id -> Directory] /\ given \in 0 .. MaxIds
  /\ entries \subseteq Id /\ torn \subseteq Id
  /\ working \subseteq Working
  /\ \A w, v \in working :
       w.router = v.router => w = v
  /\ known \in [Device -> [id : Id \cup {0}, offset : 0 .. Size, done : BOOLEAN]]
  /\ faults \in 0 .. MaxFaults

(* Whatever was repeated, came late or was broken off: every byte is in    *)
(* its place, what is published is the file that was announced, an entry   *)
(* has its file, and one request publishes one file.                       *)
UploadsAreWhole ==
  /\ \A i \in Id : \A n \in 1 .. Offset(i) : disk[i].data[n] \in {0, n}
  /\ \A i \in Id : disk[i].bin => disk[i].data = File
  /\ \A i \in entries : disk[i].bin
  /\ \A i, j \in Id : disk[i].bin /\ disk[j].bin /\ disk[i].device = disk[j].device => i = j

(* A phone was told the truth, and it stays true across restarts: bytes    *)
(* acknowledged are there while the upload exists, and an upload that was  *)
(* reported complete is recorded as such and in the store.                 *)
ToldIsTrue ==
  \A d \in Device :
    LET k == known[d] IN
    /\ k.id # 0 /\ disk[k.id].dir => k.offset <= Offset(k.id)
    /\ k.done => k.id \in entries /\ disk[k.id].manifest = "completed"

(* Between requests the router remembers every session that can be read    *)
(* from the disk, has reserved just their storage, and keeps the quotas.   *)
QuotaIsExact ==
  router # 0 /\ ~unavailable /\ (\A w \in working : ~Live(w)) =>
    /\ {i \in Id : Readable(i)} \subseteq DOMAIN sessions
    /\ reserved = Size * Cardinality(DOMAIN sessions)
    /\ reserved <= MaxStored /\ Cardinality(DOMAIN sessions) <= MaxSessions

(* Only a directory whose creation or removal was broken off makes the     *)
(* next start fail: no upload in progress, published or complete does.     *)
OnlyTornIsUnreadable ==
  \A i \in Id :
    disk[i].dir /\ ~Readable(i) =>
      i \in torn \/ \E w \in working : Making(w) /\ w.id = i

(* "A published file may be awaiting redb/manifest recovery.  Never expire *)
(* it": a published file stays.                                            *)
PublishedIsKept == [][\A i \in Id : disk[i].bin => disk'[i].bin]_vars

=============================================================================
