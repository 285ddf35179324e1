--------------------------- MODULE DesktopSettings ---------------------------
(***************************************************************************)
(* The settings endpoint: pages read the configuration file with a         *)
(* revision and save changes to single fields against it, under a lock.    *)
(* The old settings page, the tray and other programs write the same file  *)
(* without the lock, the first two then give the engine the folder they    *)
(* have written, and the service restarts.                                 *)
(***************************************************************************)
EXTENDS Naturals

CONSTANTS
  Page, Value,
  NoOne,      \* nobody has the lock
  NoFile,     \* config.toml is not there
  Default,    \* the folder that is used when the file names none
  MaxWrites,  \* bound: writes without the lock
  MaxRestarts \* bound: restarts and crashes

Field == {"dir", "name"} \* the download folder, and what is read at startup only

VARIABLES
  file,       \* config.toml: a function of the fields, or NoFile
  startup,    \* the configuration the process started with
  folder,     \* the download folder the engine uses
  applying,   \* the folders that writers without the lock have saved and have
              \* yet to give to the engine, each with the number of its write
  lock,       \* the page whose request holds the lock of the process
  page,       \* Page -> its request, with the revision it was read at
  generation, \* of the process: its salt makes older revisions invalid
  leaving,    \* a restart was accepted and the process is about to exit
  meant, by,  \* history: each field's last accepted value, and who set it
  writes      \* bound: writes without the lock

settingsVars ==
  <<file, startup, folder, applying, lock, page, generation, leaving, meant, by, writes>>

process == <<startup, applying, generation, leaving>>

history == <<meant, by>>

(* SettingsContext::read: without a file, the startup configuration.       *)
Document == IF file = NoFile THEN startup ELSE file

Revision == [salt |-> generation, exists |-> file # NoFile, bytes |-> Document]

Unread == [salt |-> 0, exists |-> FALSE, bytes |-> NoFile]

Closed(revision) ==
  [at |-> "closed", revision |-> revision, field |-> "dir", value |-> NoOne,
   original |-> Unread]

SettingsInit ==
  /\ \E v \in Value : startup = [f \in Field |-> v]
  /\ file \in {NoFile, startup}
  /\ folder = startup["dir"] /\ applying = {}
  /\ lock = NoOne
  /\ page = [p \in Page |-> Closed(Unread)]
  /\ generation = 1 /\ leaving = FALSE
  /\ meant = startup /\ by = [f \in Field |-> "service"]
  /\ writes = 0

PageAt(p, step) == page[p].at = step

Sees(p, revision) == page' = [page EXCEPT ![p] = Closed(revision)]

(* get_settings *)
Get(p) ==
  /\ PageAt(p, "closed") /\ lock = NoOne
  /\ Sees(p, Revision)
  /\ UNCHANGED <<file, folder, lock, process, history, writes>>

(* The page sends a save of one change.                                    *)
Edit(p, f, v) ==
  /\ PageAt(p, "closed") /\ page[p].revision # Unread
  /\ page' = [page EXCEPT ![p].at = "sent", ![p].field = f, ![p].value = v]
  /\ UNCHANGED <<file, folder, lock, process, history, writes>>

(* Refused: the page keeps the revision it has.                            *)
Refused(p) ==
  /\ lock' = NoOne /\ Sees(p, page[p].revision)
  /\ UNCHANGED <<file, folder, process, history, writes>>

(* Mutant of MayEnter: the lock is not waited for.                         *)
MayEnterAnyway == TRUE

MayEnter == lock = NoOne

(* save: the lock is taken, within 5 s, and the revision compared.         *)
Enter(p) ==
  /\ PageAt(p, "sent")
  /\ \/ MayEnter /\ page[p].revision = Revision
        /\ lock' = p
        /\ page' = [page EXCEPT ![p].at = "saving", ![p].original = Revision]
        /\ UNCHANGED <<file, folder, process, history, writes>>
     \/ MayEnter /\ page[p].revision # Revision /\ Refused(p)
     \/ lock # NoOne /\ Sees(p, page[p].revision)
        /\ UNCHANGED <<file, folder, lock, process, history, writes>>

Patched(p) == [page[p].original.bytes EXCEPT ![page[p].field] = page[p].value]

Unchanged(p) == page[p].original.exists /\ Patched(p) = page[p].original.bytes

MayCommit(p) == Revision = page[p].original

(* atomic_save: the temporary file is written, then the file compared with *)
(* the one that was read; a save that changes nothing compares it as well. *)
Compare(p) ==
  /\ PageAt(p, "saving")
  /\ \/ ~MayCommit(p) /\ Refused(p)
     \/ /\ MayCommit(p)
        /\ page' = [page EXCEPT ![p].at = IF Unchanged(p) THEN "saved" ELSE "renaming"]
        /\ UNCHANGED <<file, folder, lock, process, history, writes>>

(* atomic_save: rename; its failure, or an earlier one, loses nothing.     *)
Rename(p) ==
  \/ /\ PageAt(p, "renaming")
     /\ file' = Patched(p)
     /\ page' = [page EXCEPT ![p].at = "saved"]
     /\ meant' = [meant EXCEPT ![page[p].field] = page[p].value]
     /\ by' = [by EXCEPT ![page[p].field] = "saving"]
     /\ UNCHANGED <<folder, lock, process, writes>>
  \/ page[p].at \in {"saving", "renaming"} /\ Refused(p)

(* Mutant of Applies: of a save that changes nothing, nothing is applied.  *)
AppliesChanges(p) == page[p].field = "dir" /\ ~Unchanged(p)

Applies(p) == page[p].field = "dir"

(* set_download_dir and clear_download_dir: the engine goes back to the    *)
(* folder it was started with when none is named.                          *)
Applied(v) == IF v = Default THEN startup["dir"] ELSE v

(* What the engine has yet to be given by the saves that are under way.    *)
Unapplied ==
  {Applied(a.dir) : a \in applying}
    \cup {page[p].value : p \in {q \in Page : PageAt(q, "saved") /\ page[q].field = "dir"}}

(* None of it is another folder than the one the file names.               *)
Settled == Unapplied \subseteq {Document["dir"]}

(* save: apply_download_dir, and the answer.                               *)
Answer(p) ==
  /\ PageAt(p, "saved")
  /\ folder' = IF Applies(p) THEN page[p].value ELSE folder
  /\ by' = [by EXCEPT ![page[p].field] =
              IF Settled /\ Document[page[p].field] = page[p].value THEN "service" ELSE @]
  /\ lock' = NoOne
  /\ Sees(p, [salt |-> generation, exists |-> TRUE, bytes |-> Patched(p)])
  /\ UNCHANGED <<file, process, meant, writes>>

(* action_restart: the next process is started, and this one will exit.    *)
Leaves == leaving' = TRUE

(* restart, of a page that has seen what is saved.                         *)
Restart(p) ==
  /\ PageAt(p, "closed") /\ lock = NoOne /\ ~leaving
  /\ file # NoFile /\ page[p].revision = Revision
  /\ Leaves
  /\ UNCHANGED <<file, folder, lock, page, startup, applying, generation, history, writes>>

(* 400 ms after a restart was accepted, or in a crash, the process goes;   *)
(* the next one waits for that and reads the file.                         *)
Start ==
  /\ leaving \/ generation = 1
  /\ generation <= MaxRestarts /\ generation' = generation + 1
  /\ leaving' = FALSE /\ lock' = NoOne
  /\ startup' = Document
  /\ file' = Document
  /\ folder' = Document["dir"] /\ applying' = {}
  /\ page' = [p \in Page |-> Closed(page[p].revision)]
  /\ meant' = Document /\ by' = [f \in Field |-> "service"]
  /\ UNCHANGED writes

(* Config::save, without the lock. While it writes, a read of the file     *)
(* fails, as a save may at any step. What it writes between the last       *)
(* comparison of a page's save and its rename is lost, as                  *)
(* docs/local-settings-plan-2026-10-28.md says, and left out here.         *)
Writes(configuration, fields) ==
  /\ writes < MaxWrites /\ writes' = writes + 1
  /\ \A p \in Page : ~PageAt(p, "renaming")
  /\ file' = configuration /\ meant' = configuration
  /\ by' = [f \in Field |-> IF f \in fields THEN "other" ELSE by[f]]

(* Another program, the command line for one, changes a field in the file. *)
OtherWrites(f, v) ==
  /\ Writes([Document EXCEPT ![f] = v], {f})
  /\ UNCHANGED <<folder, lock, page, process>>

(* put_config, of the old settings page: whatever configuration it has, of *)
(* now or of before, is saved as a whole.                                  *)
PutConfig(configuration) ==
  /\ Writes(configuration, Field)
  /\ applying' = applying \cup {[write |-> writes', dir |-> configuration["dir"]]}
  /\ UNCHANGED <<folder, lock, page, startup, generation, leaving>>

(* SetDownloadDir, of the tray: the configuration the process started with,*)
(* with another folder.                                                    *)
SetDownloadDir(v) == v # Default /\ PutConfig([startup EXCEPT !["dir"] = v])

(* put_config, SetDownloadDir: the engine is given the folder, and the save*)
(* is answered.                                                            *)
ApplyFolder(a) ==
  /\ folder' = Applied(a.dir)
  /\ applying' = applying \ {a}
  /\ by' = [by EXCEPT !["dir"] = IF Settled THEN "service" ELSE @]
  /\ UNCHANGED <<file, lock, page, startup, generation, leaving, meant, writes>>

SettingsNext ==
  \/ \E p \in Page : Get(p) \/ Enter(p) \/ Compare(p) \/ Rename(p) \/ Answer(p) \/ Restart(p)
  \/ \E p \in Page, f \in Field, v \in Value : Edit(p, f, v)
  \/ \E f \in Field, v \in Value : OtherWrites(f, v)
  \/ \E configuration \in [Field -> Value] : PutConfig(configuration)
  \/ \E v \in Value : SetDownloadDir(v)
  \/ \E a \in applying : ApplyFolder(a)
  \/ Start

SettingsSpec == SettingsInit /\ [][SettingsNext]_settingsVars

-----------------------------------------------------------------------------
(* No accepted change is undone by a save of a page that had not seen it,  *)
(* nor by a crash in the middle of one.                                    *)
AcceptedChangesStay == Document = meant

(* The engine uses the folder the file names once the save that put it     *)
(* there is answered, until it is written again: of a page, of the old     *)
(* settings page or of the tray, and also when another program had written *)
(* it already. This is so if no save without the lock that was under way   *)
(* at the answer had another folder for the engine; one that had crosses   *)
(* it, and leaves the engine and the file with a folder each.              *)
FolderFollowsFile == by["dir"] = "service" => folder = Document["dir"]

=============================================================================
