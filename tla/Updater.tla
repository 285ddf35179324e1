------------------------------ MODULE Updater ------------------------------
(***************************************************************************)
(* The program replaces itself: it starts a copy of itself as a helper,    *)
(* exits, and the helper swaps the executable, starts the new version and  *)
(* either sees it healthy or puts the old one back. Files, processes and   *)
(* the helper may fail at each step.                                       *)
(***************************************************************************)
EXTENDS Naturals

CONSTANTS
  MaxUpdates, \* bound: updates the user begins
  WaitFails   \* whether the system may fail to tell if the new process runs

VARIABLES
  target,   \* what the path of the program holds: "old", "part", "new", "none"
  backup,   \* whether the old program lies beside it
  download, \* the staged download: "none", "staged", or "left" by an update whose
            \* helper was not started; another one has another name
  old, new, \* the processes of the two versions
  closed,   \* the maintenance gate of the old process
  helper,   \* the step the helper is at
  status,   \* status.json
  updates   \* bound: updates begun

updateVars == <<target, backup, download, old, new, closed, helper, status, updates>>

files == <<target, backup>>

UpdateInit ==
  /\ target = "old" /\ backup = FALSE /\ download = "none"
  /\ old = "running" /\ new = "none"
  /\ closed = FALSE /\ helper = "none" /\ status = "none"
  /\ updates = 0

Idle == helper \in {"none", "done"}

(* check, stage: what stays of a download is a newer release as it was     *)
(* signed, whole; a download that fails leaves nothing.                    *)
Staged == download' = "staged"

(* update_application: the user agrees to the release that was found.      *)
Stage ==
  /\ old = "running" /\ Idle /\ ~closed /\ download # "staged"
  /\ updates < MaxUpdates
  /\ updates' = updates + 1 /\ Staged
  /\ UNCHANGED <<target, backup, old, new, closed, helper, status>>

(* try_quiesce; what is under way in the old process refuses the update.   *)
Quiesce(alone) ==
  /\ old = "running" /\ Idle /\ download = "staged" /\ ~closed
  /\ closed' = alone /\ download' = IF alone THEN download ELSE "none"
  /\ UNCHANGED <<target, backup, old, new, helper, status, updates>>

(* launch: the copy is made and verified and the helper spawned, or one of *)
(* that fails, which leaves the download where it is.                      *)
Launch ==
  /\ old = "running" /\ Idle /\ closed
  /\ \/ helper' = "starting" /\ status' = "none" /\ UNCHANGED <<closed, download>>
     \/ closed' = FALSE /\ download' = "left" /\ UNCHANGED <<helper, status>>
  /\ UNCHANGED <<target, backup, old, new, updates>>

(* apply_plan, up to the ready file or a bail.                             *)
HelperStarts ==
  /\ helper = "starting" /\ helper' \in {"waiting", "refused"}
  /\ UNCHANGED <<target, backup, download, old, new, closed, status, updates>>

(* launch: the helper is ready and the program exits, or the helper exited *)
(* or is killed after 2 s, and the program goes on.                        *)
Launched ==
  /\ old = "running"
  /\ \/ helper = "waiting"
        /\ old' = "leaving" /\ download' = "none" /\ UNCHANGED <<closed, helper>>
     \/ helper \in {"starting", "refused"}
        /\ closed' = FALSE /\ helper' = "none" /\ download' = "left" /\ UNCHANGED old
  /\ UNCHANGED <<target, backup, new, status, updates>>

OldExits ==
  /\ old = "leaving" /\ old' = "gone" /\ closed' = FALSE
  /\ UNCHANGED <<target, backup, download, new, helper, status, updates>>

Ends(s) == helper' = "done" /\ status' = s

(* wait_exit: for 60 s.                                                    *)
WaitExit ==
  /\ helper = "waiting"
  /\ \/ old = "gone" /\ helper' = "swapping" /\ UNCHANGED status
     \/ old = "leaving" /\ Ends("failed")
  /\ UNCHANGED <<target, backup, download, old, new, closed, updates>>

(* swap_in, after the hash is checked again.                               *)
SwapIn ==
  /\ helper = "swapping"
  /\ \/ target' = "none" /\ backup' = TRUE /\ helper' = "copying"
     \/ helper' = "restarting" /\ UNCHANGED files
  /\ UNCHANGED <<download, old, new, closed, status, updates>>

(* start_old, where nothing was changed.                                   *)
RestartUnchanged ==
  /\ helper = "restarting"
  /\ \/ old' = "running" /\ Ends("unchanged_restarted")
     \/ Ends("failed") /\ UNCHANGED old
  /\ UNCHANGED <<target, backup, download, new, closed, updates>>

(* install_and_verify: copy.                                               *)
CopyBegins ==
  /\ helper = "copying" /\ target = "none" /\ target' = "part"
  /\ UNCHANGED <<backup, download, old, new, closed, helper, status, updates>>

(* Mutant of CopyEnds: the backup is removed as soon as the copy is there. *)
CopyEndsAlone ==
  /\ helper = "copying" /\ target = "part"
  /\ target' = "new" /\ backup' = FALSE /\ helper' = "spawning"
  /\ UNCHANGED <<download, old, new, closed, status, updates>>

CopyEnds ==
  /\ helper = "copying" /\ target = "part"
  /\ \/ target' = "new" /\ helper' = "spawning"
     \/ helper' = "removing" /\ UNCHANGED target
  /\ UNCHANGED <<backup, download, old, new, closed, status, updates>>

(* spawn_new                                                               *)
SpawnNew ==
  /\ helper = "spawning"
  /\ \/ new' = "started" /\ helper' = "checking"
     \/ helper' = "removing" /\ UNCHANGED new
  /\ UNCHANGED <<target, backup, download, old, closed, status, updates>>

NewServes ==
  /\ new = "started" /\ new' = "serving"
  /\ UNCHANGED <<target, backup, download, old, closed, helper, status, updates>>

NewExits ==
  /\ new \in {"started", "serving"} /\ new' = "gone"
  /\ UNCHANGED <<target, backup, download, old, closed, helper, status, updates>>

(* install_and_verify: the new process has exited, or answered with its    *)
(* version, or is killed after 15 s. An error of try_wait ends the check   *)
(* with the process running.                                               *)
CheckHealth ==
  /\ helper = "checking"
  /\ \/ new = "gone" /\ helper' = "removing" /\ UNCHANGED <<new, status>>
     \/ new = "serving" /\ Ends("ok") /\ UNCHANGED new
     \/ new # "gone" /\ new' = "gone" /\ helper' = "removing" /\ UNCHANGED status
     \/ WaitFails /\ helper' = "removing" /\ UNCHANGED <<new, status>>
  /\ UNCHANGED <<target, backup, download, old, closed, updates>>

(* rollback: remove_file, then rename                                      *)
RemoveNew ==
  /\ helper = "removing"
  /\ \/ target' = "none" /\ helper' = "restoring" /\ UNCHANGED status
     \/ target # "none" /\ Ends("rollback_error") /\ UNCHANGED target
  /\ UNCHANGED <<backup, download, old, new, closed, updates>>

Restore ==
  /\ helper = "restoring"
  /\ \/ target' = "old" /\ backup' = FALSE /\ helper' = "reviving" /\ UNCHANGED status
     \/ Ends("rollback_error") /\ UNCHANGED files
  /\ UNCHANGED <<download, old, new, closed, updates>>

(* start_old, where the old program was put back.                          *)
RestartRestored ==
  /\ helper = "reviving"
  /\ \/ old' = "running" /\ Ends("rolled_back")
     \/ Ends("restored_but_restart_failed") /\ UNCHANGED old
  /\ UNCHANGED <<target, backup, download, new, closed, updates>>

(* The helper is stopped.                                                  *)
Crash ==
  /\ helper \notin {"none", "starting", "refused", "done", "crashed"} /\ old # "running"
  /\ helper' = "crashed"
  /\ UNCHANGED <<target, backup, download, old, new, closed, status, updates>>

UpdateNext ==
  \/ Stage \/ Launch \/ HelperStarts \/ Launched \/ OldExits
  \/ \E alone \in BOOLEAN : Quiesce(alone)
  \/ WaitExit \/ SwapIn \/ RestartUnchanged
  \/ CopyBegins \/ CopyEnds \/ SpawnNew \/ NewServes \/ NewExits \/ CheckHealth
  \/ RemoveNew \/ Restore \/ RestartRestored \/ Crash

UpdateSpec == UpdateInit /\ [][UpdateNext]_updateVars

-----------------------------------------------------------------------------
Up(p) == p \in {"running", "leaving", "started", "serving"}

OneVersionRuns == ~(Up(old) /\ Up(new))

(* The two versions never run at the same time: they open the same store   *)
(* and the same port. Wherever the helper fails or is stopped, a whole     *)
(* program is on the disk, and the old one goes only when the new one has  *)
(* served. An update that did not succeed leaves the old program in its    *)
(* place, running and with its gate open, unless the files or the start of *)
(* it failed, which status tells.                                          *)
ProgramIsKept ==
  /\ OneVersionRuns
  /\ target = "old" \/ backup
  /\ status = "ok" => target = "new" /\ new \in {"serving", "gone"}
  /\ status \in {"unchanged_restarted", "rolled_back"} =>
       target = "old" /\ (Idle => old = "running")
  /\ status \in {"failed", "restored_but_restart_failed"} => target = "old"
  /\ Idle /\ old = "running" /\ closed => download = "staged"

=============================================================================
