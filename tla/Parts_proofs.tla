---------------------------- MODULE Parts_proofs ----------------------------
(***************************************************************************)
(* Proofs about the parts that stand alone: what they keep to, for any     *)
(* number of files, requests, pieces, changes and starts.                  *)
(***************************************************************************)
EXTENDS FileDownload, BlobCache, Updater, PauseBarrier, DesktopSettings, VaultHistory,
        WellFoundedInduction, TLAPS

-----------------------------------------------------------------------------
(* The maintenance pause (PauseBarrier) *)

(* Every step keeps the types of the controller, the runner and the owners.*)
LEMMA PauseTypeInductive == TypeOK /\ Turn /\ [BarrierNext]_barrierVars => TypeOK'
<1> SUFFICES ASSUME TypeOK, Turn, [BarrierNext]_barrierVars PROVE TypeOK'
  OBVIOUS
<1> USE DEF TypeOK
<1>1. CASE Run BY <1>1 DEF Run
<1>2. CASE EnterOperation BY <1>2 DEF EnterOperation
<1>3. CASE Leave BY <1>3 DEF Leave, Turn
<1>4. CASE Stop BY <1>4 DEF Stop
<1>5. ASSUME NEW o \in Owner, PauseRunner(o) PROVE TypeOK' BY <1>5 DEF PauseRunner
<1>6. ASSUME NEW o \in Owner, Wake(o) PROVE TypeOK' BY <1>6 DEF Wake
<1>7. ASSUME NEW o \in Owner, Reconcile(o) PROVE TypeOK' BY <1>7 DEF Reconcile
<1>8. ASSUME NEW o \in Owner, ResumeRunner(o) PROVE TypeOK' BY <1>8 DEF ResumeRunner
<1>9. ASSUME NEW o \in Owner, DropLease(o) PROVE TypeOK' BY <1>9 DEF DropLease
<1>10. CASE UNCHANGED barrierVars BY <1>10 DEF barrierVars
<1>11. QED
  BY <1>1, <1>2, <1>3, <1>4, <1>5, <1>6, <1>7, <1>8, <1>9, <1>10 DEF BarrierNext

(* A recovery finds nobody at work: with the pause it recovers from over,  *)
(* no owner waits, holds or has just resumed.                              *)
LEMMA RecoveryIsAlone ==
  ASSUME ~RecoversEarly, TypeOK, Turn, NEW o \in Owner, Reconcile(o)
  PROVE  \A p \in Owner : owner[p] = "away"
<1>1. lease = FALSE
  BY DEF Reconcile, MayReconcile, TypeOK
<1>2. \A p \in Owner : owner[p] \notin {"holding", "resumed"}
  BY <1>1 DEF Turn
<1>3. \A p \in Owner : owner[p] # "waiting"
  BY DEF Reconcile
<1>4. QED
  BY <1>2, <1>3 DEF TypeOK

(* A pause that begins finds nobody at work either: the runner is not      *)
(* paused and no lease is left.                                            *)
LEMMA PauseIsAlone ==
  ASSUME TypeOK, Turn, NEW o \in Owner, PauseRunner(o)
  PROVE  \A p \in Owner : owner[p] = "away"
<1>1. lease = FALSE /\ paused = FALSE
  BY DEF PauseRunner, TypeOK
<1>2. QED
  BY <1>1 DEF Turn, TypeOK

(* Every step keeps the owners' turn.                                      *)
LEMMA TurnInductive == ~RecoversEarly /\ TypeOK /\ Turn /\ [BarrierNext]_barrierVars => Turn'
<1> SUFFICES ASSUME ~RecoversEarly, TypeOK, Turn, [BarrierNext]_barrierVars PROVE Turn'
  OBVIOUS
<1>1. CASE Run BY <1>1 DEF Run, Turn
<1>2. CASE EnterOperation BY <1>2 DEF EnterOperation, Turn, TypeOK
<1>3. CASE Leave BY <1>3 DEF Leave, Turn
<1>4. CASE Stop BY <1>4 DEF Stop, Turn
<1>5. ASSUME NEW o \in Owner, PauseRunner(o) PROVE Turn'
  <2>1. \A p \in Owner : owner[p] = "away"
    BY <1>5, PauseIsAlone
  <2>2. CASE active > 0
    BY <1>5, <2>1, <2>2 DEF PauseRunner, Turn, TypeOK
  <2>3. CASE ~(active > 0)
    BY <1>5, <2>1, <2>3 DEF PauseRunner, Turn, TypeOK
  <2>4. QED
    BY <2>2, <2>3
<1>6. ASSUME NEW o \in Owner, Wake(o) PROVE Turn'
  <2>1. \A p \in Owner : p # o => owner[p] = "away"
    BY <1>6 DEF Wake, Turn
  <2>2. paused
    BY <1>6 DEF Wake, Turn
  <2>3. CASE active = 0
    BY <1>6, <2>1, <2>2, <2>3 DEF Wake, Turn, TypeOK
  <2>4. CASE active # 0
    BY <1>6, <2>1, <2>4 DEF Wake, Turn, TypeOK
  <2>5. QED
    BY <2>3, <2>4
<1>7. ASSUME NEW o \in Owner, Reconcile(o) PROVE Turn'
  BY <1>7, RecoveryIsAlone DEF Reconcile, MayReconcile, Turn, TypeOK
<1>8. ASSUME NEW o \in Owner, ResumeRunner(o) PROVE Turn'
  BY <1>8 DEF ResumeRunner, Turn, TypeOK
<1>9. ASSUME NEW o \in Owner, DropLease(o) PROVE Turn'
  <2>1. \A p \in Owner : p # o => owner[p] = "away"
    BY <1>9 DEF DropLease, Turn
  <2>2. QED
    BY <1>9, <2>1 DEF DropLease, Turn, TypeOK
<1>10. CASE UNCHANGED barrierVars BY <1>10 DEF barrierVars, Turn
<1>11. QED
  BY <1>1, <1>2, <1>3, <1>4, <1>5, <1>6, <1>7, <1>8, <1>9, <1>10 DEF BarrierNext

(* A lease is held by one owner, with the runner paused and no backend     *)
(* call under way, whatever times out, is lost or is half resumed.         *)
THEOREM LeaseIsAlwaysQuiet == ~RecoversEarly /\ BarrierSpec => []LeaseIsQuiet
<1> SUFFICES ASSUME ~RecoversEarly PROVE BarrierSpec => []LeaseIsQuiet
  OBVIOUS
<1>1. BarrierInit => TypeOK /\ Turn
  <2> SUFFICES ASSUME BarrierInit PROVE TypeOK /\ Turn
    OBVIOUS
  <2>1. TypeOK
    BY DEF BarrierInit, TypeOK
  <2>2. \A o \in Owner : owner[o] = "away"
    BY DEF BarrierInit
  <2>3. Turn
    BY <2>2 DEF BarrierInit, Turn
  <2>4. QED
    BY <2>1, <2>3
<1>2. TypeOK /\ Turn /\ [BarrierNext]_barrierVars => TypeOK' /\ Turn'
  BY PauseTypeInductive, TurnInductive
<1>3. TypeOK /\ Turn => LeaseIsQuiet
  BY DEF TypeOK, Turn, LeaseIsQuiet
<1>4. QED
  BY <1>1, <1>2, <1>3, PTL DEF BarrierSpec

-----------------------------------------------------------------------------
(* The updater (Updater) *)

(* While the old program runs nothing has been touched.                    *)
Untouched == target = "old" /\ ~backup /\ ~Up(new)

(* The files and the processes at each step of the helper.                 *)
Stages ==
  /\ old = "running" => Untouched /\ helper \in {"none", "starting", "refused", "waiting", "done"}
  /\ old = "leaving" => Untouched /\ helper \in {"waiting", "done", "crashed"}
  /\ old = "gone" => ~closed
  /\ helper \in {"none", "starting", "refused"} => old = "running"
  /\ helper = "waiting" => Untouched
  /\ helper \in {"swapping", "restarting", "reviving"} => old = "gone" /\ Untouched
  /\ helper = "copying" => old = "gone" /\ target \in {"none", "part"} /\ backup /\ ~Up(new)
  /\ helper = "spawning" => old = "gone" /\ target = "new" /\ backup /\ ~Up(new)
  /\ helper = "checking" =>
       old = "gone" /\ target = "new" /\ backup /\ new \in {"started", "serving", "gone"}
  /\ helper = "removing" =>
       old = "gone" /\ target \in {"part", "new"} /\ backup /\ ~Up(new)
  /\ helper = "restoring" => old = "gone" /\ target = "none" /\ backup /\ ~Up(new)
  /\ helper = "crashed" => old # "running" /\ (target = "old" \/ backup)

(* What an update that is over tells.                                      *)
Told ==
  /\ helper # "done" => status = "none"
  /\ helper = "done" => status # "none"
  /\ status = "ok" => old = "gone" /\ target = "new" /\ backup /\ new \in {"serving", "gone"}
  /\ status \in {"unchanged_restarted", "rolled_back"} => old = "running"
  /\ status \in {"failed", "restored_but_restart_failed"} => Untouched
  /\ status = "rollback_error" => old = "gone" /\ backup /\ ~Up(new)
  /\ Idle /\ old = "running" /\ closed => download = "staged"

UpdaterTypeOK ==
  /\ target \in {"old", "part", "new", "none"} /\ old \in {"running", "leaving", "gone"}
  /\ backup \in BOOLEAN /\ closed \in BOOLEAN
  /\ download \in {"none", "staged", "left"}
  /\ new \in {"none", "started", "serving", "gone"}
  /\ helper \in {"none", "starting", "refused", "waiting", "swapping", "restarting", "copying",
                 "spawning", "checking", "removing", "restoring", "reviving", "done", "crashed"}
  /\ status \in {"none", "ok", "failed", "unchanged_restarted", "rolled_back",
                 "restored_but_restart_failed", "rollback_error"}

UpdaterInv == UpdaterTypeOK /\ Stages /\ Told

(* Every step of the program, the user and the helper keeps the stages.    *)
LEMMA UpdaterInductive == ~WaitFails /\ UpdaterInv /\ [UpdateNext]_updateVars => UpdaterInv'
<1> SUFFICES ASSUME ~WaitFails, UpdaterInv, [UpdateNext]_updateVars PROVE UpdaterInv'
  OBVIOUS
<1> USE DEF UpdaterInv, UpdaterTypeOK, Stages, Told, Untouched, Up, Idle, files
<1>1. CASE Stage BY <1>1 DEF Stage, Staged
<1>2. ASSUME NEW alone \in BOOLEAN, Quiesce(alone) PROVE UpdaterInv' BY <1>2 DEF Quiesce
<1>3. CASE Launch BY <1>3 DEF Launch
<1>4. CASE HelperStarts BY <1>4 DEF HelperStarts
<1>5. CASE Launched BY <1>5 DEF Launched
<1>6. CASE OldExits BY <1>6 DEF OldExits
<1>7. CASE WaitExit BY <1>7 DEF WaitExit, Ends
<1>8. CASE SwapIn
  <2>1. old = "gone" /\ Untouched
    BY <1>8 DEF SwapIn
  <2>2. CASE target' = "none" /\ backup' = TRUE /\ helper' = "copying"
    BY <1>8, <2>1, <2>2 DEF SwapIn
  <2>3. CASE helper' = "restarting" /\ UNCHANGED files
    BY <1>8, <2>1, <2>3 DEF SwapIn
  <2>4. QED
    BY <1>8, <2>2, <2>3 DEF SwapIn
<1>9. CASE RestartUnchanged BY <1>9 DEF RestartUnchanged, Ends
<1>10. CASE CopyBegins BY <1>10 DEF CopyBegins
<1>11. CASE CopyEnds BY <1>11 DEF CopyEnds
<1>12. CASE SpawnNew BY <1>12 DEF SpawnNew
<1>13. CASE NewServes BY <1>13 DEF NewServes
<1>14. CASE NewExits BY <1>14 DEF NewExits
<1>15. CASE CheckHealth BY <1>15 DEF CheckHealth, Ends
<1>16. CASE RemoveNew BY <1>16 DEF RemoveNew, Ends
<1>17. CASE Restore BY <1>17 DEF Restore, Ends
<1>18. CASE RestartRestored BY <1>18 DEF RestartRestored, Ends
<1>19. CASE Crash BY <1>19 DEF Crash
<1>20. CASE UNCHANGED updateVars BY <1>20 DEF updateVars
<1>21. QED
  BY <1>1, <1>2, <1>3, <1>4, <1>5, <1>6, <1>7, <1>8, <1>9, <1>10, <1>11, <1>12, <1>13,
     <1>14, <1>15, <1>16, <1>17, <1>18, <1>19, <1>20 DEF UpdateNext

(* One version runs, a whole program is on the disk, and status tells which*)
(* one, for any number of updates that fail or are cut short at any step,  *)
(* while the system can tell whether the new process runs.                 *)
THEOREM ProgramIsAlwaysKept == ~WaitFails /\ UpdateSpec => []ProgramIsKept
<1> SUFFICES ASSUME ~WaitFails PROVE UpdateSpec => []ProgramIsKept
  OBVIOUS
<1>1. UpdateInit => UpdaterInv
  BY DEF UpdateInit, UpdaterInv, UpdaterTypeOK, Stages, Told, Untouched, Up, Idle
<1>2. UpdaterInv => ProgramIsKept
  <2> SUFFICES ASSUME UpdaterInv PROVE ProgramIsKept
    OBVIOUS
  <2> USE DEF UpdaterInv, UpdaterTypeOK, Stages, Told, Untouched, Up, Idle
  <2>1. OneVersionRuns
    BY DEF OneVersionRuns
  <2>2. target = "old" \/ backup
    OBVIOUS
  <2>3. QED
    BY <2>1, <2>2 DEF ProgramIsKept
<1>3. UpdaterInv /\ [UpdateNext]_updateVars => UpdaterInv'
  BY UpdaterInductive
<1>4. QED
  BY <1>1, <1>2, <1>3, PTL DEF UpdateSpec

-----------------------------------------------------------------------------
(* The desktop settings (DesktopSettings) *)

(* No configuration is taken for its absence and no page for nobody.       *)
Distinct == NoFile \notin [Field -> Value] /\ NoOne \notin Page

Configuration == [Field -> Value]

Revisions == [salt : Nat, exists : BOOLEAN, bytes : Configuration \cup {NoFile}]

SettingsRequest ==
  [at : {"closed", "sent", "saving", "renaming", "saved"},
   revision : Revisions, field : Field, value : Value \cup {NoOne},
   original : Revisions]

SettingsOK ==
  /\ file \in Configuration \cup {NoFile} /\ startup \in Configuration
  /\ folder \in Value /\ lock \in Page \cup {NoOne} /\ generation \in Nat
  /\ page \in [Page -> SettingsRequest]
  /\ meant \in Configuration /\ by \in [Field -> {"service", "saving", "other"}]
  /\ \A p \in Page : ~PageAt(p, "closed") => page[p].value \in Value
  /\ \A p \in Page : page[p].at \in {"saving", "renaming", "saved"} =>
       page[p].original.bytes \in Configuration
  /\ \A a \in applying : a.dir \in Value

(* One save at a time is past the comparison of its revision, what it is   *)
(* about to replace is what it has read, and what it has written is there, *)
(* unless another writer wrote after it.                                   *)
SavesAlone ==
  /\ \A p \in Page : page[p].at \in {"saving", "renaming", "saved"} => lock = p
  /\ \A p \in Page : PageAt(p, "renaming") => page[p].original.bytes = Document
  /\ \A p \in Page : PageAt(p, "saved") =>
       by[page[p].field] = "other" \/ Document[page[p].field] = page[p].value

(* Once a save of the folder is answered, what writers without the lock    *)
(* have yet to give to the engine is the folder of the file.               *)
Awaited == by["dir"] = "service" => \A a \in applying : Applied(a.dir) = Document["dir"]

(* Closing a page's request keeps the types of all of them.                *)
LEMMA SeesKeeps ==
  ASSUME SettingsOK, NEW p \in Page, NEW r \in Revisions,
         Sees(p, r)
  PROVE  /\ page' \in [Page -> SettingsRequest] /\ page'[p].at = "closed"
         /\ \A q \in Page \ {p} : page'[q] = page[q]
<1>1. Unread \in Revisions
  BY DEF Unread, Revisions
<1>2. Closed(r) \in SettingsRequest /\ Closed(r).at = "closed"
  BY <1>1 DEF Closed, SettingsRequest, Field
<1>3. QED
  BY <1>2 DEF SettingsOK, Sees

(* Between any two steps the document is a configuration.                  *)
LEMMA DocumentIsConfiguration ==
  SettingsOK => Document \in Configuration
         /\ Revision \in Revisions
BY DEF SettingsOK, Document, Revision, Revisions

(* A patched configuration is a configuration.                             *)
LEMMA PatchedIsConfiguration ==
  ASSUME SettingsOK, NEW p \in Page, page[p].at \in {"saving", "renaming", "saved"}
  PROVE  Patched(p) \in Configuration
BY DEF SettingsOK, Patched, Configuration, SettingsRequest, PageAt

(* A refusal keeps the types and closes the request.                       *)
LEMMA RefusedKeeps ==
  ASSUME SettingsOK, NEW p \in Page, Sees(p, page[p].revision)
  PROVE  /\ page' \in [Page -> SettingsRequest] /\ page'[p].at = "closed"
         /\ \A q \in Page \ {p} : page'[q] = page[q]
<1>1. page[p].revision \in Revisions
  BY DEF SettingsOK, SettingsRequest
<1>2. QED
  BY <1>1, SeesKeeps

(* Whatever the files do, a step that closes one request, or none, keeps   *)
(* the types of the requests.                                              *)
LEMMA RequestsKeep ==
  ASSUME SettingsOK, NEW p \in Page,
         page' \in [Page -> SettingsRequest], page'[p].at = "closed",
         \A q \in Page \ {p} : page'[q] = page[q]
  PROVE  /\ \A q \in Page : ~PageAt(q, "closed")' => page'[q].value \in Value
         /\ \A q \in Page : page'[q].at \in {"saving", "renaming", "saved"} =>
              page'[q].original.bytes \in Configuration
BY DEF SettingsOK, PageAt

(* A write without the lock keeps the types.                               *)
LEMMA WritesKeep ==
  ASSUME SettingsOK, NEW configuration \in Configuration, NEW fields,
         Writes(configuration, fields), \A a \in applying' : a.dir \in Value,
         UNCHANGED <<folder, lock, page, startup, generation, leaving>>
  PROVE  SettingsOK'
<1>1. by' \in [Field -> {"service", "saving", "other"}]
  BY DEF Writes, SettingsOK
<1>2. QED
  BY <1>1 DEF Writes, SettingsOK, PageAt

(* Every step keeps the types.                                             *)
LEMMA SettingsInductive == Distinct /\ SettingsOK /\ [SettingsNext]_settingsVars => SettingsOK'
<1> SUFFICES ASSUME Distinct, SettingsOK, [SettingsNext]_settingsVars PROVE SettingsOK'
  OBVIOUS
<1>1. ASSUME NEW p \in Page, Get(p) PROVE SettingsOK'
  <2>1. Sees(p, Revision)
    BY <1>1 DEF Get
  <2>2. /\ page' \in [Page -> SettingsRequest] /\ page'[p].at = "closed"
        /\ \A q \in Page \ {p} : page'[q] = page[q]
    BY <2>1, DocumentIsConfiguration, SeesKeeps
  <2>3. QED
    BY <1>1, <2>2, RequestsKeep DEF Get, SettingsOK, process, history
<1>2. ASSUME NEW p \in Page, Enter(p) PROVE SettingsOK'
  <2>1. CASE /\ Sees(p, page[p].revision) /\ lock' \in {lock, NoOne}
             /\ UNCHANGED <<file, folder, process, history, writes>>
    BY <2>1, RefusedKeeps, RequestsKeep DEF SettingsOK, process, history
  <2>2. CASE /\ page' = [page EXCEPT ![p].at = "saving", ![p].original = Revision] /\ lock' = p
             /\ UNCHANGED <<file, folder, process, history, writes>>
    <3>1. page[p].value \in Value
      BY <1>2 DEF Enter, PageAt, SettingsOK
    <3> DEFINE r == [page[p] EXCEPT !.at = "saving", !.original = Revision]
    <3>q. page[p] \in SettingsRequest /\ Revision \in Revisions
      BY DocumentIsConfiguration DEF SettingsOK
    <3>r. r \in SettingsRequest
      BY <3>q DEF SettingsRequest
    <3>p. page' = [page EXCEPT ![p] = r]
      BY <2>2 DEF SettingsOK
    <3>2. page'[p] = r
      BY <3>p DEF SettingsOK
    <3>3. page' \in [Page -> SettingsRequest]
      BY <3>r, <3>p DEF SettingsOK
    <3>4. /\ page'[p].value \in Value /\ page'[p].original.bytes \in Configuration
          /\ \A q \in Page \ {p} : page'[q] = page[q]
      BY <2>2, <3>1, <3>2, DocumentIsConfiguration DEF SettingsOK, SettingsRequest, Revision
    <3>5. QED
      BY <2>2, <3>3, <3>4 DEF SettingsOK, PageAt, process, history
  <2>3. QED
    BY <1>2, <2>1, <2>2 DEF Enter, Refused
<1>3. ASSUME NEW p \in Page, Compare(p) PROVE SettingsOK'
  <2>1. CASE Refused(p)
    BY <2>1, RefusedKeeps, RequestsKeep DEF Refused, SettingsOK, process, history
  <2>2. ASSUME NEW step \in {"saved", "renaming"}, page' = [page EXCEPT ![p].at = step],
               UNCHANGED <<file, folder, lock, process, history, writes>>
        PROVE  SettingsOK'
    <3>1. page' \in [Page -> SettingsRequest]
      BY <2>2 DEF SettingsOK, SettingsRequest
    <3>2. /\ page'[p].value = page[p].value /\ page'[p].original = page[p].original
          /\ \A q \in Page \ {p} : page'[q] = page[q]
      BY <2>2 DEF SettingsOK, SettingsRequest
    <3>3. PageAt(p, "saving")
      BY <1>3 DEF Compare
    <3>4. QED
      BY <2>2, <3>1, <3>2, <3>3 DEF SettingsOK, PageAt, process, history
  <2>3. QED
    BY <1>3, <2>1, <2>2 DEF Compare
<1>4. ASSUME NEW p \in Page, Rename(p) PROVE SettingsOK'
  <2>1. CASE Refused(p)
    BY <2>1, RefusedKeeps, RequestsKeep DEF Refused, SettingsOK, process, history
  <2>2. CASE ~Refused(p)
    <3>1. /\ PageAt(p, "renaming") /\ file' = Patched(p)
          /\ page' = [page EXCEPT ![p].at = "saved"]
          /\ meant' = [meant EXCEPT ![page[p].field] = page[p].value]
          /\ by' = [by EXCEPT ![page[p].field] = "saving"]
          /\ UNCHANGED <<folder, lock, process, writes>>
      BY <1>4, <2>2 DEF Rename
    <3>2. file' \in Configuration
      BY <3>1, PatchedIsConfiguration DEF PageAt
    <3>3. page' \in [Page -> SettingsRequest]
      BY <3>1 DEF SettingsOK, SettingsRequest
    <3>4. /\ page'[p].value = page[p].value /\ page'[p].original = page[p].original
          /\ \A q \in Page \ {p} : page'[q] = page[q]
      BY <3>1 DEF SettingsOK, SettingsRequest
    <3>5. page[p].value \in Value /\ page[p].field \in Field
      BY <3>1 DEF SettingsOK, PageAt, SettingsRequest
    <3>6. meant' \in Configuration /\ by' \in [Field -> {"service", "saving", "other"}]
      BY <3>1, <3>5 DEF SettingsOK, Configuration
    <3>7. QED
      BY <3>1, <3>2, <3>3, <3>4, <3>6 DEF SettingsOK, PageAt, process
  <2>3. QED
    BY <2>1, <2>2
<1>5. ASSUME NEW p \in Page, Answer(p) PROVE SettingsOK'
  <2>1. Patched(p) \in Configuration
    BY <1>5, PatchedIsConfiguration DEF Answer, PageAt
  <2>2. [salt |-> generation, exists |-> TRUE, bytes |-> Patched(p)]
          \in Revisions
    BY <2>1 DEF SettingsOK, Revisions
  <2>3. /\ page' \in [Page -> SettingsRequest] /\ page'[p].at = "closed"
        /\ \A q \in Page \ {p} : page'[q] = page[q]
    BY <1>5, <2>2, SeesKeeps DEF Answer
  <2>4. folder' \in Value
    BY <1>5 DEF Answer, SettingsOK, PageAt
  <2>5. by' \in [Field -> {"service", "saving", "other"}]
    BY <1>5 DEF Answer, SettingsOK
  <2>6. QED
    BY <1>5, <2>3, <2>4, <2>5, RequestsKeep DEF Answer, SettingsOK, process
<1>6. ASSUME NEW p \in Page, Restart(p) PROVE SettingsOK'
  BY <1>6 DEF Restart, Leaves, SettingsOK, PageAt, history
<1>7. ASSUME NEW p \in Page, NEW f \in Field, NEW v \in Value, Edit(p, f, v) PROVE SettingsOK'
  <2>1. page' = [page EXCEPT ![p].at = "sent", ![p].field = f, ![p].value = v]
    BY <1>7 DEF Edit
  <2> DEFINE r == [page[p] EXCEPT !.at = "sent", !.field = f, !.value = v]
  <2>r. r \in SettingsRequest
    BY DEF SettingsOK, SettingsRequest
  <2>p. page' = [page EXCEPT ![p] = r]
    BY <2>1 DEF SettingsOK
  <2>2. page' \in [Page -> SettingsRequest]
    BY <2>r, <2>p DEF SettingsOK
  <2>3. /\ page'[p].at = "sent" /\ page'[p].value = v
        /\ \A q \in Page \ {p} : page'[q] = page[q]
    BY <2>1 DEF SettingsOK, SettingsRequest
  <2>4. QED
    BY <1>7, <2>2, <2>3 DEF Edit, SettingsOK, PageAt, process, history
<1>8. ASSUME NEW f \in Field, NEW v \in Value, OtherWrites(f, v) PROVE SettingsOK'
  <2>1. [Document EXCEPT ![f] = v] \in Configuration
    BY DocumentIsConfiguration DEF Configuration
  <2>2. QED
    BY <1>8, <2>1, WritesKeep DEF OtherWrites, process, SettingsOK
<1>9. ASSUME NEW c \in Configuration, PutConfig(c) PROVE SettingsOK'
  <2>1. \A a \in applying' : a.dir \in Value
    BY <1>9 DEF PutConfig, SettingsOK, Configuration, Field
  <2>2. QED
    BY <1>9, <2>1, WritesKeep DEF PutConfig
<1>10. ASSUME NEW v \in Value, SetDownloadDir(v) PROVE SettingsOK'
  <2>1. [startup EXCEPT !["dir"] = v] \in Configuration
    BY DEF SettingsOK, Configuration
  <2>2. QED
    BY <1>9, <1>10, <2>1 DEF SetDownloadDir
<1>11. ASSUME NEW a \in applying, ApplyFolder(a) PROVE SettingsOK'
  <2>1. startup["dir"] \in Value /\ a.dir \in Value
    BY DEF SettingsOK, Configuration, Field
  <2>2. folder' \in Value /\ by' \in [Field -> {"service", "saving", "other"}]
    BY <1>11, <2>1 DEF ApplyFolder, Applied, SettingsOK
  <2>3. QED
    BY <1>11, <2>2 DEF ApplyFolder, SettingsOK, PageAt
<1>12. CASE Start
  <2>1. page' = [q \in Page |-> Closed(page[q].revision)]
    BY <1>12 DEF Start
  <2>2. \A q \in Page : Closed(page[q].revision) \in SettingsRequest
    <3>1. Unread \in Revisions
      BY DEF Unread, Revisions
    <3>2. TAKE q \in Page
    <3>3. page[q].revision \in Revisions
      BY DEF SettingsOK, SettingsRequest
    <3>4. QED
      BY <3>1, <3>3 DEF Closed, SettingsRequest, Field
  <2>3. page' \in [Page -> SettingsRequest] /\ \A q \in Page : page'[q].at = "closed"
    BY <2>1, <2>2 DEF Closed
  <2>4. Document \in Configuration /\ Document["dir"] \in Value
    BY DocumentIsConfiguration DEF Configuration, Field
  <2>5. by' \in [Field -> {"service", "saving", "other"}]
    BY <1>12 DEF Start
  <2>6. QED
    BY <1>12, <2>3, <2>4, <2>5 DEF Start, SettingsOK, PageAt
<1>13. CASE UNCHANGED settingsVars
  BY <1>13 DEF settingsVars, process, history, SettingsOK, PageAt
<1>14. QED
  BY <1>1, <1>2, <1>3, <1>4, <1>5, <1>6, <1>7, <1>8, <1>9, <1>10, <1>11, <1>12, <1>13
  DEF SettingsNext, Configuration

Safe == SavesAlone /\ AcceptedChangesStay /\ FolderFollowsFile /\ Awaited

(* What it is for the saves under way to be settled.                       *)
LEMMA SettledSaves ==
  /\ Settled => \A a \in applying : Applied(a.dir) = Document["dir"]
  /\ Settled => \A p \in Page :
       PageAt(p, "saved") /\ page[p].field = "dir" => page[p].value = Document["dir"]
BY DEF Settled, Unapplied

(* A step that closes a request, leaves the lock or frees it, and leaves   *)
(* the files and the process alone.                                        *)
LEMMA ClosingIsSafe ==
  ASSUME Distinct, SettingsOK, Safe, NEW p \in Page,
         Sees(p, page[p].revision) \/ Sees(p, Revision),
         \A q \in Page \ {p} : lock = q => lock' = q,
         UNCHANGED <<file, startup, folder, applying, meant, by>>
  PROVE  Safe'
<1>1. /\ page'[p].at = "closed"
      /\ \A q \in Page \ {p} : page'[q] = page[q]
  BY RefusedKeeps, SeesKeeps, DocumentIsConfiguration
<1>2. Document' = Document
  BY DEF Document
<1>3. SavesAlone'
  BY <1>1, <1>2 DEF Safe, SavesAlone, PageAt, Distinct
<1>4. QED
  BY <1>2, <1>3 DEF Safe, AcceptedChangesStay, FolderFollowsFile, Awaited, Applied

(* A step of one request that has the lock after it and changes no file.   *)
LEMMA SavingIsSafe ==
  ASSUME Distinct, SettingsOK, Safe, NEW p \in Page, lock = p \/ lock = NoOne, lock' = p,
         \A q \in Page \ {p} : page'[q] = page[q],
         page'[p].at = "renaming" => page'[p].original.bytes = Document,
         page'[p].at = "saved" =>
           by[page'[p].field] = "other" \/ Document[page'[p].field] = page'[p].value,
         UNCHANGED <<file, startup, folder, applying, meant, by>>
  PROVE  Safe'
<1>2. Document' = Document
  BY DEF Document
<1>3. \A q \in Page \ {p} : page[q].at \notin {"saving", "renaming", "saved"}
  BY DEF Safe, SavesAlone, Distinct
<1>4. SavesAlone'
  BY <1>2, <1>3 DEF Safe, SavesAlone, PageAt
<1>5. QED
  BY <1>2, <1>4 DEF Safe, AcceptedChangesStay, FolderFollowsFile, Awaited, Applied

(* The replacement of the file.                                            *)
LEMMA RenameIsSafe ==
  ASSUME Distinct, SettingsOK, Safe, NEW p \in Page, PageAt(p, "renaming"),
         file' = Patched(p), page' = [page EXCEPT ![p].at = "saved"],
         meant' = [meant EXCEPT ![page[p].field] = page[p].value],
         by' = [by EXCEPT ![page[p].field] = "saving"],
         UNCHANGED <<folder, applying, lock, startup>>
  PROVE  Safe'
<1>1. page[p].field \in Field /\ page[p].original.bytes = Document
  BY DEF SettingsOK, SettingsRequest, Safe, SavesAlone
<1>2. Patched(p) \in Configuration
  BY PatchedIsConfiguration DEF PageAt
<1>3. Document' = Patched(p)
  BY <1>2 DEF Document, Distinct, Configuration
<1>4. Patched(p) = [Document EXCEPT ![page[p].field] = page[p].value]
  BY <1>1 DEF Patched
<1>5. AcceptedChangesStay'
  BY <1>3, <1>4 DEF Safe, AcceptedChangesStay
<1>6. by'["dir"] = "service" => page[p].field # "dir" /\ by["dir"] = "service"
  BY <1>1 DEF SettingsOK, Field
<1>7. page[p].field # "dir" => Document'["dir"] = Document["dir"]
  BY <1>3, <1>4, DocumentIsConfiguration DEF Configuration, Field
<1>8. FolderFollowsFile' /\ Awaited'
  BY <1>6, <1>7 DEF Safe, FolderFollowsFile, Awaited, Applied
<1>9. lock = p /\ \A q \in Page \ {p} : page[q].at \notin {"saving", "renaming", "saved"}
  BY DEF Safe, SavesAlone, PageAt
<1>10. /\ page'[p].at = "saved" /\ page'[p].field = page[p].field
       /\ page'[p].value = page[p].value /\ Document'[page[p].field] = page[p].value
       /\ \A q \in Page \ {p} : page'[q] = page[q]
  BY <1>1, <1>3, <1>4, DocumentIsConfiguration DEF SettingsOK, SettingsRequest, Configuration
<1>11. SavesAlone'
  BY <1>9, <1>10 DEF SavesAlone, PageAt
<1>12. QED
  BY <1>5, <1>8, <1>11 DEF Safe

(* The answer of a save, with the new folder.                              *)
LEMMA AnswerIsSafe ==
  ASSUME Distinct, SettingsOK, Safe, NEW p \in Page, Answer(p)
  PROVE  Safe'
<1>1. Patched(p) \in Configuration
  BY PatchedIsConfiguration DEF Answer, PageAt
<1>2. [salt |-> generation, exists |-> TRUE, bytes |-> Patched(p)] \in Revisions
  BY <1>1 DEF SettingsOK, Revisions
<1>3. page'[p].at = "closed" /\ \A q \in Page \ {p} : page'[q] = page[q]
  BY <1>2, SeesKeeps DEF Answer
<1>4. Document' = Document /\ meant' = meant
  BY DEF Answer, Document, process
<1>5. \A q \in Page \ {p} : page[q].at \notin {"saving", "renaming", "saved"}
  BY DEF Answer, PageAt, Safe, SavesAlone
<1>6. SavesAlone'
  BY <1>3, <1>5 DEF SavesAlone, PageAt
<1>7. UNCHANGED <<applying, startup>> /\ \A a \in applying : Applied(a.dir)' = Applied(a.dir)
  BY DEF Answer, process, Applied
<1>8. CASE page[p].field = "dir"
  <2>1. folder' = page[p].value
    BY <1>8 DEF Answer, Applies
  <2>2. CASE Document["dir"] = page[p].value
    <3>1. FolderFollowsFile'
      BY <1>4, <2>1, <2>2 DEF FolderFollowsFile
    <3>2. by'["dir"] = "service" => Settled \/ by["dir"] = "service"
      BY <1>8 DEF Answer, SettingsOK
    <3>3. Awaited'
      BY <1>4, <1>7, <3>2, SettledSaves DEF Safe, Awaited
    <3>4. QED
      BY <1>4, <1>6, <3>1, <3>3 DEF Safe, AcceptedChangesStay
  <2>3. CASE Document["dir"] # page[p].value
    <3>1. by' = by
      BY <1>8, <2>3 DEF Answer, SettingsOK
    <3>2. by["dir"] # "service"
      BY <1>8, <2>3 DEF Answer, PageAt, Safe, SavesAlone
    <3>3. QED
      BY <1>4, <1>6, <3>1, <3>2 DEF Safe, AcceptedChangesStay, FolderFollowsFile, Awaited
  <2>4. QED
    BY <2>2, <2>3
<1>9. CASE page[p].field # "dir"
  <2>1. folder' = folder /\ by'["dir"] = by["dir"]
    BY <1>9 DEF Answer, Applies, SettingsOK, Field
  <2>2. QED
    BY <1>4, <1>6, <1>7, <2>1 DEF Safe, AcceptedChangesStay, FolderFollowsFile, Awaited
<1>10. QED
  BY <1>8, <1>9

(* A write without the lock: what it writes nobody has been told yet.      *)
LEMMA WritesAreSafe ==
  ASSUME Distinct, SettingsOK, Safe, NEW configuration \in Configuration,
         NEW fields \in SUBSET Field, Writes(configuration, fields),
         \A f \in Field \ fields : configuration[f] = Document[f],
         "dir" \notin fields => applying' = applying,
         UNCHANGED <<folder, lock, page, startup>>
  PROVE  Safe'
<1>1. Document' = configuration /\ meant' = configuration
  BY DEF Writes, Document, Distinct, Configuration
<1>2. \A f \in Field : by'[f] = "other" \/ (f \notin fields /\ by'[f] = by[f])
  BY DEF Writes
<1>3. AcceptedChangesStay'
  BY <1>1 DEF AcceptedChangesStay
<1>4. "dir" \in Field /\ \A p \in Page : page[p].field \in Field
  BY DEF Field, SettingsOK, SettingsRequest
<1>5. FolderFollowsFile'
  BY <1>1, <1>2, <1>4 DEF Safe, FolderFollowsFile
<1>6. Awaited'
  BY <1>1, <1>2, <1>4 DEF Safe, Awaited, Applied
<1>7. SavesAlone'
  BY <1>1, <1>2, <1>4 DEF Safe, SavesAlone, PageAt, Writes
<1>8. QED
  BY <1>3, <1>5, <1>6, <1>7 DEF Safe

(* A writer without the lock gives the engine the folder it has written.   *)
LEMMA ApplyingIsSafe ==
  ASSUME Distinct, SettingsOK, Safe, NEW a \in applying, ApplyFolder(a)
  PROVE  Safe'
<1>1. UNCHANGED <<Document, lock, page, startup, meant>>
  BY DEF ApplyFolder, Document
<1>2. folder' = Applied(a.dir) /\ applying' \subseteq applying
  BY DEF ApplyFolder
<1>3. \A f \in Field : by'[f] = by[f] \/ (f = "dir" /\ Settled)
  BY DEF ApplyFolder, SettingsOK
<1>4. by'["dir"] = "service" => \A b \in applying : Applied(b.dir) = Document["dir"]
  BY <1>3, SettledSaves DEF Safe, Awaited, Field
<1>5. FolderFollowsFile' /\ Awaited'
  BY <1>1, <1>2, <1>4 DEF FolderFollowsFile, Awaited, Applied
<1>6. \A p \in Page : page[p].field \in Field
  BY DEF SettingsOK, SettingsRequest
<1>7. SavesAlone'
  BY <1>1, <1>3, <1>6, SettledSaves DEF Safe, SavesAlone, PageAt
<1>8. QED
  BY <1>1, <1>5, <1>7 DEF Safe, AcceptedChangesStay

(* Every step keeps the saves safe.                                        *)
LEMMA SafeInductive == Distinct /\ SettingsOK /\ Safe /\ [SettingsNext]_settingsVars => Safe'
<1> SUFFICES ASSUME Distinct, SettingsOK, Safe, [SettingsNext]_settingsVars PROVE Safe'
  OBVIOUS
<1>1. ASSUME NEW p \in Page, Get(p) PROVE Safe'
  BY <1>1, ClosingIsSafe DEF Get, process, history
<1>2. ASSUME NEW p \in Page, Enter(p) PROVE Safe'
  <2>1. CASE /\ Sees(p, page[p].revision)
             /\ lock' = lock \/ (lock' = NoOne /\ lock = NoOne)
             /\ UNCHANGED <<file, folder, process, history, writes>>
    <3>1. UNCHANGED <<file, startup, folder, applying, meant, by>>
      BY <2>1 DEF process, history
    <3>2. \A q \in Page \ {p} : lock = q => lock' = q
      BY <2>1 DEF Distinct
    <3>3. QED
      BY <2>1, <3>1, <3>2, ClosingIsSafe
  <2>2. CASE /\ MayEnter /\ lock' = p
             /\ page' = [page EXCEPT ![p].at = "saving", ![p].original = Revision]
             /\ UNCHANGED <<file, folder, process, history, writes>>
    <3>1. page'[p].at = "saving" /\ \A q \in Page \ {p} : page'[q] = page[q]
      BY <2>2 DEF SettingsOK, SettingsRequest
    <3>2. lock = NoOne /\ lock' = p /\ UNCHANGED <<file, startup, folder, applying, meant, by>>
      BY <2>2 DEF MayEnter, process, history
    <3>3. QED
      BY <3>1, <3>2, SavingIsSafe
  <2>3. QED
    BY <1>2, <2>1, <2>2 DEF Enter, Refused, MayEnter
<1>3. ASSUME NEW p \in Page, Compare(p) PROVE Safe'
  <2>1. PageAt(p, "saving") /\ lock = p
    BY <1>3 DEF Compare, PageAt, Safe, SavesAlone
  <2>2. CASE Refused(p)
    BY <2>1, <2>2, ClosingIsSafe DEF Refused, process, history
  <2>3. CASE /\ MayCommit(p)
             /\ page' = [page EXCEPT ![p].at = IF Unchanged(p) THEN "saved" ELSE "renaming"]
             /\ UNCHANGED <<file, folder, lock, process, history, writes>>
    <3> DEFINE r == page'[p]
    <3>1. \A q \in Page \ {p} : page'[q] = page[q]
      BY <2>3 DEF SettingsOK
    <3>2. page[p].original.bytes = Document
      BY <2>3 DEF MayCommit, Revision
    <3>3. /\ r.at = IF Unchanged(p) THEN "saved" ELSE "renaming"
          /\ r.original = page[p].original /\ r.field = page[p].field /\ r.value = page[p].value
          /\ r.field \in Field
      BY <2>3 DEF SettingsOK, SettingsRequest
    <3>4. Unchanged(p) => Document[page[p].field] = page[p].value
      BY <3>2, <3>3, DocumentIsConfiguration DEF Unchanged, Patched, Configuration
    <3>5. lock = p /\ lock' = p /\ UNCHANGED <<file, startup, folder, applying, meant, by>>
      BY <2>1, <2>3 DEF process, history
    <3>6. /\ r.at = "renaming" => r.original.bytes = Document
          /\ r.at = "saved" => by[r.field] = "other" \/ Document[r.field] = r.value
      BY <3>2, <3>3, <3>4
    <3>7. QED
      BY <3>1, <3>5, <3>6, SavingIsSafe
  <2>4. QED
    BY <1>3, <2>2, <2>3 DEF Compare
<1>4. ASSUME NEW p \in Page, Rename(p) PROVE Safe'
  <2>1. CASE page[p].at \in {"saving", "renaming"} /\ Refused(p)
    <3>1. lock = p
      BY <2>1 DEF Safe, SavesAlone
    <3>2. QED
      BY <2>1, <3>1, ClosingIsSafe DEF Refused, process, history
  <2>2. QED
    BY <1>4, <2>1, RenameIsSafe DEF Rename, process
<1>5. ASSUME NEW p \in Page, Answer(p) PROVE Safe'
  BY <1>5, AnswerIsSafe
<1>6. ASSUME NEW p \in Page, Restart(p) PROVE Safe'
  <2>1. UNCHANGED <<Document, page, lock, meant, by, folder, applying, startup>>
    BY <1>6 DEF Restart, Leaves, Document, history
  <2>2. QED
    BY <2>1 DEF Safe, SavesAlone, AcceptedChangesStay, FolderFollowsFile, Awaited,
                Applied, PageAt
<1>7. ASSUME NEW p \in Page, NEW f \in Field, NEW v \in Value, Edit(p, f, v) PROVE Safe'
  <2>1. page'[p].at = "sent" /\ \A q \in Page \ {p} : page'[q] = page[q]
    BY <1>7 DEF Edit, SettingsOK, SettingsRequest
  <2>2. UNCHANGED <<Document, lock, meant, by, folder, applying, startup>>
    BY <1>7 DEF Edit, Document, process, history
  <2>3. QED
    BY <2>1, <2>2 DEF Safe, SavesAlone, AcceptedChangesStay, FolderFollowsFile, Awaited,
                      Applied, PageAt
<1>8. ASSUME NEW f \in Field, NEW v \in Value, OtherWrites(f, v) PROVE Safe'
  <2> DEFINE c == [Document EXCEPT ![f] = v]
  <2>1. c \in Configuration /\ \A e \in Field \ {f} : c[e] = Document[e]
    BY DocumentIsConfiguration DEF Configuration
  <2>2. Writes(c, {f}) /\ UNCHANGED <<folder, applying, lock, page, startup>>
    BY <1>8 DEF OtherWrites, process
  <2>3. QED
    BY <2>1, <2>2, WritesAreSafe
<1>9. ASSUME NEW c \in Configuration, PutConfig(c) PROVE Safe'
  BY <1>9, WritesAreSafe DEF PutConfig, Field
<1>10. ASSUME NEW v \in Value, SetDownloadDir(v) PROVE Safe'
  <2>1. [startup EXCEPT !["dir"] = v] \in Configuration
    BY DEF SettingsOK, Configuration
  <2>2. QED
    BY <1>9, <1>10, <2>1 DEF SetDownloadDir
<1>11. ASSUME NEW a \in applying, ApplyFolder(a) PROVE Safe'
  BY <1>11, ApplyingIsSafe
<1>12. CASE Start
  <2>1. \A p \in Page : page'[p].at = "closed"
    BY <1>12 DEF Start, Closed
  <2>2. /\ Document' = Document /\ meant' = Document /\ folder' = Document["dir"]
        /\ applying' = {}
    BY <1>12, DocumentIsConfiguration DEF Start, Document, Distinct, Configuration
  <2>3. QED
    BY <2>1, <2>2 DEF Safe, SavesAlone, AcceptedChangesStay, FolderFollowsFile, Awaited,
                      Applied, PageAt
<1>13. CASE UNCHANGED settingsVars
  <2>1. UNCHANGED <<Document, page, lock, meant, by, folder, applying, startup>>
    BY <1>13 DEF settingsVars, Document, history, process
  <2>2. QED
    BY <2>1 DEF Safe, SavesAlone, AcceptedChangesStay, FolderFollowsFile, Awaited,
                Applied, PageAt
<1>14. QED
  BY <1>1, <1>2, <1>3, <1>4, <1>5, <1>6, <1>7, <1>8, <1>9, <1>10, <1>11, <1>12, <1>13
  DEF SettingsNext, Configuration

(* A service that has just started is safe.                                *)
LEMMA SettingsInitially == Distinct /\ SettingsInit => SettingsOK /\ Safe
<1> SUFFICES ASSUME Distinct, SettingsInit PROVE SettingsOK /\ Safe
  OBVIOUS
<1>1. startup \in Configuration /\ Document = startup
  BY DEF SettingsInit, Configuration, Document
<1>2. \A p \in Page : page[p].at = "closed"
  BY DEF SettingsInit, Closed
<1>3. Closed(Unread) \in SettingsRequest
  BY DEF Closed, Unread, SettingsRequest, Revisions, Field
<1>4. SettingsOK
  BY <1>1, <1>2, <1>3 DEF SettingsInit, SettingsOK, PageAt, Configuration, Field
<1>5. Safe
  BY <1>1, <1>2 DEF SettingsInit, Safe, SavesAlone, AcceptedChangesStay, FolderFollowsFile, Awaited,
                    Applied, PageAt
<1>6. QED
  BY <1>4, <1>5

(* The invariant holds in every reachable state.                           *)
LEMMA SafeAlways == Distinct /\ SettingsSpec => []Safe
<1> SUFFICES ASSUME Distinct PROVE SettingsSpec => []Safe
  OBVIOUS
<1>1. SettingsInit => SettingsOK /\ Safe
  BY SettingsInitially
<1>2. SettingsOK /\ Safe /\ [SettingsNext]_settingsVars => SettingsOK' /\ Safe'
  BY SettingsInductive, SafeInductive
<1>3. QED
  BY <1>1, <1>2, PTL DEF SettingsSpec

(* No accepted change is undone by a save that had not seen it, however    *)
(* many pages save and restart the service and other programs write.       *)
THEOREM SettingsAreKept == Distinct /\ SettingsSpec => []AcceptedChangesStay
<1>1. Safe => AcceptedChangesStay
  BY DEF Safe
<1>2. QED
  BY <1>1, SafeAlways, PTL

(* The engine's folder is the one of the file once a save of it is         *)
(* answered, until the next write, however many pages save, and however    *)
(* many writers without the lock save before and after: unless one of them *)
(* has yet to give the engine another folder at the answer.                *)
THEOREM FolderIsFollowed == Distinct /\ SettingsSpec => []FolderFollowsFile
<1>1. Safe => FolderFollowsFile
  BY DEF Safe
<1>2. QED
  BY <1>1, SafeAlways, PTL

-----------------------------------------------------------------------------
(* Downloads of shared files (FileDownload) *)

DownloadSteps ==
  {"idle", "failed", "asking", "heading", "writing", "checking", "linking", "removing"}

DownloadOK ==
  /\ Size \in [Version -> Nat]
  /\ source \in Version /\ meta \in Version \cup {0}
  /\ disk \in Seq(Seq(Version)) /\ part \in 0 .. Len(disk)
  /\ published \subseteq [file : 1 .. Len(disk), version : Version]
  /\ client \in [at : DownloadSteps, etag : Version \cup {0}, again : BOOLEAN, calm : BOOLEAN]
  /\ client.at \in {"heading", "writing", "checking", "linking", "removing"} =>
       client.etag \in Version
  /\ client.at \in {"writing", "checking", "linking", "removing"} => part # 0

(* The partial file is one of its own, except between its publication and  *)
(* its removal, and whole before its publication.                          *)
PartIsOwn ==
  /\ client.at # "removing" => \A p \in published : p.file # part
  /\ client.at = "linking" => disk[part] = Whole(client.etag)

(* Every step keeps the types.                                             *)
LEMMA DownloadTypeInductive == DownloadOK /\ [DownloadNext]_downloadVars => DownloadOK'
<1> SUFFICES ASSUME DownloadOK, [DownloadNext]_downloadVars PROVE DownloadOK'
  OBVIOUS
<1> USE DEF DownloadOK, DownloadSteps
<1>1. CASE Begin BY <1>1 DEF Begin, Resting
<1>2. ASSUME Retry, UNCHANGED <<source, disk, published>> PROVE DownloadOK'
  <2>1. CASE client.again
    <3>1. client' = [client EXCEPT !.at = "failed"] /\ part' = part /\ meta' = meta
      BY <1>2, <2>1 DEF Retry, Goes
    <3>2. QED
      BY <1>2, <3>1
  <2>2. CASE ~client.again
    <3>1. client' = [client EXCEPT !.at = "asking", !.again = TRUE] /\ part' = 0 /\ meta' = 0
      BY <1>2, <2>2 DEF Retry
    <3>2. client'.at = "asking" /\ client'.etag \in Version \cup {0}
      BY <3>1
    <3>3. client' \in [at : DownloadSteps, etag : Version \cup {0}, again : BOOLEAN, calm : BOOLEAN]
      BY <3>1
    <3>4. Len(disk) \in Nat
      OBVIOUS
    <3>5. part' \in 0 .. Len(disk')
      BY <1>2, <3>1, <3>4
    <3>6. QED
      BY <1>2, <3>1, <3>2, <3>3, <3>5
  <2>3. QED
    BY <2>1, <2>2
<1>3. CASE AskBeyond BY <1>2, <1>3 DEF AskBeyond
<1>15. CASE AskRest BY <1>15 DEF AskRest, Heads
<1>4. CASE AskAll
  <2>1. ExistingLen > 0 => part # 0
    BY DEF ExistingLen
  <2>2. disk' \in Seq(Seq(Version)) /\ Len(disk') = Len(disk)
    BY <1>4, <2>1 DEF AskAll, Heads
  <2>3. QED
    BY <1>4, <2>2 DEF AskAll, Heads
<1>5. CASE WriteMeta
  <2>1. CASE part # 0 BY <1>5, <2>1 DEF WriteMeta, Goes
  <2>2. CASE part = 0
    <3>1. disk' = Append(disk, <<>>) /\ part' = Len(disk) + 1
      BY <1>5, <2>2 DEF WriteMeta
    <3>2. disk' \in Seq(Seq(Version)) /\ Len(disk') = Len(disk) + 1
      BY <3>1
    <3>3. published' \subseteq [file : 1 .. Len(disk'), version : Version]
      BY <1>5, <3>2 DEF WriteMeta
    <3>4. part' \in 0 .. Len(disk') /\ part' # 0
      BY <3>1, <3>2
    <3>5. QED
      BY <1>5, <3>2, <3>3, <3>4 DEF WriteMeta, Goes
  <2>3. QED
    BY <2>1, <2>2
<1>6. CASE WriteChunk
  <2>1. Append(disk[part], source) \in Seq(Version)
    BY <1>6 DEF WriteChunk
  <2>2. disk' \in Seq(Seq(Version)) /\ Len(disk') = Len(disk)
    BY <1>6, <2>1 DEF WriteChunk
  <2>3. QED
    BY <1>6, <2>2 DEF WriteChunk
<1>7. CASE WriteEnds BY <1>7 DEF WriteEnds, Goes
<1>8. CASE Verify
  <2>1. CASE Verified BY <1>8, <2>1 DEF Verify, Goes
  <2>2. CASE ~Verified BY <1>2, <1>8, <2>2 DEF Verify
  <2>3. QED
    BY <2>1, <2>2
<1>9. CASE Link
  <2>1. client.etag \in Version /\ part \in 1 .. Len(disk)
    BY <1>9 DEF Link
  <2>2. [file |-> part, version |-> client.etag] \in [file : 1 .. Len(disk), version : Version]
    BY <2>1
  <2>3. published' \subseteq [file : 1 .. Len(disk'), version : Version]
    BY <1>9, <2>2 DEF Link
  <2>4. QED
    BY <1>9, <2>1, <2>3 DEF Link, Goes
<1>10. CASE RemovePartial BY <1>10 DEF RemovePartial, Resting
<1>11. CASE Lose BY <1>11 DEF Lose, Resting
<1>12. ASSUME NEW v \in Version, Change(v) PROVE DownloadOK' BY <1>12 DEF Change
<1>13. CASE UNCHANGED downloadVars BY <1>13 DEF downloadVars
<1>14. QED
  BY <1>1, <1>3, <1>15, <1>4, <1>5, <1>6, <1>7, <1>8, <1>9, <1>10, <1>11, <1>12, <1>13
  DEF DownloadNext

(* As long as partial downloads are removed, every step leaves the files   *)
(* that were published alone.                                              *)
LEMMA OwnInductive ==
  DownloadOK /\ ~RemovalFails /\ PartIsOwn /\ PublishedStays /\ [DownloadNext]_downloadVars
    => PartIsOwn' /\ PublishedStays'
<1> SUFFICES ASSUME DownloadOK, ~RemovalFails, PartIsOwn, PublishedStays,
                    [DownloadNext]_downloadVars
             PROVE  PartIsOwn' /\ PublishedStays'
  OBVIOUS
<1> USE DEF PartIsOwn, PublishedStays, DownloadOK, DownloadSteps
<1>1. CASE Begin BY <1>1 DEF Begin, Resting, Whole
<1>2. ASSUME Retry, client.at # "removing", UNCHANGED <<source, disk, published>>
      PROVE  PartIsOwn' /\ PublishedStays'
  <2>1. \A p \in published : p.file # 0
    OBVIOUS
  <2>2. CASE client.again
    <3>1. client'.at = "failed" /\ part' = part /\ (\A p \in published : p.file # part)
      BY <1>2, <2>2 DEF Retry, Goes
    <3>2. QED
      BY <1>2, <3>1 DEF Whole
  <2>3. CASE ~client.again BY <1>2, <2>1, <2>3 DEF Retry, Whole
  <2>4. QED
    BY <2>2, <2>3
<1>3. CASE AskBeyond BY <1>2, <1>3 DEF AskBeyond
<1>15. CASE AskRest BY <1>15 DEF AskRest, Heads, Whole
<1>4. CASE AskAll
  <2>1. \A p \in published : disk'[p.file] = disk[p.file]
    BY <1>4 DEF AskAll, Heads
  <2>2. QED
    BY <1>4, <2>1 DEF AskAll, Heads, Whole
<1>5. CASE WriteMeta
  <2>1. CASE part # 0 BY <1>5, <2>1 DEF WriteMeta, Goes, Whole
  <2>2. CASE part = 0
    <3>1. \A p \in published : disk'[p.file] = disk[p.file] /\ p.file # part'
      BY <1>5, <2>2 DEF WriteMeta
    <3>2. QED
      BY <1>5, <3>1 DEF WriteMeta, Goes, Whole
  <2>3. QED
    BY <2>1, <2>2
<1>6. CASE WriteChunk
  <2>1. \A p \in published : disk'[p.file] = disk[p.file]
    BY <1>6 DEF WriteChunk
  <2>2. QED
    BY <1>6, <2>1 DEF WriteChunk, Whole
<1>7. CASE WriteEnds BY <1>7 DEF WriteEnds, Goes, Whole
<1>8. CASE Verify
  <2>1. CASE Verified BY <1>8, <2>1 DEF Verify, Verified, Goes, Whole
  <2>2. CASE ~Verified BY <1>2, <1>8, <2>2 DEF Verify
  <2>3. QED
    BY <2>1, <2>2
<1>9. CASE Link
  <2>1. disk[part] = Whole(client.etag)
    BY <1>9 DEF Link
  <2>2. client'.at = "removing"
    BY <1>9 DEF Link, Goes
  <2>3. \A p \in published' : disk'[p.file] = Whole(p.version)
    BY <1>9, <2>1 DEF Link
  <2>4. QED
    BY <2>2, <2>3 DEF Whole
<1>10. CASE RemovePartial BY <1>10 DEF RemovePartial, Resting, Whole
<1>11. CASE Lose BY <1>11 DEF Lose, Resting, Whole
<1>12. ASSUME NEW v \in Version, Change(v) PROVE PartIsOwn' /\ PublishedStays'
  BY <1>12 DEF Change, Whole
<1>13. CASE UNCHANGED downloadVars BY <1>13 DEF downloadVars, Whole
<1>14. QED
  BY <1>1, <1>3, <1>15, <1>4, <1>5, <1>6, <1>7, <1>8, <1>9, <1>10, <1>11, <1>12, <1>13
  DEF DownloadNext

(* What a calm attempt knows: the ETag is that of the source, and after its*)
(* first failure it has started from nothing and copies the source alone.  *)
CalmIsTrue ==
  client.calm =>
    /\ client.at # "failed"
    /\ client.at \in {"heading", "writing", "checking", "linking"} => client.etag = source
    /\ client.at = "checking" => Len(disk[part]) = Size[source]
    /\ client.again =>
         /\ client.at \in {"asking", "heading"} => part = 0
         /\ client.at \in {"writing", "checking"} =>
              \A i \in 1 .. Len(disk[part]) : disk[part][i] = source

(* A retry that is calm is the first of its attempt.                       *)
LEMMA FirstRetry ==
  ASSUME DownloadOK, CalmIsTrue, Retry, client.calm => ~client.again,
         UNCHANGED <<source, disk>>
  PROVE  CalmIsTrue'
<1>1. CASE client.again
  <2>1. ~client.calm /\ client' = [client EXCEPT !.at = "failed"]
    BY <1>1 DEF Retry, Goes
  <2>2. ~client'.calm
    BY <2>1 DEF DownloadOK
  <2>3. QED
    BY <2>2 DEF CalmIsTrue
<1>2. CASE ~client.again
  <2>1. part' = 0 /\ client' = [client EXCEPT !.at = "asking", !.again = TRUE]
    BY <1>2 DEF Retry
  <2>2. client'.at = "asking"
    BY <2>1 DEF DownloadOK
  <2>3. QED
    BY <2>1, <2>2 DEF CalmIsTrue
<1>3. QED
  BY <1>1, <1>2

(* A second copy of the source that has its length is the source.          *)
LEMMA SecondCopyIsVerified ==
  ASSUME DownloadOK, CalmIsTrue, client.at = "checking", client.calm, client.again
  PROVE  Verified
<1>1. disk[part] \in Seq(Version)
  BY DEF DownloadOK
<1>2. /\ client.etag = source /\ Len(disk[part]) = Size[source]
      /\ \A i \in 1 .. Len(disk[part]) : disk[part][i] = source
  BY DEF CalmIsTrue
<1>3. disk[part] = [i \in 1 .. Size[source] |-> source]
  BY <1>1, <1>2
<1>4. QED
  BY <1>2, <1>3 DEF Verified, Whole

(* Every step of a calm attempt keeps what it knows.                       *)
LEMMA CalmInductive == DownloadOK /\ CalmIsTrue /\ [DownloadNext]_downloadVars => CalmIsTrue'
<1> SUFFICES ASSUME DownloadOK, CalmIsTrue, [DownloadNext]_downloadVars PROVE CalmIsTrue'
  OBVIOUS
<1>1. CASE Begin BY <1>1 DEF Begin, Resting, CalmIsTrue
<1>3. CASE AskBeyond
  <2>1. client.calm => ~client.again
    BY <1>3 DEF AskBeyond, Beyond, SameAsBefore, ExistingLen, CalmIsTrue, DownloadOK
  <2>2. QED
    BY <1>3, <2>1, FirstRetry DEF AskBeyond
<1>15. CASE AskRest
  <2>1. client'.at = "heading" /\ client'.etag = source /\ client'.again = client.again
    BY <1>15 DEF AskRest, Heads, DownloadOK
  <2>2. client'.calm = client.calm /\ part' = part /\ source' = source
    BY <1>15 DEF AskRest, Heads, DownloadOK
  <2>3. client.at = "asking"
    BY <1>15 DEF AskRest
  <2>4. QED
    BY <1>15, <2>1, <2>2, <2>3 DEF AskRest, CalmIsTrue
<1>4. CASE AskAll
  <2>1. client'.at = "heading" /\ client'.etag = source /\ client'.again = client.again
    BY <1>4 DEF AskAll, Heads, DownloadOK
  <2>2. client'.calm = client.calm /\ part' = part /\ source' = source
    BY <1>4 DEF AskAll, Heads, DownloadOK
  <2>3. client.at = "asking"
    BY <1>4 DEF AskAll, Heads
  <2>4. QED
    BY <2>1, <2>2, <2>3 DEF CalmIsTrue
<1>5. CASE WriteMeta
  <2>1. client.at = "heading" /\ client'.at = "writing" /\ source' = source
    BY <1>5 DEF WriteMeta, Goes, DownloadOK
  <2>2. /\ client'.etag = client.etag /\ client'.again = client.again
        /\ client'.calm = client.calm
    BY <1>5 DEF WriteMeta, Goes, DownloadOK
  <2>3. part = 0 => disk'[part'] = <<>>
    BY <1>5 DEF WriteMeta, DownloadOK
  <2>4. QED
    BY <2>1, <2>2, <2>3 DEF CalmIsTrue
<1>6. CASE WriteChunk
  <2>1. client' = client /\ source' = source /\ part' = part /\ client.at = "writing"
    BY <1>6 DEF WriteChunk
  <2>2. disk[part] \in Seq(Version) /\ disk'[part] = Append(disk[part], source)
    BY <1>6 DEF WriteChunk, DownloadOK
  <2>3. client.calm /\ client.again =>
          \A i \in 1 .. Len(disk'[part]) : disk'[part][i] = source
    BY <2>1, <2>2 DEF CalmIsTrue, DownloadOK
  <2>4. QED
    BY <2>1, <2>3 DEF CalmIsTrue
<1>7. CASE WriteEnds
  <2>1. part \in 1 .. Len(disk) /\ ExistingLen = Len(disk[part])
    BY <1>7 DEF WriteEnds, DownloadOK, ExistingLen
  <2>2. client.calm => client.etag = source
    BY <1>7 DEF WriteEnds, CalmIsTrue
  <2>3. Len(disk[part]) \in Nat /\ Size[source] \in Nat
    BY <2>1 DEF DownloadOK
  <2>4. client.calm => client'.at = "checking" /\ Len(disk[part]) = Size[source]
    BY <1>7, <2>1, <2>2, <2>3 DEF WriteEnds, Goes, DownloadOK
  <2>5. /\ client'.etag = client.etag /\ client'.again = client.again
        /\ client'.calm = client.calm
    BY <1>7 DEF WriteEnds, Goes, DownloadOK
  <2>6. UNCHANGED <<source, disk, part>> /\ client.at = "writing"
    BY <1>7 DEF WriteEnds
  <2>7. QED
    BY <2>2, <2>4, <2>5, <2>6 DEF CalmIsTrue
<1>8. CASE Verify
  <2>1. CASE Verified
    <3>1. client' = [client EXCEPT !.at = "linking"] /\ client.at = "checking"
      BY <1>8, <2>1 DEF Verify, Goes
    <3>2. /\ client'.at = "linking" /\ client'.etag = client.etag
          /\ client'.calm = client.calm
      BY <3>1 DEF DownloadOK
    <3>3. QED
      BY <1>8, <3>1, <3>2 DEF Verify, CalmIsTrue
  <2>2. CASE ~Verified
    <3>1. client.calm => ~client.again
      BY <1>8, <2>2, SecondCopyIsVerified DEF Verify
    <3>2. QED
      BY <1>8, <2>2, <3>1, FirstRetry DEF Verify
  <2>3. QED
    BY <2>1, <2>2
<1>9. CASE Link BY <1>9 DEF Link, Goes, CalmIsTrue, DownloadOK
<1>10. CASE RemovePartial BY <1>10 DEF RemovePartial, Resting, CalmIsTrue
<1>11. CASE Lose BY <1>11 DEF Lose, Resting, CalmIsTrue
<1>12. ASSUME NEW v \in Version, Change(v) PROVE CalmIsTrue'
  BY <1>12 DEF Change, CalmIsTrue, DownloadOK
<1>13. CASE UNCHANGED downloadVars BY <1>13 DEF downloadVars, CalmIsTrue
<1>14. QED
  BY <1>1, <1>3, <1>15, <1>4, <1>5, <1>6, <1>7, <1>8, <1>9, <1>10, <1>11, <1>12, <1>13
  DEF DownloadNext

(* With nothing downloaded nothing is published.                           *)
LEMMA DownloadInitially ==
  Size \in [Version -> Nat] /\ DownloadInit
    => DownloadOK /\ PartIsOwn /\ PublishedStays /\ CalmIsTrue
<1> SUFFICES ASSUME Size \in [Version -> Nat], DownloadInit
             PROVE  DownloadOK /\ PartIsOwn /\ PublishedStays /\ CalmIsTrue
  OBVIOUS
<1>1. DownloadOK
  BY DEF DownloadInit, Resting, DownloadOK, DownloadSteps
<1>2. PartIsOwn /\ PublishedStays
  BY DEF DownloadInit, Resting, PartIsOwn, PublishedStays
<1>3. CalmIsTrue
  BY DEF DownloadInit, Resting, CalmIsTrue
<1>4. QED
  BY <1>1, <1>2, <1>3

(* Published files are whole and stay what they are, as long as a partial  *)
(* download that was published is removed before anything else happens.    *)
THEOREM PublishedFilesStay ==
  Size \in [Version -> Nat] /\ ~RemovalFails /\ DownloadSpec => []PublishedStays
<1> SUFFICES ASSUME Size \in [Version -> Nat], ~RemovalFails PROVE DownloadSpec => []PublishedStays
  OBVIOUS
<1>1. DownloadInit => DownloadOK /\ PartIsOwn /\ PublishedStays
  BY DownloadInitially
<1>2. DownloadOK /\ PartIsOwn /\ PublishedStays /\ [DownloadNext]_downloadVars
        => DownloadOK' /\ PartIsOwn' /\ PublishedStays'
  BY DownloadTypeInductive, OwnInductive
<1>3. QED
  BY <1>1, <1>2, PTL DEF DownloadSpec

(* Only a change of the source during an attempt can make it fail by its   *)
(* own judgement, whatever was left behind by the ones before.             *)
THEOREM CalmAttemptsSucceed == Size \in [Version -> Nat] /\ DownloadSpec => []CalmAttemptSucceeds
<1> SUFFICES ASSUME Size \in [Version -> Nat] PROVE DownloadSpec => []CalmAttemptSucceeds
  OBVIOUS
<1>1. DownloadInit => DownloadOK /\ CalmIsTrue
  BY DownloadInitially
<1>2. DownloadOK /\ CalmIsTrue /\ [DownloadNext]_downloadVars => DownloadOK' /\ CalmIsTrue'
  BY DownloadTypeInductive, CalmInductive
<1>3. CalmIsTrue => CalmAttemptSucceeds
  BY DEF CalmIsTrue, CalmAttemptSucceeds
<1>4. QED
  BY <1>1, <1>2, <1>3, PTL DEF DownloadSpec

-----------------------------------------------------------------------------
(* Payloads and their blobs (BlobCache) *)

Place == {"rest", "looking", "fetching", "creating", "writing", "recording"}

(* The contents of files.                                                  *)
Contents == Seq(0 .. Length)

Request ==
  [at : Place, kind : {"resolve", "capture"}, on : Computer, from : Computer, data : Contents,
   file : Nat, pos : Nat]

Requests == task \in [Task -> Request]

Files ==
  /\ inode \in Seq(Contents)
  /\ blob \in [Computer -> Nat] /\ \A n \in Computer : blob[n] <= Len(inode)
  /\ temp \in [Computer -> Nat] /\ \A n \in Computer : temp[n] <= Len(inode)
  /\ \A c \in Task : task[c].at = "writing" => task[c].file \in 1 .. Len(inode)

BlobTypeOK == Requests /\ Files /\ entriesOf \in [Computer -> SUBSET Computer]

(* The same request at another place.                                      *)
Moved(q, r) ==
  /\ q.kind = r.kind /\ q.on = r.on /\ q.from = r.from /\ q.data = r.data
  /\ q.file = r.file /\ q.pos = r.pos

(* The content is one that a file can have.                                *)
LEMMA BytesFields ==
  /\ Bytes \in Contents /\ Len(Bytes) = Length /\ \A k \in 1 .. Length : Bytes[k] = k
  /\ <<>> \in Contents
BY BlobAssumption DEF Bytes, Contents

(* What a request is.                                                      *)
LEMMA RequestFields ==
  ASSUME NEW r \in Request
  PROVE  /\ r.at \in Place /\ r.kind \in {"resolve", "capture"} /\ r.on \in Computer
         /\ r.from \in Computer /\ r.data \in Contents /\ r.file \in Nat /\ r.pos \in Nat
BY DEF Request

(* A request at another place.                                             *)
LEMMA RequestMoved ==
  ASSUME NEW r \in Request, NEW s \in Place
  PROVE  LET q == [r EXCEPT !.at = s] IN q \in Request /\ q.at = s /\ Moved(q, r)
BY DEF Request, Moved

(* A request that has got its data.                                        *)
LEMMA RequestServed ==
  ASSUME NEW r \in Request, NEW x \in Contents
  PROVE  LET q == [r EXCEPT !.at = "looking", !.data = x] IN
         q \in Request /\ q.at = "looking" /\ q.data = x /\ q.on = r.on
BY DEF Request, Place

(* A request that has opened a file.                                       *)
LEMMA RequestOpened ==
  ASSUME NEW r \in Request, NEW f \in Nat
  PROVE  LET q == [r EXCEPT !.at = "writing", !.file = f, !.pos = 0] IN
         /\ q \in Request /\ q.at = "writing" /\ q.file = f /\ q.pos = 0
         /\ q.on = r.on /\ q.data = r.data /\ q.kind = r.kind
BY DEF Request, Place

(* A request that has written a piece.                                     *)
LEMMA RequestWrote ==
  ASSUME NEW r \in Request
  PROVE  LET q == [r EXCEPT !.pos = @ + 1] IN
         /\ q \in Request /\ q.pos = r.pos + 1 /\ q.at = r.at /\ q.on = r.on
         /\ q.data = r.data /\ q.file = r.file /\ q.kind = r.kind
BY DEF Request

(* A new request that captures the content.                                *)
LEMMA RequestToCapture ==
  ASSUME NEW n \in Computer
  PROVE  LET r == [NoTask(n) EXCEPT !.at = "looking", !.kind = "capture", !.data = Bytes] IN
         NoTask(n) \in Request /\ r \in Request /\ r.at = "looking" /\ r.data = Bytes
<1>1. NoTask(n) \in Request
  BY BytesFields DEF NoTask, Request, Place
<1>2. QED
  BY <1>1, BytesFields DEF Request, Place

(* A new request that fetches it.                                          *)
LEMMA RequestToFetch ==
  ASSUME NEW n \in Computer, NEW e \in Computer
  PROVE  LET r == [NoTask(n) EXCEPT !.at = "fetching", !.from = e] IN
         r \in Request /\ r.at = "fetching"
BY RequestToCapture DEF Request, Place

(* Only request c has become another, r.                                   *)
Becomes(c, r) == Requests' /\ task'[c] = r /\ \A d \in Task \ {c} : task'[d] = task[d]

(* What assigning one request does to all.                                 *)
LEMMA TaskUpdate ==
  ASSUME Requests, NEW c \in Task, NEW r \in Request, task' = [task EXCEPT ![c] = r]
  PROVE  Becomes(c, r)
BY DEF Requests, Becomes

(* What a step to another place does to all requests.                      *)
LEMMA TaskStep ==
  ASSUME Requests, NEW c \in Task, NEW s \in Place, TaskGoes(c, s)
  PROVE  /\ Becomes(c, [task[c] EXCEPT !.at = s])
         /\ task'[c].at = s /\ Moved(task'[c], task[c])
<1> DEFINE r == [task[c] EXCEPT !.at = s]
<1>1. task[c] \in Request
  BY DEF Requests
<1>2. r \in Request /\ r.at = s /\ Moved(r, task[c])
  BY <1>1, RequestMoved
<1>3. task' = [task EXCEPT ![c] = r]
  BY DEF TaskGoes
<1> HIDE DEF r
<1>4. Becomes(c, r)
  BY <1>2, <1>3, TaskUpdate
<1>5. QED
  BY <1>2, <1>4 DEF Becomes, r

(* What each action does to the requests.                                  *)
LEMMA TaskChanges ==
  ASSUME BlobTypeOK, NEW c \in Task
  PROVE  /\ FetchBlob(c) =>
              \E m \in Computer, r \in Request :
                /\ blob[m] # 0 /\ Becomes(c, r)
                /\ r.at = "looking" /\ r.data = inode[blob[m]]
         /\ CreateTemp(c) =>
              \E r \in Request :
                /\ Becomes(c, r) /\ r.at = "writing" /\ r.on = task[c].on
                /\ r.data = task[c].data /\ r.pos = 0
                /\ r.file = temp'[task[c].on] /\ r.file \in 1 .. Len(inode')
         /\ WriteTemp(c) =>
              \E r \in Request :
                /\ Becomes(c, r) /\ r.at = "writing" /\ r.on = task[c].on
                /\ r.data = task[c].data /\ r.file = task[c].file /\ r.pos = task[c].pos + 1
         /\ \A n \in Computer :
              CaptureBlob(c, n) =>
                \E r \in Request : Becomes(c, r) /\ r.at = "looking" /\ r.data = Bytes
         /\ \A n, e \in Computer :
              Resolve(c, n, e) =>
                \/ UNCHANGED task
                \/ \E r \in Request : Becomes(c, r) /\ r.at = "fetching"
<1>0. task[c] \in Request
  BY DEF BlobTypeOK, Requests
<1>1. ASSUME FetchBlob(c)
      PROVE  \E m \in Computer, r \in Request :
                /\ blob[m] # 0 /\ Becomes(c, r)
                /\ r.at = "looking" /\ r.data = inode[blob[m]]
  <2>1. PICK m \in Computer : Serve(m, c)
    BY <1>0, <1>1, RequestFields DEF FetchBlob, Sources, Holders
  <2> DEFINE r == [task[c] EXCEPT !.at = "looking", !.data = inode[blob[m]]]
  <2>2. task' = [task EXCEPT ![c] = r] /\ blob[m] # 0
    BY <2>1 DEF Serve
  <2>3. inode[blob[m]] \in Contents
    BY <2>2 DEF BlobTypeOK, Files
  <2>4. r \in Request /\ r.at = "looking" /\ r.data = inode[blob[m]]
    BY <1>0, <2>3, RequestServed
  <2> HIDE DEF r
  <2>5. Becomes(c, r)
    BY <2>2, <2>4, TaskUpdate DEF BlobTypeOK
  <2>6. QED
    BY <2>2, <2>4, <2>5
<1>2. ASSUME CreateTemp(c)
      PROVE  \E r \in Request :
                /\ Becomes(c, r) /\ r.at = "writing" /\ r.on = task[c].on
                /\ r.data = task[c].data /\ r.pos = 0
                /\ r.file = temp'[task[c].on] /\ r.file \in 1 .. Len(inode')
  <2> DEFINE n == task[c].on
             f == IF temp[n] # 0 THEN temp[n] ELSE Len(inode) + 1
             r == [task[c] EXCEPT !.at = "writing", !.file = f, !.pos = 0]
  <2>1. task' = [task EXCEPT ![c] = r]
    BY <1>2 DEF CreateTemp, OpenTemp
  <2>2. n \in Computer /\ f \in Nat
    BY <1>0, RequestFields DEF BlobTypeOK, Files
  <2>3. temp'[n] = f /\ f \in 1 .. Len(inode')
    <3>1. CASE temp[n] # 0
      <4>1. Len(inode') = Len(inode) /\ temp' = temp
        BY <1>2, <3>1 DEF CreateTemp, OpenTemp, BlobTypeOK, Files
      <4>2. QED
        BY <2>2, <3>1, <4>1 DEF BlobTypeOK, Files
    <3>2. CASE temp[n] = 0
      <4>1. inode' = Append(inode, <<>>) /\ temp' = [temp EXCEPT ![n] = Len(inode) + 1]
        BY <1>2, <3>2 DEF CreateTemp, OpenTemp
      <4>2. Len(inode') = Len(inode) + 1 /\ Len(inode) \in Nat
        BY <4>1, BytesFields DEF BlobTypeOK, Files
      <4>3. QED
        BY <2>2, <3>2, <4>1, <4>2 DEF BlobTypeOK, Files
    <3>3. QED
      BY <3>1, <3>2
  <2> HIDE DEF f
  <2>4. /\ r \in Request /\ r.at = "writing" /\ r.file = f /\ r.pos = 0
        /\ r.on = task[c].on /\ r.data = task[c].data
    BY <1>0, <2>2, RequestOpened
  <2> HIDE DEF r, n
  <2>5. Becomes(c, r)
    BY <2>1, <2>4, TaskUpdate DEF BlobTypeOK
  <2>6. QED
    BY <2>3, <2>4, <2>5 DEF n
<1>3. ASSUME WriteTemp(c)
      PROVE  \E r \in Request :
                /\ Becomes(c, r) /\ r.at = "writing" /\ r.on = task[c].on
                /\ r.data = task[c].data /\ r.file = task[c].file /\ r.pos = task[c].pos + 1
  <2> DEFINE r == [task[c] EXCEPT !.pos = @ + 1]
  <2>1. task' = [task EXCEPT ![c] = r] /\ task[c].at = "writing"
    BY <1>3 DEF WriteTemp
  <2>2. /\ r \in Request /\ r.pos = task[c].pos + 1 /\ r.at = task[c].at /\ r.on = task[c].on
        /\ r.data = task[c].data /\ r.file = task[c].file
    BY <1>0, RequestWrote
  <2> HIDE DEF r
  <2>3. Becomes(c, r)
    BY <2>1, <2>2, TaskUpdate DEF BlobTypeOK
  <2>4. QED
    BY <2>1, <2>2, <2>3
<1>4. ASSUME NEW n \in Computer, CaptureBlob(c, n)
      PROVE  \E r \in Request : Becomes(c, r) /\ r.at = "looking" /\ r.data = Bytes
  <2> DEFINE r == [NoTask(n) EXCEPT !.at = "looking", !.kind = "capture", !.data = Bytes]
  <2>1. task' = [task EXCEPT ![c] = r]
    BY <1>4 DEF CaptureBlob
  <2>2. r \in Request /\ r.at = "looking" /\ r.data = Bytes
    BY RequestToCapture
  <2> HIDE DEF r
  <2>3. QED
    BY <2>1, <2>2, TaskUpdate DEF BlobTypeOK
<1>5. ASSUME NEW n \in Computer, NEW e \in Computer, Resolve(c, n, e)
      PROVE  UNCHANGED task \/ \E r \in Request : Becomes(c, r) /\ r.at = "fetching"
  <2>1. CASE blob[n] # 0
    BY <1>5, <2>1 DEF Resolve
  <2>2. CASE blob[n] = 0
    <3> DEFINE r == [NoTask(n) EXCEPT !.at = "fetching", !.from = e]
    <3>1. task' = [task EXCEPT ![c] = r]
      BY <1>5, <2>2 DEF Resolve
    <3>2. r \in Request /\ r.at = "fetching"
      BY RequestToFetch
    <3> HIDE DEF r
    <3>3. QED
      BY <3>1, <3>2, TaskUpdate DEF BlobTypeOK
  <2>3. QED
    BY <2>1, <2>2
<1>6. QED
  BY <1>1, <1>2, <1>3, <1>4, <1>5

(* The process stops: all of its requests rest.                            *)
LEMMA TasksStop ==
  ASSUME Requests, NEW n \in Computer, ComputerStops(n)
  PROVE  /\ Requests'
         /\ \A c \in Task : task'[c].at = "rest" \/ task'[c] = task[c]
<1>1. \A c \in Task : [task[c] EXCEPT !.at = "rest"] \in Request
                      /\ [task[c] EXCEPT !.at = "rest"].at = "rest"
  BY RequestMoved DEF Requests, Place
<1>2. QED
  BY <1>1 DEF ComputerStops, Requests

(* A new file, or other contents for one, keep the files.                  *)
LEMMA FileChange ==
  ASSUME Files, NEW f \in 1 .. Len(inode), NEW x \in Contents,
         inode' = [inode EXCEPT ![f] = x]
  PROVE  /\ inode' \in Seq(Contents) /\ Len(inode') = Len(inode) /\ inode'[f] = x
         /\ \A g \in 1 .. Len(inode) \ {f} : inode'[g] = inode[g]
BY DEF Files

(* Opening the temporary file leaves an empty one with that name, and all  *)
(* others as they are.                                                     *)
LEMMA TempOpened ==
  ASSUME BlobTypeOK, NEW c \in Task, CreateTemp(c)
  PROVE  LET n == task[c].on IN
         /\ n \in Computer
         /\ inode' \in Seq(Contents) /\ Len(inode') >= Len(inode)
         /\ temp' \in [Computer -> Nat] /\ temp'[n] \in 1 .. Len(inode')
         /\ \A m \in Computer \ {n} : temp'[m] = temp[m]
         /\ temp[n] # 0 => temp'[n] = temp[n]
         /\ temp[n] = 0 => temp'[n] = Len(inode) + 1
         /\ inode'[temp'[n]] = <<>>
         /\ \A g \in 1 .. Len(inode) : g # temp'[n] => inode'[g] = inode[g]
<1> DEFINE n == task[c].on
<1>1. n \in Computer
  BY RequestFields DEF BlobTypeOK, Requests
<1>2. CASE temp[n] # 0
  <2>1. inode' = [inode EXCEPT ![temp[n]] = <<>>] /\ temp' = temp
    BY <1>2 DEF CreateTemp, OpenTemp
  <2>2. temp[n] \in 1 .. Len(inode)
    BY <1>1, <1>2 DEF BlobTypeOK, Files
  <2>3. /\ inode' \in Seq(Contents) /\ Len(inode') = Len(inode) /\ inode'[temp[n]] = <<>>
        /\ \A g \in 1 .. Len(inode) \ {temp[n]} : inode'[g] = inode[g]
    BY <2>1, <2>2, BytesFields, FileChange DEF BlobTypeOK
  <2>4. QED
    BY <1>1, <1>2, <2>1, <2>2, <2>3 DEF BlobTypeOK, Files
<1>3. CASE temp[n] = 0
  <2>1. inode' = Append(inode, <<>>) /\ temp' = [temp EXCEPT ![n] = Len(inode) + 1]
    BY <1>3 DEF CreateTemp, OpenTemp
  <2>2. /\ inode' \in Seq(Contents) /\ Len(inode') = Len(inode) + 1
        /\ inode'[Len(inode) + 1] = <<>>
        /\ \A g \in 1 .. Len(inode) : inode'[g] = inode[g]
    BY <2>1, BytesFields DEF BlobTypeOK, Files
  <2>3. Len(inode) \in Nat
    BY DEF BlobTypeOK, Files
  <2>4. /\ temp' \in [Computer -> Nat] /\ temp'[n] = Len(inode) + 1
        /\ \A m \in Computer \ {n} : temp'[m] = temp[m]
    BY <1>1, <2>1, <2>3 DEF BlobTypeOK, Files
  <2> HIDE DEF n
  <2>5. QED
    BY <1>1, <1>3, <2>2, <2>3, <2>4 DEF n
<1>4. QED
  BY <1>2, <1>3

(* A piece at the position its writer has come to, in a file of its own.   *)
LEMMA PieceWritten ==
  ASSUME BlobTypeOK, NEW c \in Task, WriteTemp(c)
  PROVE  LET f == task[c].file
             p == task[c].pos + 1
         IN /\ f \in 1 .. Len(inode) /\ p \in 1 .. Len(task[c].data) /\ task[c].at = "writing"
            /\ inode' \in Seq(Contents) /\ Len(inode') = Len(inode)
            /\ \A g \in 1 .. Len(inode) \ {f} : inode'[g] = inode[g]
            /\ Len(inode[f]) = task[c].pos =>
                 /\ Len(inode'[f]) = p /\ inode'[f][p] = task[c].data[p]
                 /\ \A k \in 1 .. task[c].pos : inode'[f][k] = inode[f][k]
<1> DEFINE f == task[c].file
           p == task[c].pos + 1
           data == task[c].data
           was == inode[f]
           size == IF p > Len(was) THEN p ELSE Len(was)
           grown == [k \in 1 .. size |->
                     IF k = p THEN data[p] ELSE IF k <= Len(was) THEN was[k] ELSE 0]
<1>1. task[c] \in Request /\ task[c].at = "writing" /\ task[c].pos < Len(data)
  BY DEF WriteTemp, BlobTypeOK, Requests
<1>2. f \in 1 .. Len(inode) /\ data \in Contents /\ task[c].pos \in Nat
  BY <1>1, RequestFields DEF BlobTypeOK, Files
<1>3. was \in Contents
  BY <1>2 DEF BlobTypeOK, Files
<1>4. inode' = [inode EXCEPT ![f] = grown]
  BY DEF WriteTemp
<1> HIDE DEF was, data, f
<1>5. p \in 1 .. Len(data) /\ data[p] \in 0 .. Length /\ 0 \in 0 .. Length
  <2>1. Len(data) \in Nat /\ \A k \in 1 .. Len(data) : data[k] \in 0 .. Length
    BY <1>2, BlobAssumption DEF Contents
  <2>2. p \in 1 .. Len(data)
    BY <1>1, <1>2, <2>1
  <2>3. QED
    BY <2>1, <2>2, BlobAssumption
<1>6. size \in Nat /\ size >= p /\ (Len(was) = task[c].pos => size = p)
  BY <1>2, <1>3 DEF Contents
<1>7. \A k \in 1 .. Len(was) : was[k] \in 0 .. Length
  BY <1>3, BlobAssumption DEF Contents
<1>8. Len(was) \in Nat
  BY <1>3 DEF Contents
<1> HIDE DEF size
<1>9. grown \in Contents /\ Len(grown) = size
  <2>1. grown \in [1 .. size -> 0 .. Length]
    BY <1>5, <1>7, <1>8, <1>6
  <2>2. QED
    BY <2>1, <1>6 DEF Contents
<1>10. Len(was) = task[c].pos =>
         grown[p] = data[p] /\ \A k \in 1 .. task[c].pos : grown[k] = was[k]
  BY <1>2, <1>6
<1> HIDE DEF grown
<1>11. /\ inode' \in Seq(Contents) /\ Len(inode') = Len(inode) /\ inode'[f] = grown
       /\ \A g \in 1 .. Len(inode) \ {f} : inode'[g] = inode[g]
  BY <1>2, <1>4, <1>9, FileChange DEF BlobTypeOK
<1>12. QED
  BY <1>1, <1>2, <1>5, <1>6, <1>9, <1>10, <1>11 DEF f, data, was

(* What a save does.                                                       *)
LEMMA SavedSteps ==
  ASSUME Requests, NEW c \in Task, Saved(c)
  PROVE  /\ Requests' /\ \A d \in Task \ {c} : task'[d] = task[d]
         /\ Moved(task'[c], task[c]) /\ task'[c].at \in {"recording", "rest"}
         /\ handed' \subseteq handed \cup {task[c].data}
BY TaskStep DEF Saved, Rests, HandOut, Becomes, Place

(* What the other steps do to the requests: they move at most one.         *)
LEMMA TaskMoves ==
  ASSUME Requests, NEW c \in Task
  PROVE  /\ LookForBlob(c) =>
              /\ Requests' /\ \A d \in Task \ {c} : task'[d] = task[d]
              /\ Moved(task'[c], task[c])
              /\ \/ task'[c].at \in {"recording", "rest"} /\ blob[task[c].on] # 0
                    /\ handed' \subseteq handed \cup {task[c].data}
                 \/ task'[c].at = "creating" /\ handed' = handed
         /\ RenameTemp(c) =>
              /\ Requests' /\ \A d \in Task \ {c} : task'[d] = task[d]
              /\ Moved(task'[c], task[c])
              /\ \/ /\ task'[c].at = "rest" /\ UNCHANGED <<blob, temp, handed>>
                 \/ /\ task'[c].at \in {"recording", "rest"} /\ temp[task[c].on] # 0
                    /\ handed' \subseteq handed \cup {task[c].data}
                    /\ blob' = [blob EXCEPT ![task[c].on] = temp[task[c].on]]
                    /\ temp' = [temp EXCEPT ![task[c].on] = 0]
         /\ RecordEntry(c) \/ TaskFails(c) =>
              /\ Requests' /\ \A d \in Task \ {c} : task'[d] = task[d]
              /\ Moved(task'[c], task[c]) /\ task'[c].at = "rest"
<1>1. /\ TaskGoes(c, "creating") => /\ Requests' /\ \A d \in Task \ {c} : task'[d] = task[d]
                                /\ Moved(task'[c], task[c]) /\ task'[c].at = "creating"
      /\ Rests(c) => /\ Requests' /\ \A d \in Task \ {c} : task'[d] = task[d]
                     /\ Moved(task'[c], task[c]) /\ task'[c].at = "rest"
  BY TaskStep DEF Rests, Becomes, Place
<1>2. QED
  BY <1>1, SavedSteps DEF LookForBlob, RenameTemp, RecordEntry, TaskFails

(* Every step keeps the types.                                             *)
LEMMA BlobTypeInductive == BlobTypeOK /\ [BlobNext]_blobVars => BlobTypeOK'
<1> SUFFICES ASSUME BlobTypeOK, [BlobNext]_blobVars PROVE BlobTypeOK'
  OBVIOUS
<1>0. Requests /\ \A c \in Task : task[c] \in Request
  BY DEF BlobTypeOK, Requests
<1>1. ASSUME NEW c \in Task, NEW r, Becomes(c, r), r.at # "writing",
             UNCHANGED <<inode, blob, temp, entriesOf>>
      PROVE  BlobTypeOK'
  BY <1>1 DEF Becomes, BlobTypeOK, Files
<1>2. ASSUME NEW c \in Task, FetchBlob(c) PROVE BlobTypeOK'
  BY <1>1, <1>2, TaskChanges DEF FetchBlob
<1>3. ASSUME NEW c \in Task, LookForBlob(c) PROVE BlobTypeOK'
  BY <1>0, <1>3, TaskMoves DEF LookForBlob, BlobTypeOK, Files
<1>4. ASSUME NEW c \in Task, CreateTemp(c) PROVE BlobTypeOK'
  <2>1. PICK r \in Request : Becomes(c, r) /\ r.file \in 1 .. Len(inode')
    BY <1>4, TaskChanges
  <2>2. /\ inode' \in Seq(Contents) /\ Len(inode') >= Len(inode) /\ temp' \in [Computer -> Nat]
        /\ \A m \in Computer : temp'[m] = temp[m] \/ temp'[m] \in 1 .. Len(inode')
        /\ Len(inode) \in Nat /\ Len(inode') \in Nat
    BY <1>4, TempOpened DEF BlobTypeOK, Files
  <2>3. blob' = blob /\ entriesOf' = entriesOf
    BY <1>4 DEF CreateTemp
  <2>4. \A n \in Computer : temp'[n] <= Len(inode') /\ blob'[n] <= Len(inode')
    BY <2>2, <2>3 DEF BlobTypeOK, Files
  <2>5. \A d \in Task : task'[d].at = "writing" => task'[d].file \in 1 .. Len(inode')
    BY <2>1, <2>2 DEF Becomes, BlobTypeOK, Files
  <2>6. QED
    BY <2>1, <2>2, <2>3, <2>4, <2>5 DEF Becomes, BlobTypeOK, Files
<1>5. ASSUME NEW c \in Task, WriteTemp(c) PROVE BlobTypeOK'
  <2>1. PICK r \in Request : Becomes(c, r) /\ r.file = task[c].file
    BY <1>5, TaskChanges
  <2>2. /\ inode' \in Seq(Contents) /\ Len(inode') = Len(inode)
        /\ task[c].file \in 1 .. Len(inode)
    BY <1>5, PieceWritten
  <2>3. QED
    BY <1>5, <2>1, <2>2 DEF WriteTemp, Becomes, BlobTypeOK, Files
<1>6. ASSUME NEW c \in Task, RenameTemp(c) PROVE BlobTypeOK'
  <2>1. /\ Requests' /\ (\A d \in Task \ {c} : task'[d] = task[d]) /\ task'[c].at # "writing"
        /\ \/ UNCHANGED <<blob, temp>>
           \/ /\ blob' = [blob EXCEPT ![task[c].on] = temp[task[c].on]]
              /\ temp' = [temp EXCEPT ![task[c].on] = 0]
    BY <1>0, <1>6, TaskMoves
  <2>2. task[c].on \in Computer /\ Len(inode) \in Nat
    BY <1>0, RequestFields DEF BlobTypeOK, Files
  <2>3. /\ blob' \in [Computer -> Nat] /\ \A n \in Computer : blob'[n] <= Len(inode)
        /\ temp' \in [Computer -> Nat] /\ \A n \in Computer : temp'[n] <= Len(inode)
    <3>1. CASE UNCHANGED <<blob, temp>>
      BY <3>1 DEF BlobTypeOK, Files
    <3>2. ASSUME blob' = [blob EXCEPT ![task[c].on] = temp[task[c].on]],
                 temp' = [temp EXCEPT ![task[c].on] = 0]
          PROVE  /\ blob' \in [Computer -> Nat] /\ \A n \in Computer : blob'[n] <= Len(inode)
                 /\ temp' \in [Computer -> Nat] /\ \A n \in Computer : temp'[n] <= Len(inode)
      BY <2>2, <3>2 DEF BlobTypeOK, Files
    <3>3. QED
      BY <2>1, <3>1, <3>2
  <2>4. QED
    BY <1>6, <2>1, <2>3 DEF RenameTemp, BlobTypeOK, Files
<1>7. ASSUME NEW c \in Task, RecordEntry(c) PROVE BlobTypeOK'
  <2>1. task[c].on \in Computer
    BY <1>0, RequestFields
  <2>2. QED
    BY <1>0, <1>7, <2>1, TaskMoves DEF RecordEntry, BlobTypeOK, Files
<1>8. ASSUME NEW c \in Task, TaskFails(c) PROVE BlobTypeOK'
  BY <1>0, <1>8, TaskMoves DEF TaskFails, BlobTypeOK, Files
<1>9. ASSUME NEW c \in Task, NEW n \in Computer, CaptureBlob(c, n) PROVE BlobTypeOK'
  BY <1>1, <1>9, TaskChanges DEF CaptureBlob
<1>10. ASSUME NEW c \in Task, NEW n \in Computer, NEW e \in Computer, Resolve(c, n, e)
       PROVE  BlobTypeOK'
  <2>1. CASE UNCHANGED task
    BY <1>10, <2>1 DEF Resolve, BlobTypeOK, Files, Requests
  <2>2. CASE \E r \in Request : Becomes(c, r) /\ r.at = "fetching"
    BY <1>1, <1>10, <2>2 DEF Resolve
  <2>3. QED
    BY <1>10, <2>1, <2>2, TaskChanges
<1>11. ASSUME NEW n \in Computer, NEW e \in Computer, DeleteEntry(n, e) \/ SendEntry(n, e)
       PROVE  BlobTypeOK'
  <2>1. entriesOf' \in [Computer -> SUBSET Computer]
    BY <1>11 DEF DeleteEntry, SendEntry, PushTo, BlobTypeOK
  <2>2. QED
    BY <1>11, <2>1 DEF DeleteEntry, SendEntry, BlobTypeOK, Files, Requests
<1>12. ASSUME NEW n \in Computer, ComputerStops(n) PROVE BlobTypeOK'
  <2>1. Requests' /\ \A c \in Task : task'[c].at = "writing" => task'[c] = task[c]
    BY <1>0, <1>12, TasksStop
  <2>2. QED
    BY <1>12, <2>1 DEF ComputerStops, BlobTypeOK, Files
<1>13. CASE UNCHANGED blobVars
  BY <1>13 DEF blobVars, BlobTypeOK, Files, Requests
<1>14. QED
  BY <1>2, <1>3, <1>4, <1>5, <1>6, <1>7, <1>8, <1>9, <1>10, <1>11, <1>12, <1>13 DEF BlobNext

(* The types are right at the start.                                       *)
LEMMA BlobTypeInitially == BlobInit => BlobTypeOK
<1> SUFFICES ASSUME BlobInit PROVE BlobTypeOK
  OBVIOUS
<1>1. PICK n \in Computer : task = [c \in Task |-> NoTask(n)]
  BY DEF BlobInit
<1>2. NoTask(n) \in Request /\ NoTask(n).at = "rest"
  BY RequestToCapture DEF NoTask
<1>3. Requests /\ \A c \in Task : task[c].at = "rest"
  BY <1>1, <1>2 DEF Requests
<1>4. QED
  BY <1>3 DEF BlobInit, BlobTypeOK, Files

(* A temporary file is no other file's name.                               *)
TempsAreOwn ==
  \A n, m \in Computer :
    temp[n] # 0 => temp[n] # blob[m] /\ (n # m => temp[n] # temp[m])

(* What is about to be kept is the content.                                *)
DataIsContent ==
  \A c \in Task : task[c].at \in {"looking", "creating", "writing"} => task[c].data = Bytes

(* Who writes on a computer does so alone.                                 *)
WritersAreAlone ==
  \A c, d \in Task : Writing(c) /\ Writing(d) /\ task[c].on = task[d].on => c = d

(* The temporary file holds what its writer has written.                   *)
WrittenIsContent ==
  \A c \in Task : task[c].at = "writing" =>
    /\ task[c].file = temp[task[c].on] /\ task[c].pos <= Length
    /\ Len(inode[task[c].file]) = task[c].pos
    /\ \A k \in 1 .. task[c].pos : inode[task[c].file][k] = k

BlobInv ==
  BlobTypeOK /\ BlobsAreWhole /\ TempsAreOwn /\ DataIsContent /\ WritersAreAlone /\ WrittenIsContent

(* A step that leaves the files, and only moves or starts requests that do *)
(* not write, keeps the rest.                                              *)
LEMMA CalmStep ==
  ASSUME BlobInv, UNCHANGED <<inode, blob, temp>>, handed' \subseteq handed \cup {Bytes},
         NEW c \in Task, \A d \in Task \ {c} : task'[d] = task[d],
         task'[c].at \in {"rest", "fetching", "looking", "recording"},
         task'[c].at = "looking" => task'[c].data = Bytes
  PROVE  BlobsAreWhole' /\ TempsAreOwn' /\ DataIsContent' /\ WritersAreAlone' /\ WrittenIsContent'
BY DEF BlobInv, BlobsAreWhole, TempsAreOwn, DataIsContent, WritersAreAlone, WrittenIsContent,
  Writing

(* Every step keeps the blobs whole, and the writers out of each other's   *)
(* way, when each computer has one writer at a time.                       *)
LEMMA BlobInductive == ~Together /\ BlobInv /\ [BlobNext]_blobVars => BlobInv'
<1> SUFFICES ASSUME ~Together, BlobInv, [BlobNext]_blobVars PROVE BlobInv'
  OBVIOUS
<1>t. BlobTypeOK /\ BlobTypeOK'
  BY BlobTypeInductive DEF BlobInv
<1>r. Requests /\ \A c \in Task : task[c] \in Request /\ task[c].on \in Computer
  BY <1>t, RequestFields DEF BlobTypeOK, Requests
<1>2. ASSUME NEW c \in Task, FetchBlob(c) PROVE BlobInv'
  <2>1. PICK m \in Computer, r \in Request :
          blob[m] # 0 /\ Becomes(c, r) /\ r.at = "looking" /\ r.data = inode[blob[m]]
    BY <1>2, <1>t, TaskChanges
  <2>2. task'[c].data = Bytes /\ task'[c].at = "looking"
    BY <2>1 DEF BlobInv, BlobsAreWhole, Becomes
  <2>3. QED
    BY <1>2, <1>t, <2>1, <2>2, CalmStep DEF FetchBlob, Becomes, BlobInv
<1>3. ASSUME NEW c \in Task, LookForBlob(c) PROVE BlobInv'
  <2>1. /\ UNCHANGED <<inode, blob, temp>> /\ task[c].at = "looking" /\ task[c].data = Bytes
        /\ \A d \in Task : Writing(d) => task[d].on # task[c].on
    BY <1>3 DEF LookForBlob, BlobInv, DataIsContent
  <2>2. (\A d \in Task \ {c} : task'[d] = task[d]) /\ Moved(task'[c], task[c])
    BY <1>3, <1>r, TaskMoves
  <2>3. CASE task'[c].at \in {"recording", "rest"} /\ handed' \subseteq handed \cup {task[c].data}
    BY <1>t, <2>1, <2>2, <2>3, CalmStep DEF BlobInv
  <2>4. CASE task'[c].at = "creating" /\ handed' = handed
    <3>1. BlobsAreWhole' /\ TempsAreOwn'
      BY <2>1, <2>4 DEF BlobInv, BlobsAreWhole, TempsAreOwn
    <3>2. DataIsContent' /\ WritersAreAlone'
      BY <2>1, <2>2, <2>4 DEF BlobInv, DataIsContent, WritersAreAlone, Writing, Moved
    <3>3. WrittenIsContent'
      BY <2>1, <2>2, <2>4 DEF BlobInv, WrittenIsContent
    <3>4. QED
      BY <1>t, <3>1, <3>2, <3>3 DEF BlobInv
  <2>5. QED
    BY <1>3, <1>r, <2>3, <2>4, TaskMoves
<1>4. ASSUME NEW c \in Task, CreateTemp(c) PROVE BlobInv'
  <2> DEFINE n == task[c].on
  <2>1. /\ task[c].at = "creating" /\ blob' = blob /\ handed' = handed /\ n \in Computer
        /\ task[c].data = Bytes
    BY <1>4, <1>r DEF CreateTemp, BlobInv, DataIsContent
  <2>2. PICK r \in Request :
          /\ Becomes(c, r) /\ r.at = "writing" /\ r.on = n /\ r.data = task[c].data
          /\ r.pos = 0 /\ r.file = temp'[n] /\ r.file \in 1 .. Len(inode')
    BY <1>4, <1>t, TaskChanges
  <2>3. /\ Len(inode') >= Len(inode) /\ temp'[n] \in 1 .. Len(inode')
        /\ \A m \in Computer \ {n} : temp'[m] = temp[m]
        /\ temp[n] # 0 => temp'[n] = temp[n]
        /\ temp[n] = 0 => temp'[n] = Len(inode) + 1
        /\ inode'[temp'[n]] = <<>>
        /\ \A g \in 1 .. Len(inode) : g # temp'[n] => inode'[g] = inode[g]
    BY <1>4, <1>t, TempOpened
  <2> HIDE DEF n
  <2>4. \A m \in Computer : blob[m] # temp'[n] /\ blob[m] \in 0 .. Len(inode)
    BY <1>t, <2>1, <2>3 DEF BlobInv, TempsAreOwn, BlobTypeOK, Files
  <2>5. \A m \in Computer \ {n} : temp[m] # 0 => temp[m] # temp'[n] /\ temp[m] \in 1 .. Len(inode)
    BY <1>t, <2>1, <2>3 DEF BlobInv, TempsAreOwn, BlobTypeOK, Files
  <2>6. BlobsAreWhole' /\ TempsAreOwn'
    BY <2>1, <2>3, <2>4, <2>5 DEF BlobInv, BlobsAreWhole, TempsAreOwn
  <2>7. DataIsContent' /\ WritersAreAlone'
    BY <2>1, <2>2 DEF BlobInv, DataIsContent, WritersAreAlone, Writing, Becomes, n
  <2>8. ASSUME NEW d \in Task, task'[d].at = "writing", d # c
        PROVE  /\ task'[d] = task[d] /\ task[d].on \in Computer \ {n}
               /\ inode'[task[d].file] = inode[task[d].file]
               /\ temp'[task[d].on] = temp[task[d].on]
    <3>1. task'[d] = task[d]
      BY <2>2, <2>8 DEF Becomes
    <3>2. task[d].on \in Computer \ {n}
      BY <1>r, <2>1, <2>8, <3>1 DEF BlobInv, WritersAreAlone, Writing, n
    <3>3. task[d].file = temp[task[d].on] /\ task[d].file \in 1 .. Len(inode)
      BY <1>t, <2>8, <3>1 DEF BlobInv, WrittenIsContent, BlobTypeOK, Files
    <3>4. QED
      BY <2>3, <2>5, <3>1, <3>2, <3>3
  <2>9. WrittenIsContent'
    <3>1. task'[c] = r /\ \A k \in 1 .. 0 : inode'[r.file][k] = k
      BY <2>2 DEF Becomes
    <3>2. Length >= 0 /\ Len(<<>>) = 0
      BY BlobAssumption
    <3>3. QED
      BY <2>2, <2>3, <2>8, <3>1, <3>2 DEF BlobInv, WrittenIsContent
  <2>10. QED
    BY <1>t, <2>6, <2>7, <2>9 DEF BlobInv
<1>5. ASSUME NEW c \in Task, WriteTemp(c) PROVE BlobInv'
  <2> DEFINE n == task[c].on
             f == task[c].file
             p == task[c].pos + 1
  <2>1. /\ blob' = blob /\ temp' = temp /\ handed' = handed /\ task[c].at = "writing"
        /\ task[c].data = Bytes /\ n \in Computer /\ f = temp[n] /\ Len(inode[f]) = task[c].pos
        /\ \A k \in 1 .. task[c].pos : inode[f][k] = k
    BY <1>5, <1>r DEF WriteTemp, BlobInv, DataIsContent, WrittenIsContent
  <2>2. PICK r \in Request :
          /\ Becomes(c, r) /\ r.at = "writing" /\ r.on = n
          /\ r.data = task[c].data /\ r.file = f /\ r.pos = p
    BY <1>5, <1>t, TaskChanges
  <2>3. /\ f \in 1 .. Len(inode) /\ p \in 1 .. Length
        /\ \A g \in 1 .. Len(inode) \ {f} : inode'[g] = inode[g]
        /\ Len(inode'[f]) = p /\ inode'[f][p] = p
        /\ \A k \in 1 .. task[c].pos : inode'[f][k] = k
    BY <1>5, <1>t, <2>1, PieceWritten, BytesFields
  <2>4. \A k \in 1 .. p : k = p \/ k \in 1 .. task[c].pos
    BY <1>r, <2>3, RequestFields
  <2> HIDE DEF n, f, p
  <2>5. \A m \in Computer : blob[m] # f /\ blob[m] \in 0 .. Len(inode)
    BY <1>t, <2>1, <2>3 DEF BlobInv, TempsAreOwn, BlobTypeOK, Files
  <2>6. BlobsAreWhole' /\ TempsAreOwn'
    BY <2>1, <2>3, <2>5 DEF BlobInv, BlobsAreWhole, TempsAreOwn
  <2>7. DataIsContent' /\ WritersAreAlone'
    BY <2>1, <2>2 DEF BlobInv, DataIsContent, WritersAreAlone, Writing, Becomes, n
  <2>8. ASSUME NEW d \in Task, task'[d].at = "writing", d # c
        PROVE  task'[d] = task[d] /\ inode'[task[d].file] = inode[task[d].file]
    <3>1. task'[d] = task[d]
      BY <2>2, <2>8 DEF Becomes
    <3>2. task[d].on \in Computer \ {n}
      BY <1>r, <2>1, <2>8, <3>1 DEF BlobInv, WritersAreAlone, Writing, n
    <3>3. task[d].file = temp[task[d].on] /\ task[d].file \in 1 .. Len(inode)
      BY <1>t, <2>8, <3>1 DEF BlobInv, WrittenIsContent, BlobTypeOK, Files
    <3>4. task[d].file # f
      BY <2>1, <2>3, <3>2, <3>3 DEF BlobInv, TempsAreOwn
    <3>5. QED
      BY <2>3, <3>1, <3>3, <3>4
  <2>9. WrittenIsContent'
    BY <2>1, <2>2, <2>3, <2>4, <2>8 DEF BlobInv, WrittenIsContent, Becomes
  <2>10. QED
    BY <1>t, <2>6, <2>7, <2>9 DEF BlobInv
<1>6. ASSUME NEW c \in Task, RenameTemp(c) PROVE BlobInv'
  <2> DEFINE n == task[c].on
  <2>1. /\ task[c].at = "writing" /\ task[c].pos = Len(task[c].data) /\ inode' = inode
        /\ task[c].data = Bytes /\ n \in Computer
    BY <1>6, <1>r DEF RenameTemp, BlobInv, DataIsContent
  <2>2. (\A d \in Task \ {c} : task'[d] = task[d]) /\ Moved(task'[c], task[c])
    BY <1>6, <1>r, TaskMoves
  <2>3. CASE task'[c].at = "rest" /\ UNCHANGED <<blob, temp, handed>>
    BY <1>t, <2>1, <2>2, <2>3, CalmStep DEF BlobInv
  <2>4. ASSUME task'[c].at \in {"recording", "rest"}, temp[n] # 0,
               handed' \subseteq handed \cup {task[c].data},
               blob' = [blob EXCEPT ![n] = temp[n]], temp' = [temp EXCEPT ![n] = 0]
        PROVE  BlobInv'
    <3>1. /\ blob'[n] = temp[n] /\ temp'[n] = 0
          /\ \A m \in Computer \ {n} : blob'[m] = blob[m] /\ temp'[m] = temp[m]
      BY <1>t, <2>1, <2>4 DEF BlobTypeOK, Files
    <3>2. inode[temp[n]] = Bytes
      <4>1. task[c].file = temp[n] /\ task[c].pos = Length
        BY <2>1, BytesFields DEF BlobInv, WrittenIsContent
      <4>2. Len(inode[temp[n]]) = Length /\ \A k \in 1 .. Length : inode[temp[n]][k] = k
        BY <2>1, <4>1 DEF BlobInv, WrittenIsContent
      <4>3. inode[temp[n]] \in Contents
        BY <1>t, <2>1, <4>1 DEF BlobTypeOK, Files
      <4>4. QED
        BY <4>2, <4>3, BlobAssumption DEF Contents, Bytes
    <3> HIDE DEF n
    <3>3. BlobsAreWhole' /\ TempsAreOwn'
      BY <2>1, <2>4, <3>1, <3>2 DEF BlobInv, BlobsAreWhole, TempsAreOwn
    <3>4. DataIsContent' /\ WritersAreAlone'
      BY <2>1, <2>2, <2>4 DEF BlobInv, DataIsContent, WritersAreAlone, Writing, Moved
    <3>5. ASSUME NEW d \in Task, task'[d].at = "writing"
          PROVE  task'[d] = task[d] /\ task[d].on \in Computer \ {n}
      BY <1>r, <2>1, <2>2, <2>4, <3>5 DEF BlobInv, WritersAreAlone, Writing, n
    <3>6. WrittenIsContent'
      BY <2>1, <3>1, <3>5 DEF BlobInv, WrittenIsContent
    <3>7. QED
      BY <1>t, <3>3, <3>4, <3>6 DEF BlobInv
  <2>5. QED
    BY <1>6, <1>r, <2>3, <2>4, TaskMoves
<1>7. ASSUME NEW c \in Task, RecordEntry(c) \/ TaskFails(c) PROVE BlobInv'
  <2>1. (\A d \in Task \ {c} : task'[d] = task[d]) /\ task'[c].at = "rest"
    BY <1>7, <1>r, TaskMoves
  <2>2. UNCHANGED <<inode, blob, temp, handed>>
    BY <1>7 DEF RecordEntry, TaskFails
  <2>3. QED
    BY <1>t, <2>1, <2>2, CalmStep DEF BlobInv
<1>8. ASSUME NEW c \in Task, NEW n \in Computer, CaptureBlob(c, n) PROVE BlobInv'
  <2>1. PICK r \in Request : Becomes(c, r) /\ r.at = "looking" /\ r.data = Bytes
    BY <1>8, <1>t, TaskChanges
  <2>2. QED
    BY <1>8, <1>t, <2>1, CalmStep DEF CaptureBlob, Becomes, BlobInv
<1>9. ASSUME NEW c \in Task, NEW n \in Computer, NEW e \in Computer, Resolve(c, n, e)
      PROVE  BlobInv'
  <2>1. handed' \subseteq handed \cup {Bytes} /\ UNCHANGED <<inode, blob, temp>>
    BY <1>9 DEF Resolve, HandOut, BlobInv, BlobsAreWhole
  <2>2. CASE UNCHANGED task
    BY <1>t, <2>1, <2>2 DEF BlobInv, BlobsAreWhole, TempsAreOwn, DataIsContent, WritersAreAlone,
      WrittenIsContent, Writing
  <2>3. CASE \E r \in Request : Becomes(c, r) /\ r.at = "fetching"
    BY <1>t, <2>1, <2>3, CalmStep DEF Becomes, BlobInv
  <2>4. QED
    BY <1>9, <1>t, <2>2, <2>3, TaskChanges
<1>10. ASSUME UNCHANGED <<inode, blob, temp, handed, task>> PROVE BlobInv'
  BY <1>t, <1>10 DEF BlobInv, BlobsAreWhole, TempsAreOwn, DataIsContent, WritersAreAlone,
    WrittenIsContent, Writing
<1>11. ASSUME NEW n \in Computer, ComputerStops(n) PROVE BlobInv'
  <2>1. /\ UNCHANGED <<inode, blob, temp, handed>>
        /\ \A c \in Task : task'[c].at = "rest" \/ task'[c] = task[c]
    BY <1>11, <1>r, TasksStop DEF ComputerStops
  <2>2. BlobsAreWhole' /\ TempsAreOwn' /\ DataIsContent'
    BY <2>1 DEF BlobInv, BlobsAreWhole, TempsAreOwn, DataIsContent
  <2>3. WritersAreAlone' /\ WrittenIsContent'
    BY <2>1 DEF BlobInv, WritersAreAlone, WrittenIsContent, Writing
  <2>4. QED
    BY <1>t, <2>2, <2>3 DEF BlobInv
<1>12. QED
  BY <1>2, <1>3, <1>4, <1>5, <1>6, <1>7, <1>8, <1>9, <1>10, <1>11
  DEF BlobNext, blobVars, DeleteEntry, SendEntry

(* What is kept or handed out as a payload is the content, whatever stops  *)
(* at any step, provided one request at a time writes on each computer.    *)
THEOREM BlobsAreAlwaysWhole == ~Together /\ BlobSpec => []BlobsAreWhole
<1> SUFFICES ASSUME ~Together PROVE BlobSpec => []BlobsAreWhole
  OBVIOUS
<1>1. BlobInit => BlobInv
  <2> SUFFICES ASSUME BlobInit PROVE BlobInv
    OBVIOUS
  <2>1. \A c \in Task : task[c].at = "rest"
    BY DEF BlobInit, NoTask
  <2>2. QED
    BY <2>1, BlobTypeInitially DEF BlobInit, BlobInv, BlobsAreWhole, TempsAreOwn, DataIsContent,
      WritersAreAlone, WrittenIsContent, Writing
<1>2. BlobInv => BlobsAreWhole
  BY DEF BlobInv
<1>3. QED
  BY <1>1, <1>2, BlobInductive, PTL DEF BlobSpec

(* An entry that is about to be recorded has its payload.                  *)
RecordedLater == \A c \in Task : task[c].at = "recording" => blob[task[c].on] # 0

(* No entry without its payload at home, however many write at once.       *)
THEOREM EntriesAlwaysHavePayloads == BlobSpec => []EntriesHavePayloads
<1> DEFINE Inv == BlobTypeOK /\ EntriesHavePayloads /\ RecordedLater
<1>1. BlobInit => Inv
  <2> SUFFICES ASSUME BlobInit PROVE Inv
    OBVIOUS
  <2>1. \A c \in Task : task[c].at = "rest"
    BY DEF BlobInit, NoTask
  <2>2. QED
    BY <2>1, BlobTypeInitially DEF BlobInit, EntriesHavePayloads, RecordedLater
<1>2. Inv /\ [BlobNext]_blobVars => Inv'
  <2> SUFFICES ASSUME Inv, [BlobNext]_blobVars PROVE Inv'
    OBVIOUS
  <2>t. BlobTypeOK'
    BY BlobTypeInductive
  <2>r. Requests /\ \A c \in Task : task[c] \in Request /\ task[c].on \in Computer
    BY RequestFields DEF BlobTypeOK, Requests
  <2>1. \A n \in Computer : blob[n] # 0 => blob'[n] # 0
    <3>1. ASSUME NEW c \in Task, RenameTemp(c), NEW n \in Computer, blob[n] # 0 PROVE blob'[n] # 0
      BY <3>1 DEF RenameTemp, BlobTypeOK, Files
    <3>2. QED
      BY <3>1 DEF BlobNext, blobVars, FetchBlob, LookForBlob, CreateTemp, WriteTemp, RecordEntry,
        TaskFails, CaptureBlob, Resolve, DeleteEntry, SendEntry, ComputerStops
  <2>2. EntriesHavePayloads'
    <3> USE DEF EntriesHavePayloads, BlobTypeOK
    <3>1. ASSUME NEW n \in Computer, NEW e \in Computer, SendEntry(n, e)
          PROVE  EntriesHavePayloads'
      BY <3>1, <2>1 DEF SendEntry, PushTo, Holders
    <3>2. ASSUME NEW n \in Computer, NEW e \in Computer, DeleteEntry(n, e)
          PROVE  EntriesHavePayloads'
      BY <3>2, <2>1 DEF DeleteEntry
    <3>3. ASSUME NEW c \in Task, RecordEntry(c) PROVE EntriesHavePayloads'
      BY <3>3, <2>1, <2>r DEF RecordEntry, RecordedLater
    <3>4. CASE UNCHANGED entriesOf
      BY <3>4, <2>1
    <3>5. QED
      BY <3>1, <3>2, <3>3, <3>4 DEF BlobNext, blobVars, FetchBlob, LookForBlob, CreateTemp,
        WriteTemp, RenameTemp, TaskFails, CaptureBlob, Resolve, ComputerStops
  <2>3. RecordedLater'
    <3>1. ASSUME NEW c \in Task, LookForBlob(c) PROVE RecordedLater'
      BY <3>1, <2>1, <2>r, TaskMoves DEF Moved, LookForBlob, RecordedLater
    <3>2. ASSUME NEW c \in Task, RenameTemp(c) PROVE RecordedLater'
      <4>1. task'[c].at = "recording" => blob'[task[c].on] # 0
        BY <3>2, <2>r, TaskMoves DEF BlobTypeOK, Files
      <4>2. (\A d \in Task \ {c} : task'[d] = task[d]) /\ Moved(task'[c], task[c])
        BY <3>2, <2>r, TaskMoves
      <4>3. QED
        BY <4>1, <4>2, <2>1, <2>r DEF Moved, RecordedLater
    <3>3. ASSUME NEW c \in Task, RecordEntry(c) \/ TaskFails(c) PROVE RecordedLater'
      BY <3>3, <2>1, <2>r, TaskMoves DEF RecordedLater
    <3>4. ASSUME NEW c \in Task, NEW r \in Request, Becomes(c, r), r.at # "recording"
          PROVE  RecordedLater'
      BY <3>4, <2>1, <2>r DEF RecordedLater, Becomes
    <3>5. ASSUME NEW c \in Task, FetchBlob(c) \/ CreateTemp(c) \/ WriteTemp(c)
          PROVE  RecordedLater'
      BY <3>4, <3>5, TaskChanges
    <3>6. ASSUME NEW c \in Task, NEW n \in Computer, CaptureBlob(c, n) PROVE RecordedLater'
      BY <3>4, <3>6, TaskChanges
    <3>7. CASE UNCHANGED task
      BY <3>7, <2>1, <2>r DEF RecordedLater
    <3>8. ASSUME NEW c \in Task, NEW n \in Computer, NEW e \in Computer, Resolve(c, n, e)
          PROVE  RecordedLater'
      BY <3>4, <3>7, <3>8, TaskChanges
    <3>9. ASSUME NEW n \in Computer, ComputerStops(n) PROVE RecordedLater'
      BY <3>9, <2>1, <2>r, TasksStop DEF RecordedLater
    <3>10. QED
      BY <3>1, <3>2, <3>3, <3>5, <3>6, <3>7, <3>8, <3>9
      DEF BlobNext, blobVars, DeleteEntry, SendEntry
  <2>4. QED
    BY <2>t, <2>2, <2>3
<1>3. Inv => EntriesHavePayloads
  OBVIOUS
<1>4. QED
  BY <1>1, <1>2, <1>3, PTL DEF BlobSpec

(* The payload of an entry is there, where the entry is from, and all that *)
(* is kept or handed out as one is whole, while one writes at a time.      *)
THEOREM PayloadsAreAlwaysKept == ~Together /\ BlobSpec => []PayloadsAreKept
<1>1. BlobsAreWhole /\ EntriesHavePayloads => PayloadsAreKept
  BY DEF PayloadsAreKept
<1>2. QED
  BY <1>1, BlobsAreAlwaysWhole, EntriesAlwaysHavePayloads, PTL

-----------------------------------------------------------------------------
(* The vault (VaultHistory) *)

(* Revisions name older ones only, and a copy holds all that its revisions *)
(* name.                                                                   *)
VaultOK ==
  /\ made \in Seq([parents : SUBSET Nat])
  /\ \A i \in 1 .. Len(made) : Parents(i) \subseteq 1 .. i - 1
  /\ operations \in [Copy -> SUBSET (1 .. Len(made))]
  /\ \A c \in Copy : \A i \in operations[c] : Parents(i) \subseteq operations[c]
  /\ snapshots \in SUBSET SUBSET (1 .. Len(made))

(* Only Write makes a revision, of those its copy holds; the others take   *)
(* what there is, as a whole.                                              *)
LEMMA VaultInductive == VaultOK /\ [VaultNext]_vaultVars => VaultOK'
<1> SUFFICES ASSUME VaultOK, [VaultNext]_vaultVars PROVE VaultOK'
  OBVIOUS
<1>n. PICK n \in Nat : n = Len(made)
  BY DEF VaultOK
<1> DEFINE Held(c, held) == /\ held \in SUBSET (1 .. n)
                            /\ \A i \in held : Parents(i) \subseteq held
                            /\ operations' = [operations EXCEPT ![c] = held]
<1>0. /\ n \in Nat /\ made \in Seq([parents : SUBSET Nat])
      /\ operations \in [Copy -> SUBSET (1 .. n)]
      /\ snapshots \in SUBSET SUBSET (1 .. n)
      /\ \A i \in 1 .. n : Parents(i) \subseteq 1 .. i - 1
      /\ \A c \in Copy : \A i \in operations[c] : Parents(i) \subseteq operations[c]
  BY <1>n DEF VaultOK
<1>1. ASSUME made' = made, snapshots' \in SUBSET SUBSET (1 .. n),
             operations' = operations \/ \E c \in Copy, held \in SUBSET (1 .. n) : Held(c, held)
      PROVE  VaultOK'
  <2>1. operations' \in [Copy -> SUBSET (1 .. n)]
    BY <1>0, <1>1
  <2>2. \A i : Parents(i)' = Parents(i)
    BY <1>1 DEF Parents
  <2>3. ASSUME NEW c \in Copy, NEW i \in operations'[c] PROVE Parents(i) \subseteq operations'[c]
    BY <1>0, <1>1, <2>3
  <2>4. QED
    BY <1>n, <1>0, <1>1, <2>1, <2>2, <2>3 DEF VaultOK
<1>2. ASSUME NEW c \in Copy, Write(c) PROVE VaultOK'
  <2> DEFINE P == HeadsOf(operations[c])
             held == operations[c] \cup {n + 1}
  <2>1. P \in SUBSET (1 .. n) /\ P \subseteq operations[c]
    BY <1>0 DEF HeadsOf
  <2>2. made' = Append(made, [parents |-> P]) /\ snapshots' = snapshots
    BY <1>2 DEF Write, MayWrite
  <2>3. [parents |-> P] \in [parents : SUBSET Nat]
    BY <2>1
  <2>4. /\ made' \in Seq([parents : SUBSET Nat]) /\ Len(made') = n + 1
        /\ \A i \in 1 .. n : made'[i] = made[i]
        /\ made'[n + 1] = [parents |-> P]
    BY <1>n, <1>0, <2>2, <2>3
  <2>5. /\ \A i \in 1 .. n : Parents(i)' = Parents(i)
        /\ Parents(n + 1)' = P
    <3>1. \A i \in 1 .. n : made'[i].parents = made[i].parents
      BY <2>4
    <3>2. made'[n + 1].parents = P
      BY <2>4
    <3>3. QED
      BY <3>1, <3>2 DEF Parents
  <2>6. operations' = [operations EXCEPT ![c] = held]
    BY <1>2, <2>4 DEF Write
  <2> HIDE DEF P
  <2>7. \A i \in 1 .. n + 1 : Parents(i)' \subseteq 1 .. i - 1
    <3> SUFFICES ASSUME NEW i \in 1 .. n + 1 PROVE Parents(i)' \subseteq 1 .. i - 1
      OBVIOUS
    <3>1. CASE i = n + 1
      <4>1. i - 1 = n
        BY <1>0, <3>1
      <4>2. Parents(i)' = P
        BY <2>5, <3>1
      <4>3. QED
        BY <2>1, <4>1, <4>2
    <3>2. CASE i # n + 1
      BY <1>0, <2>5, <3>2
    <3>3. QED
      BY <3>1, <3>2
  <2>8. /\ held \in SUBSET (1 .. n + 1) /\ 1 .. n \subseteq 1 .. n + 1
        /\ operations' \in [Copy -> SUBSET (1 .. n + 1)]
    BY <1>0, <2>6
  <2>9. ASSUME NEW e \in Copy, NEW i \in operations'[e]
        PROVE  Parents(i)' \subseteq operations'[e]
    <3>1. CASE i \in 1 .. n /\ i \in operations[e]
      BY <1>0, <2>5, <2>6, <3>1
    <3>2. CASE e = c /\ i = n + 1
      <4>1. Parents(i)' = P
        BY <2>5, <3>2
      <4>2. operations[c] \subseteq operations'[e]
        BY <1>0, <2>6, <3>2
      <4>3. QED
        BY <2>1, <4>1, <4>2
    <3>3. i \in operations[e] \/ (e = c /\ i = n + 1)
      BY <1>0, <2>6, <2>9
    <3>4. QED
      BY <1>0, <3>1, <3>2, <3>3
  <2>10. QED
    BY <1>0, <2>2, <2>4, <2>7, <2>8, <2>9 DEF VaultOK
<1>3. ASSUME NEW c \in Copy, Save(c) PROVE VaultOK'
  <2>1. operations[c] \in SUBSET (1 .. n)
    BY <1>0
  <2>2. QED
    BY <1>0, <1>1, <1>3, <2>1 DEF Save
<1>4. ASSUME NEW c \in Copy, NEW s \in snapshots, Load(c, s) PROVE VaultOK'
  <2>1. Held(c, s)
    BY <1>0, <1>4 DEF Load, IsWhole
  <2>2. QED
    BY <1>0, <1>1, <1>4, <2>1 DEF Load
<1>5. ASSUME NEW c \in Copy, NEW s \in snapshots, NEW lacking \in SUBSET s,
             Merge(c, s \ lacking)
      PROVE  VaultOK'
  <2> DEFINE held == operations[c] \cup (s \ lacking)
  <2>1. held \in SUBSET (1 .. n) /\ \A i \in held : Parents(i) \subseteq held
    BY <1>0, <1>5 DEF Merge, IsWhole
  <2>2. operations' = [operations EXCEPT ![c] = held]
    BY <1>5 DEF Merge
  <2> HIDE DEF held
  <2>3. Held(c, held)
    BY <2>1, <2>2
  <2>4. made' = made /\ snapshots' = snapshots
    BY <1>5 DEF Merge
  <2>5. QED
    BY <1>0, <1>1, <2>1, <2>3, <2>4
<1>6. ASSUME NEW c \in Copy, Show(c) \/ Lock(c) PROVE VaultOK'
  BY <1>0, <1>1, <1>6 DEF Show, Lock
<1>7. CASE UNCHANGED vaultVars
  BY <1>0, <1>1, <1>7 DEF vaultVars
<1>8. QED
  BY <1>2, <1>3, <1>4, <1>5, <1>6, <1>7 DEF VaultNext

(* There is a function as Supersedes is defined: of the relations that     *)
(* hold every parent and whatever comes before it, the smallest.           *)
LEMMA SupersedesIs ==
  ASSUME VaultOK
  PROVE  \A j \in 1 .. Len(made) :
           Supersedes[j] = Parents(j) \cup UNION {Supersedes[i] : i \in Parents(j)}
<1> DEFINE D == 1 .. Len(made)
           Includes(R) == \A j \in D : \A i \in Parents(j) :
                            <<i, j>> \in R /\ \A h \in D : <<h, i>> \in R => <<h, j>> \in R
           Least == {x \in D \X D : \A R \in SUBSET (D \X D) : Includes(R) => x \in R}
           Further == {x \in D \X D : \/ x[1] \in Parents(x[2])
                                      \/ \E p \in Parents(x[2]) : <<x[1], p>> \in Least}
           f == [j \in D |-> {i \in D : <<i, j>> \in Least}]
<1>1. \A j \in D : Parents(j) \subseteq D
  <2>1. Len(made) \in Nat /\ \A i \in 1 .. Len(made) : Parents(i) \subseteq 1 .. i - 1
    BY DEF VaultOK
  <2>2. QED
    BY <2>1
<1>2. DOMAIN made = D
  BY DEF VaultOK
<1> HIDE DEF D
<1>3. Includes(Least)
  BY <1>1
<1>4. Further \subseteq Least
  <2>1. Further \subseteq D \X D
    OBVIOUS
  <2>2. ASSUME NEW i \in D, NEW j \in D, <<i, j>> \in Further PROVE <<i, j>> \in Least
    <3>1. i \in Parents(j) \/ \E p \in Parents(j) : <<i, p>> \in Least
      <4>1. <<i, j>>[1] = i /\ <<i, j>>[2] = j
        OBVIOUS
      <4> HIDE DEF Least
      <4>2. QED
        BY <2>2, <4>1
    <3> HIDE DEF Least, Further
    <3>2. QED
      BY <1>1, <1>3, <3>1
  <2> HIDE DEF Least, Further
  <2>3. QED
    BY <2>1, <2>2
<1>5. Includes(Further)
  <2> SUFFICES ASSUME NEW j \in D, NEW i \in Parents(j)
               PROVE  /\ <<i, j>> \in Further
                      /\ \A h \in D : <<h, i>> \in Further => <<h, j>> \in Further
    OBVIOUS
  <2>1. i \in D /\ <<i, j>> \in Further
    BY <1>1
  <2>2. ASSUME NEW h \in D, <<h, i>> \in Further PROVE <<h, j>> \in Further
    <3>1. <<h, i>> \in Least
      BY <1>4, <2>2
    <3>2. QED
      BY <3>1
  <2>3. QED
    BY <2>1, <2>2
<1>6. Least \subseteq Further
  BY <1>5
<1>7. \A i \in D, j \in D : <<i, j>> \in Least
        <=> (i \in Parents(j) \/ \E p \in Parents(j) : <<i, p>> \in Least)
  BY <1>4, <1>6
<1> HIDE DEF Least, Further
<1>8. \A j \in D : f[j] = Parents(j) \cup UNION {f[i] : i \in Parents(j)}
  <2> SUFFICES ASSUME NEW j \in D
               PROVE  f[j] = Parents(j) \cup UNION {f[i] : i \in Parents(j)}
    OBVIOUS
  <2>1. \A i : i \in f[j] <=> (i \in D /\ <<i, j>> \in Least)
    OBVIOUS
  <2>2. \A p \in Parents(j) : \A i : i \in f[p] <=> (i \in D /\ <<i, p>> \in Least)
    BY <1>1
  <2> HIDE DEF f
  <2>3. \A i : i \in f[j] => i \in Parents(j) \/ \E p \in Parents(j) : i \in f[p]
    BY <1>1, <1>7, <2>1, <2>2
  <2>4. \A i : i \in Parents(j) \/ (\E p \in Parents(j) : i \in f[p]) => i \in f[j]
    BY <1>1, <1>7, <2>1, <2>2
  <2>5. QED
    BY <2>3, <2>4
<1>9. f = [j \in DOMAIN made |-> Parents(j) \cup UNION {f[i] : i \in Parents(j)}]
  <2>1. f = [j \in D |-> f[j]]
    OBVIOUS
  <2> HIDE DEF f
  <2>2. QED
    BY <1>2, <1>8, <2>1
<1> HIDE DEF f
<1>10. PICK g : /\ Supersedes = g
                /\ g = [j \in DOMAIN made |-> Parents(j) \cup UNION {g[i] : i \in Parents(j)}]
  BY <1>9 DEF Supersedes
<1>11. \A j \in D : g[j] = Parents(j) \cup UNION {g[i] : i \in Parents(j)}
  BY <1>2, <1>10
<1>12. QED
  BY <1>10, <1>11 DEF D

(* Some number is the least.                                               *)
LEMMA LeastNumber ==
  ASSUME NEW T \in SUBSET Nat, T # {}
  PROVE  \E x \in T : \A y \in T : x <= y
<1> DEFINE R == OpToRel(<, Nat)
<1>1. \A x \in Nat, y \in Nat : <<x, y>> \in R <=> x < y
  BY DEF OpToRel
<1>2. IsWellFoundedOn(R, Nat)
  BY NatLessThanWellFounded
<1> HIDE DEF R
<1>3. PICK x \in T : \A y \in T : ~ (<<y, x>> \in R)
  BY <1>2, WFMin
<1>4. \A y \in T : x \in Nat /\ y \in Nat /\ ~ (y < x)
  BY <1>1, <1>3
<1>5. QED
  BY <1>4

(* So some revision of a copy is the last.                                 *)
LEMMA LastRevision ==
  ASSUME NEW n \in Nat, NEW S \in SUBSET (1 .. n), S # {}
  PROVE  \E x \in S : \A y \in S : y <= x
<1> DEFINE T == {n - x : x \in S}
<1>1. T \in SUBSET Nat /\ T # {}
  <2>1. \A x \in S : n - x \in Nat
    OBVIOUS
  <2>2. PICK x \in S : TRUE
    OBVIOUS
  <2>3. n - x \in T
    OBVIOUS
  <2>4. QED
    BY <2>1, <2>3
<1>2. PICK t \in T : \A u \in T : t <= u
  <2> HIDE DEF T
  <2>1. QED
    BY <1>1, LeastNumber
<1>3. PICK x \in S : t = n - x
  BY <1>2
<1>4. \A y \in S : n - x <= n - y
  BY <1>2, <1>3
<1>5. QED
  BY <1>4

(* What a copy's revisions supersede, one of them names as its parent.     *)
LEMMA SupersededIsNamed ==
  ASSUME VaultOK, NEW c \in Copy, NEW j \in operations[c], NEW i \in Supersedes[j]
  PROVE  \E k \in operations[c] : i \in Parents(k)
<1> DEFINE T == {k \in operations[c] : i \in Supersedes[k]}
<1>1. /\ operations[c] \in SUBSET (1 .. Len(made)) /\ Len(made) \in Nat
      /\ \A k \in operations[c] : /\ Parents(k) \subseteq operations[c]
                                  /\ Parents(k) \subseteq 1 .. k - 1
  BY DEF VaultOK
<1>2. T \in SUBSET Nat /\ T # {}
  BY <1>1
<1>3. PICK k \in T : \A y \in T : k <= y
  <2> HIDE DEF T
  <2>1. QED
    BY <1>2, LeastNumber
<1>4. ASSUME NEW p \in Parents(k), i \in Supersedes[p] PROVE FALSE
  <2>1. p \in T /\ p \in 1 .. k - 1 /\ k \in Nat
    BY <1>1, <1>4
  <2>2. QED
    BY <1>3, <2>1
<1>5. i \in Parents(k) \/ \E p \in Parents(k) : i \in Supersedes[p]
  BY <1>1, SupersedesIs
<1>6. QED
  BY <1>4, <1>5

(* The last revision that supersedes i, or i itself, is a head.            *)
LEMMA HeadSupersedes ==
  ASSUME VaultOK, NEW c \in Copy, NEW i \in operations[c]
  PROVE  \E j \in HeadsOf(operations[c]) : i = j \/ i \in Supersedes[j]
<1> DEFINE S == {j \in operations[c] : i = j \/ i \in Supersedes[j]}
<1>1. /\ operations[c] \in SUBSET (1 .. Len(made)) /\ Len(made) \in Nat
      /\ \A k \in operations[c] : Parents(k) \subseteq 1 .. k - 1
  BY DEF VaultOK
<1>2. S \in SUBSET (1 .. Len(made)) /\ S # {}
  BY <1>1
<1>3. PICK j \in S : \A k \in S : k <= j
  <2> HIDE DEF S
  <2>1. QED
    BY <1>1, <1>2, LastRevision
<1>4. ASSUME NEW k \in operations[c], j \in Parents(k) PROVE FALSE
  <2>1. i \in Supersedes[k]
    BY <1>1, <1>4, SupersedesIs
  <2>2. k \in S /\ j \in 1 .. k - 1 /\ k \in Nat
    BY <1>1, <1>4, <2>1
  <2>3. QED
    BY <1>3, <2>2
<1>5. j \in HeadsOf(operations[c])
  BY <1>4 DEF HeadsOf
<1>6. QED
  BY <1>5

(* Whatever is merged, in whatever order, and loaded again: a superseded   *)
(* revision, such as that of a deleted account, is no head of a copy, and  *)
(* each revision is a head or superseded by one (merge, heads).            *)
THEOREM HeadsAreAlwaysLatest == VaultSpec => []HeadsAreLatest
<1>1. VaultInit => VaultOK
  <2> SUFFICES ASSUME VaultInit PROVE VaultOK
    OBVIOUS
  <2>1. made = <<>> /\ Len(made) = 0 /\ made \in Seq([parents : SUBSET Nat])
    BY DEF VaultInit
  <2>2. operations \in [Copy -> SUBSET (1 .. 0)] /\ \A c \in Copy : operations[c] = {}
    BY DEF VaultInit
  <2>3. QED
    BY <2>1, <2>2 DEF VaultInit, VaultOK
<1>2. VaultOK => HeadsAreLatest
  <2> SUFFICES ASSUME VaultOK, NEW c \in Copy
               PROVE  LET heads == HeadsOf(operations[c]) IN
                      /\ \A i, j \in heads : i \notin Supersedes[j]
                      /\ \A i \in operations[c] :
                           i \in heads \/ \E j \in heads : i \in Supersedes[j]
    BY DEF HeadsAreLatest
  <2>1. ASSUME NEW i \in HeadsOf(operations[c]), NEW j \in HeadsOf(operations[c])
        PROVE  i \notin Supersedes[j]
    BY SupersededIsNamed DEF HeadsOf
  <2>2. ASSUME NEW i \in operations[c]
        PROVE  i \in HeadsOf(operations[c])
               \/ \E j \in HeadsOf(operations[c]) : i \in Supersedes[j]
    BY HeadSupersedes
  <2>3. QED
    BY <2>1, <2>2
<1>3. QED
  BY <1>1, <1>2, VaultInductive, PTL DEF VaultSpec

=============================================================================
