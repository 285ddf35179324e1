------------------------------ MODULE MCParts ------------------------------
(***************************************************************************)
(* The parts of one computer that do not interact, for TLC: a behaviour is *)
(* a behaviour of one of them, the subject, while the others rest in their *)
(* initial state.                                                          *)
(***************************************************************************)
EXTENDS FileDownload, Updater, PauseBarrier, LoginPolicy, DesktopSettings,
        ClipboardHistory, LoginHost, VaultHistory, BlobCache, TLC

CONSTANTS
  r1, r2,  \* requests, pages, copies of a vault
  nil

VARIABLE subject

earlier == <<updateVars, barrierVars, policyVars, settingsVars, downloadVars>>
later == <<historyVars, loginVars, vaultVars, blobVars>>

vars == <<subject, earlier, later>>

(* All entries of the history are copies of each other.                    *)
SameContent == [id \in Id |-> "a"]

(* A file of two versions of different sizes.                              *)
OneAndTwo == [v \in Version |-> v]

(* Of the parts that may start in several states all but the subject start *)
(* in one of them.                                                         *)
Init ==
  /\ subject \in {"download", "update", "barrier", "policy", "settings",
                  "history", "login", "vault", "blobs"}
  /\ DownloadInit /\ UpdateInit /\ BarrierInit /\ PolicyInit /\ SettingsInit
  /\ HistoryInit /\ LoginInit /\ VaultInit /\ BlobInit
  /\ subject # "download" => source = 1
  /\ subject # "settings" => file = NoFile /\ startup["dir"] = 1
  /\ subject # "blobs" => \A c \in Task : task[c].on = "a"

Next ==
  \/ /\ subject = "download" /\ DownloadNext
     /\ UNCHANGED <<subject, updateVars, barrierVars, policyVars, settingsVars, later>>
  \/ /\ subject = "update" /\ UpdateNext
     /\ UNCHANGED <<subject, downloadVars, barrierVars, policyVars, settingsVars, later>>
  \/ /\ subject = "barrier" /\ BarrierNext
     /\ UNCHANGED <<subject, downloadVars, updateVars, policyVars, settingsVars, later>>
  \/ /\ subject = "policy" /\ PolicyNext
     /\ UNCHANGED <<subject, downloadVars, updateVars, barrierVars, settingsVars, later>>
  \/ /\ subject = "settings" /\ SettingsNext
     /\ UNCHANGED <<subject, downloadVars, updateVars, barrierVars, policyVars, later>>
  \/ /\ subject = "history" /\ HistoryNext
     /\ UNCHANGED <<subject, earlier, loginVars, vaultVars, blobVars>>
  \/ /\ subject = "login" /\ LoginNext
     /\ UNCHANGED <<subject, earlier, historyVars, vaultVars, blobVars>>
  \/ /\ subject = "vault" /\ VaultNext
     /\ UNCHANGED <<subject, earlier, historyVars, loginVars, blobVars>>
  \/ /\ subject = "blobs" /\ BlobNext
     /\ UNCHANGED <<subject, earlier, historyVars, loginVars, vaultVars>>

Spec == Init /\ [][Next]_vars

(* Requests, pages and copies are alike.                                   *)
Symmetry == Permutations({r1, r2})

=============================================================================
