-------------------------- MODULE StateRepository ---------------------------
(***************************************************************************)
(* JsonSessionStateRepository (src/persistence/session_state_repository):  *)
(* the managed-state file of the agent, at the level of the system calls   *)
(* save(), clear() and load() make, with a process death or a power loss   *)
(* possible between any two of them.                                       *)
(*                                                                         *)
(* Contents of a file are abstracted to what load() tells apart: a member  *)
(* of OwnState (a complete document of this device and controller), Torn   *)
(* (not a JSON object), Foreign (another MAC, host or version, or          *)
(* incomplete) and Oversize.  flash is the set of contents a power loss    *)
(* may leave at path_: a rename or an unlink adds to it, a sync of the     *)
(* directory reduces it to the current content.                            *)
(***************************************************************************)
CONSTANTS
  OwnState,   \* managed states with this device's identity
  BadState,   \* managed states save() refuses (identity, version, completeness)
  NoFile,     \* path_ does not exist
  Torn,       \* a file that is not a complete JSON object
  Foreign,    \* a JSON object load() ignores
  Oversize    \* a file above kMaxStateFileBytes

Unusable == {Torn, Foreign, Oversize}

ASSUME ContentsDiffer ==
  /\ OwnState \cap (BadState \cup Unusable \cup {NoFile}) = {}
  /\ NoFile \notin Unusable
  /\ Torn \notin {Foreign, Oversize}
  /\ Foreign # Oversize

VARIABLES
  pc,      \* next system call of the save() in progress, or "idle"
  subject, \* the state given to save() or returned by load()
  tmp,     \* path_.tmp: its content and whether fsync reached it
  file,    \* the content the kernel shows at path_
  flash,   \* the contents a power loss may leave at path_
  result,  \* what the last call returned to the daemon
  prior    \* history: what path_ showed when the last save() was called

vars == <<pc, subject, tmp, file, flash, result, prior>>

Steps == {"idle", "mkdir", "open", "write", "sync", "rename", "dirsync"}
Contents == OwnState \cup Unusable \cup {NoFile}
NoTmp == [data |-> NoFile, synced |-> FALSE]

(* RepositoryStatus, LoadStateResult and the bool of clear().  "ignored" is *)
(* ok without found, "unreadable" is not ok.                               *)
Results == {"none", "saved", "save_failed", "cleared", "clear_failed",
            "found", "ignored", "unreadable"}

Init ==
  /\ pc = "idle"
  /\ subject = NoFile
  /\ tmp = NoTmp
  /\ file \in {NoFile, Foreign, Oversize} \cup OwnState
  /\ flash = {file}
  /\ result = "none"
  /\ prior = file

(***************************************************************************)
(* save()                                                                  *)
(***************************************************************************)
Return(answer) ==
  /\ pc' = "idle"
  /\ result' = answer
  /\ UNCHANGED subject

Goto(step) ==
  /\ pc' = step
  /\ UNCHANGED <<subject, result>>

(* The checks of the version, the identity and the required fields.        *)
Save(s) ==
  /\ pc = "idle"
  /\ \/ /\ s \in BadState
        /\ pc' = "idle"
        /\ result' = "save_failed"
     \/ /\ s \in OwnState
        /\ pc' = "mkdir"
        /\ result' = "none"
  /\ subject' = s
  /\ prior' = file
  /\ UNCHANGED <<tmp, file, flash>>

MkdirP ==
  /\ pc = "mkdir"
  /\ Goto("open") \/ Return("save_failed")
  /\ UNCHANGED <<tmp, file, flash, prior>>

(* O_TRUNC: whatever an earlier save() left in path_.tmp is gone.          *)
OpenTmp ==
  /\ pc = "open"
  /\ \/ /\ Goto("write")
        /\ tmp' = [data |-> Torn, synced |-> FALSE]
     \/ /\ Return("save_failed")
        /\ UNCHANGED tmp
  /\ UNCHANGED <<file, flash, prior>>

(* Mutant: a short write goes unnoticed.                                   *)
WriteAllUnchecked ==
  /\ pc = "write"
  /\ Goto("sync")
  /\ tmp' \in {tmp, [tmp EXCEPT !.data = subject]}
  /\ UNCHANGED <<file, flash, prior>>

(* write_all() either writes the whole document or leaves a prefix of it.  *)
WriteAll ==
  /\ pc = "write"
  /\ \/ /\ Goto("sync")
        /\ tmp' = [tmp EXCEPT !.data = subject]
     \/ /\ Return("save_failed")
        /\ UNCHANGED tmp
  /\ UNCHANGED <<file, flash, prior>>

(* Mutant: no fsync before the rename.                                     *)
SyncTmpSkipped ==
  /\ pc = "sync"
  /\ Goto("rename")
  /\ UNCHANGED <<tmp, file, flash, prior>>

SyncTmp ==
  /\ pc = "sync"
  /\ \/ /\ Goto("rename")
        /\ tmp' = [tmp EXCEPT !.synced = TRUE]
     \/ /\ Return("save_failed")
        /\ UNCHANGED tmp
  /\ UNCHANGED <<file, flash, prior>>

(* The name moves atomically; a file whose data was not synced may come    *)
(* back torn after a power loss.                                           *)
RenameTmp ==
  /\ pc = "rename"
  /\ \/ /\ Goto("dirsync")
        /\ file' = tmp.data
        /\ flash' = flash \cup {tmp.data} \cup (IF tmp.synced THEN {} ELSE {Torn})
        /\ tmp' = NoTmp
     \/ /\ Return("save_failed")
        /\ UNCHANGED <<file, flash, tmp>>
  /\ UNCHANGED prior

(* Mutant: a failed fsync of the directory is reported as a failed save(). *)
SyncParentStrict ==
  /\ pc = "dirsync"
  /\ \/ flash' = {file} /\ Return("saved")
     \/ flash' = flash /\ Return("save_failed")
  /\ UNCHANGED <<tmp, file, prior>>

(* fsync of the parent directory is best effort: its failure is ignored.   *)
SyncParent ==
  /\ pc = "dirsync"
  /\ flash' \in {{file}, flash}
  /\ Return("saved")
  /\ UNCHANGED <<tmp, file, prior>>

(***************************************************************************)
(* clear() and load()                                                      *)
(***************************************************************************)
Clear ==
  /\ pc = "idle"
  /\ \/ /\ file' = NoFile
        /\ flash' = flash \cup {NoFile}
        /\ Return("cleared")
     \/ /\ file # NoFile
        /\ Return("clear_failed")
        /\ UNCHANGED <<file, flash>>
  /\ UNCHANGED <<tmp, prior>>

(* What load() answers for a content it could read.                        *)
LoadResult(content) ==
  CASE content \in OwnState -> "found"
    [] content = Oversize   -> "unreadable"
    [] OTHER                -> "ignored"

Load ==
  /\ pc = "idle"
  /\ \/ result' = LoadResult(file)
     \/ file # NoFile /\ result' = "unreadable"
  /\ subject' = IF result' = "found" THEN file ELSE NoFile
  /\ UNCHANGED <<pc, tmp, file, flash, prior>>

(***************************************************************************)
(* The environment                                                         *)
(***************************************************************************)
(* The kernel writes the directory back on its own.                        *)
Writeback ==
  /\ flash' = {file}
  /\ UNCHANGED <<pc, subject, tmp, file, result, prior>>

Restart ==
  /\ pc' = "idle"
  /\ subject' = NoFile
  /\ result' = "none"

(* SIGKILL, an abort or a SIGPIPE: the kernel keeps both files.            *)
ProcessDeath ==
  /\ Restart
  /\ UNCHANGED <<tmp, file, flash, prior>>

(* What is left of path_.tmp is arbitrary; nothing reads it before O_TRUNC. *)
PowerLoss ==
  /\ Restart
  /\ \E c \in flash : file' = c /\ flash' = {c}
  /\ tmp' \in {tmp, NoTmp, [data |-> Torn, synced |-> FALSE]}
  /\ UNCHANGED prior

SaveStep ==
  \/ MkdirP
  \/ OpenTmp
  \/ WriteAll
  \/ SyncTmp
  \/ RenameTmp
  \/ SyncParent

Next ==
  \/ \E s \in OwnState \cup BadState : Save(s)
  \/ SaveStep
  \/ Clear
  \/ Load
  \/ Writeback
  \/ ProcessDeath
  \/ PowerLoss

Spec == Init /\ [][Next]_vars

(***************************************************************************)
(* Properties                                                              *)
(***************************************************************************)
(* Types; a save() in progress is one of a state it accepted.              *)
TypeOK ==
  /\ pc \in Steps
  /\ subject \in OwnState \cup BadState \cup {NoFile}
  /\ pc # "idle" => subject \in OwnState
  /\ tmp \in [data : Contents, synced : BOOLEAN]
  /\ file \in Contents
  /\ flash \in SUBSET Contents
  /\ result \in Results
  /\ prior \in Contents

(* Neither a reader of path_ nor a reader after a power loss at any point  *)
(* of save() sees a half written document: the data is synced before the   *)
(* name moves (README "atomic managed-state writes").                      *)
NeverTorn == Torn \notin flash \cup {file}

(* save() is honest: when it reported success path_ shows the new state,   *)
(* when it reported failure path_ still shows what it showed before the    *)
(* call, whichever of its system calls failed.                             *)
SaveIsAllOrNothing ==
  /\ result = "saved" => file = subject
  /\ result = "save_failed" => file = prior

(* Along a save() path_.tmp is what the next system call relies on: whole  *)
(* from the sync on, durable from the rename on, and path_ shows the new   *)
(* state once the name has moved.                                          *)
SaveProgress ==
  /\ pc # "idle" => result = "none"
  /\ pc \in Steps \ {"idle", "dirsync"} => file = prior
  /\ pc = "write" => tmp.data = Torn
  /\ pc = "sync" => tmp.data = subject
  /\ pc = "rename" => tmp = [data |-> subject, synced |-> TRUE]
  /\ pc = "dirsync" => file = subject

Store == INSTANCE StateStore WITH
  Values <- OwnState,
  Initial <- {NoFile, Foreign, Oversize} \cup OwnState,
  val <- file,
  stable <- flash

(* The whole repository, with crashes, implements the register the daemon  *)
(* relies on: save() replaces it, clear() empties it, a power loss takes   *)
(* it back to a whole earlier value or keeps the new one.                  *)
ImplementsStateStore == Store!Spec
=============================================================================
