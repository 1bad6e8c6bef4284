------------------------------- MODULE LockFile -------------------------------
(***************************************************************************)
(* _lock.write_lock(): the steps by which several processes replace        *)
(* mpat.lock, with the failures, kills and power losses between them.      *)
(*                                                                         *)
(* A file is its content and what the kernel has done with it: whether all *)
(* bytes were written, whether they are on the disk, and its mode.  The    *)
(* temporary files have unique names, so each belongs to one call; those   *)
(* a killed call leaves behind are never looked at again.                  *)
(***************************************************************************)
CONSTANTS
    Writers,    \* processes that run `mpat lock`
    Locks,      \* the locks they may write
    None,       \* no lock
    Torn        \* what a reader makes of a file with missing bytes

ASSUME LockAssumption == None \notin Locks /\ Torn \notin Locks /\ None # Torn

VARIABLES
    file,       \* the file at mpat.lock
    disk,       \* the file the directory entry on the disk points to
    tmp,        \* the temporary file of each writer
    pc          \* how far each writer is in write_lock()

vars == <<file, disk, tmp, pc>>

NoFile == [lock |-> None, written |-> TRUE, synced |-> TRUE, mode |-> "0644"]
File == [lock : Locks, written : BOOLEAN, synced : BOOLEAN, mode : {"0600", "0644"}]
            \cup {NoFile}

Writing == {"created", "flushed", "synced", "readable"}

TypeOK ==
    /\ file \in File
    /\ disk \in File
    /\ tmp \in [Writers -> File]
    /\ pc \in [Writers -> Writing \cup {"idle", "replaced", "handler", "raising"}]

\* The lock a reader parses out of a file.
Content(f) == IF f.written THEN f.lock ELSE Torn

Init ==
    /\ \E v \in Locks \cup {None} :
          file = [lock |-> v, written |-> TRUE, synced |-> TRUE, mode |-> "0644"]
    /\ disk = file
    /\ tmp = [w \in Writers |-> NoFile]
    /\ pc = [w \in Writers |-> "idle"]

--------------------------------------------------------------------------------
(* write_lock(), step by step.                                             *)

Goto(w, from, to) == pc[w] = from /\ pc' = [pc EXCEPT ![w] = to]

\* tempfile.mkstemp(): a private empty file beside mpat.lock.
Create(w, v) ==
    /\ Goto(w, "idle", "created")
    /\ tmp' = [tmp EXCEPT ![w] =
                  [lock |-> v, written |-> FALSE, synced |-> FALSE, mode |-> "0600"]]
    /\ UNCHANGED <<file, disk>>

\* tomli_w.dump() and fh.flush().
Flush(w) ==
    /\ Goto(w, "created", "flushed")
    /\ tmp' = [tmp EXCEPT ![w].written = TRUE]
    /\ UNCHANGED <<file, disk>>

\* Mutant: no fsync.
SyncSkipped(w) ==
    /\ Goto(w, "flushed", "synced")
    /\ UNCHANGED <<tmp, file, disk>>

\* os.fsync().
Sync(w) ==
    /\ Goto(w, "flushed", "synced")
    /\ tmp' = [tmp EXCEPT ![w].synced = TRUE]
    /\ UNCHANGED <<file, disk>>

\* Mutant: the mode is left as mkstemp() set it.
ChmodSkipped(w) ==
    /\ Goto(w, "synced", "readable")
    /\ UNCHANGED <<tmp, file, disk>>

\* os.chmod(tmp, LOCK_FILE_MODE).
Chmod(w) ==
    /\ Goto(w, "synced", "readable")
    /\ tmp' = [tmp EXCEPT ![w].mode = "0644"]
    /\ UNCHANGED <<file, disk>>

\* Mutant: not the file but what it holds.
ReplaceByContent(w) ==
    /\ Goto(w, "readable", "replaced")
    /\ file' = tmp[w].lock
    /\ tmp' = [tmp EXCEPT ![w] = NoFile]
    /\ UNCHANGED <<disk>>

\* os.replace(tmp, path).
Replace(w) ==
    /\ Goto(w, "readable", "replaced")
    /\ file' = tmp[w]
    /\ tmp' = [tmp EXCEPT ![w] = NoFile]
    /\ UNCHANGED <<disk>>

Return(w) ==
    /\ Goto(w, "replaced", "idle") \/ Goto(w, "raising", "idle")
    /\ UNCHANGED <<file, disk, tmp>>

\* A full disk, a lost permission, a KeyboardInterrupt, at any step of the try block.
Fail(w) ==
    /\ pc[w] \in Writing \cup {"replaced"}
    /\ pc' = [pc EXCEPT ![w] = "handler"]
    /\ UNCHANGED <<file, disk, tmp>>

\* Mutant: the handler re-raises at once.
CleanupSkipped(w) ==
    /\ Goto(w, "handler", "raising")
    /\ UNCHANGED <<tmp, file, disk>>

\* Mutant: the handler unlinks mpat.lock.
CleanupOfLock(w) ==
    /\ Goto(w, "handler", "raising")
    /\ tmp' = [tmp EXCEPT ![w] = NoFile]
    /\ file' = NoFile
    /\ UNCHANGED <<disk>>

\* The except clause: unlink the temporary file if it is still there, raise.
Cleanup(w) ==
    /\ Goto(w, "handler", "raising")
    /\ tmp' = [tmp EXCEPT ![w] = NoFile]
    /\ UNCHANGED <<file, disk>>

--------------------------------------------------------------------------------
(* What happens to the process and the machine.                            *)

\* A signal no handler sees: the temporary file stays.
Kill(w) ==
    /\ pc[w] # "idle"
    /\ pc' = [pc EXCEPT ![w] = "idle"]
    /\ tmp' = [tmp EXCEPT ![w] = NoFile]
    /\ UNCHANGED <<file, disk>>

\* The kernel writes the directory back.
WriteBack ==
    /\ disk' = file
    /\ UNCHANGED <<file, tmp, pc>>

\* Every process dies; of a file that was not synced, bytes may be missing.
PowerLoss ==
    /\ file' = disk \/ (~disk.synced /\ file' = [disk EXCEPT !.written = FALSE])
    /\ disk' = file'
    /\ tmp' = [w \in Writers |-> NoFile]
    /\ pc' = [w \in Writers |-> "idle"]

Write(w) ==
    \/ \E v \in Locks : Create(w, v)
    \/ Flush(w) \/ Sync(w) \/ Chmod(w) \/ Replace(w)
    \/ Fail(w) \/ Cleanup(w) \/ Return(w)

Next ==
    \/ \E w \in Writers : Write(w) \/ Kill(w)
    \/ WriteBack \/ PowerLoss

Spec == Init /\ [][Next]_vars

--------------------------------------------------------------------------------
(* Properties.                                                             *)

\* mpat.lock is never half-written, whoever fails or dies at whatever step, and not
\* after a power loss either ("There is no window where mpat.lock is half-written").
LockIsWhole == Content(file) # Torn /\ Content(disk) # Torn

\* mpat.lock can be read by everybody from the moment it appears: the private mode of
\* the temporary file is never seen under that name.
LockIsReadable == file.mode = "0644"

\* write_lock() raises only after its temporary file is gone.
FailureLeavesNoFile == \A w \in Writers :
    pc[w] \in {"idle", "replaced", "raising"} => tmp[w] = NoFile

\* Every write_lock() call is one atomic replacement of a whole lock, or none: the
\* steps, failures and deaths above implement AtomicLock.
Call == [w \in Writers |-> IF pc[w] \in Writing THEN tmp[w].lock ELSE None]

Atomic == INSTANCE AtomicLock WITH
    value <- Content(file), stable <- Content(disk), call <- Call

ImplementsAtomicLock == Atomic!Spec

================================================================================
