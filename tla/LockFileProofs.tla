---------------------------- MODULE LockFileProofs ----------------------------
(***************************************************************************)
(* Theorems about LockFile, for every set of writers and locks.            *)
(***************************************************************************)
EXTENDS LockFile, TLAPS

--------------------------------------------------------------------------------
(* The inductive invariant.                                                *)

\* A temporary file has what its writer's position in write_lock() says it has.
TmpFollowsPc == \A w \in Writers :
    /\ pc[w] \in Writing => tmp[w] # NoFile /\ tmp[w].lock # None
    /\ pc[w] \in {"idle", "replaced", "raising"} => tmp[w] = NoFile
    /\ pc[w] \in {"flushed", "synced", "readable"} => tmp[w].written
    /\ pc[w] \in {"synced", "readable"} => tmp[w].synced
    /\ pc[w] = "readable" => tmp[w].mode = "0644"

\* A file that is, or may come back, under the name mpat.lock.
Good(f) == f.written /\ f.synced /\ f.mode = "0644"

LockInv == TypeOK /\ TmpFollowsPc /\ Good(file) /\ Good(disk)

LEMMA NoFileFields ==
    NoFile.lock = None /\ NoFile.written = TRUE /\ NoFile.synced = TRUE /\ NoFile.mode = "0644"
BY DEF NoFile

LEMMA InitLockInv == Init => LockInv
<1> SUFFICES ASSUME Init PROVE LockInv
  OBVIOUS
<1>1. PICK v \in Locks \cup {None} :
          file = [lock |-> v, written |-> TRUE, synced |-> TRUE, mode |-> "0644"]
  BY DEF Init
<1>2. file \in File /\ Good(file)
  BY <1>1 DEF File, NoFile, Good
<1>3. TypeOK
  BY <1>2 DEF Init, TypeOK, File
<1>4. TmpFollowsPc
  BY DEF Init, TmpFollowsPc, Writing
<1> QED
  BY <1>2, <1>3, <1>4 DEF Init, LockInv

\* A step of one writer w that leaves mpat.lock alone keeps the invariant if the new
\* temporary file and the new position of w fit together.
LEMMA WriterStep ==
    ASSUME LockInv, NEW w \in Writers, NEW f \in File, NEW to,
           to \in Writing \cup {"idle", "replaced", "handler", "raising"},
           tmp' = [tmp EXCEPT ![w] = f], pc' = [pc EXCEPT ![w] = to],
           to \in Writing => f # NoFile /\ f.lock # None,
           to \in {"idle", "replaced", "raising"} => f = NoFile,
           to \in {"flushed", "synced", "readable"} => f.written,
           to \in {"synced", "readable"} => f.synced,
           to = "readable" => f.mode = "0644",
           file' \in File, Good(file)', UNCHANGED disk
    PROVE  LockInv'
<1>1. TypeOK'
  BY DEF LockInv, TypeOK
<1>2. TmpFollowsPc'
  <2> SUFFICES ASSUME NEW u \in Writers
               PROVE  /\ pc'[u] \in Writing => tmp'[u] # NoFile /\ tmp'[u].lock # None
                      /\ pc'[u] \in {"idle", "replaced", "raising"} => tmp'[u] = NoFile
                      /\ pc'[u] \in {"flushed", "synced", "readable"} => tmp'[u].written
                      /\ pc'[u] \in {"synced", "readable"} => tmp'[u].synced
                      /\ pc'[u] = "readable" => tmp'[u].mode = "0644"
    BY DEF TmpFollowsPc
  <2>1. CASE u = w
    <3>1. tmp'[u] = f /\ pc'[u] = to
      BY <2>1 DEF LockInv, TypeOK
    <3> QED
      BY <3>1
  <2>2. CASE u # w
    <3>1. tmp'[u] = tmp[u] /\ pc'[u] = pc[u]
      BY <2>2 DEF LockInv, TypeOK
    <3> QED
      BY <3>1 DEF LockInv, TmpFollowsPc
  <2> QED
    BY <2>1, <2>2
<1> QED
  BY <1>1, <1>2 DEF LockInv, Good

LEMMA FreshFile ==
    ASSUME NEW v \in Locks
    PROVE  LET f == [lock |-> v, written |-> FALSE, synced |-> FALSE, mode |-> "0600"]
           IN  f \in File /\ f # NoFile /\ f.lock # None
BY LockAssumption DEF File, NoFile

LEMMA WriteLockInv ==
    ASSUME LockInv, NEW w \in Writers, Write(w) \/ Kill(w)
    PROVE  LockInv'
<1>1. ASSUME NEW v \in Locks, Create(w, v) PROVE LockInv'
  BY <1>1, FreshFile, WriterStep DEF Create, Goto, LockInv, TypeOK, Writing
<1> DEFINE f == tmp[w]
<1>2. f \in File /\ disk \in File /\ file \in File
  BY DEF LockInv, TypeOK
<1>3. /\ pc[w] \in Writing => f # NoFile /\ f.lock # None
      /\ pc[w] \in {"idle", "replaced", "raising"} => f = NoFile
      /\ pc[w] \in {"flushed", "synced", "readable"} => f.written
      /\ pc[w] \in {"synced", "readable"} => f.synced
      /\ pc[w] = "readable" => f.mode = "0644"
  BY DEF LockInv, TmpFollowsPc
\* A temporary file in use is a full record, so its fields can be set one by one.
<1>4. ASSUME pc[w] \in Writing
      PROVE  /\ f.lock \in Locks
             /\ f \in [lock : Locks, written : BOOLEAN, synced : BOOLEAN,
                       mode : {"0600", "0644"}]
  BY <1>2, <1>3, <1>4 DEF File
<1> HIDE DEF f
<1>5. ASSUME Flush(w) PROVE LockInv'
  <2> DEFINE g == [f EXCEPT !.written = TRUE]
  <2>1. pc[w] = "created" /\ f.lock \in Locks
    BY <1>4, <1>5 DEF Flush, Goto, Writing
  <2>2. g \in File /\ g # NoFile /\ g.lock # None /\ g.written
    BY <1>4, <2>1, LockAssumption, NoFileFields DEF File, Writing
  <2>3. tmp' = [tmp EXCEPT ![w] = g]
    BY <1>5 DEF Flush, f
  <2> HIDE DEF g
  <2> QED
    BY <1>2, <1>5, <2>2, <2>3, WriterStep DEF Flush, Goto, LockInv, TypeOK, Writing
<1>6. ASSUME Sync(w) PROVE LockInv'
  <2> DEFINE g == [f EXCEPT !.synced = TRUE]
  <2>1. pc[w] = "flushed" /\ f.lock \in Locks /\ f.written
    BY <1>3, <1>4, <1>6 DEF Sync, Goto, Writing
  <2>2. g \in File /\ g # NoFile /\ g.lock # None /\ g.written /\ g.synced
    BY <1>4, <2>1, LockAssumption, NoFileFields DEF File, Writing
  <2>3. tmp' = [tmp EXCEPT ![w] = g]
    BY <1>6 DEF Sync, f
  <2> HIDE DEF g
  <2> QED
    BY <1>2, <1>6, <2>2, <2>3, WriterStep DEF Sync, Goto, LockInv, TypeOK, Writing
<1>7. ASSUME Chmod(w) PROVE LockInv'
  <2> DEFINE g == [f EXCEPT !.mode = "0644"]
  <2>1. pc[w] = "synced" /\ f.lock \in Locks /\ f.written /\ f.synced
    BY <1>3, <1>4, <1>7 DEF Chmod, Goto, Writing
  <2>2. /\ g \in File /\ g # NoFile /\ g.lock # None
        /\ g.written /\ g.synced /\ g.mode = "0644"
    BY <1>4, <2>1, LockAssumption, NoFileFields DEF File, Writing
  <2>3. tmp' = [tmp EXCEPT ![w] = g]
    BY <1>7 DEF Chmod, f
  <2> HIDE DEF g
  <2> QED
    BY <1>2, <1>7, <2>2, <2>3, WriterStep DEF Chmod, Goto, LockInv, TypeOK, Writing
<1>8. ASSUME Replace(w) PROVE LockInv'
  <2>1. Good(f) /\ file' = f
    BY <1>3, <1>8 DEF Replace, Goto, Good, f
  <2>2. NoFile \in File
    BY DEF File
  <2> QED
    BY <1>2, <1>8, <2>1, <2>2, WriterStep
       DEF Replace, Goto, LockInv, TypeOK, Writing, Good
<1>9. ASSUME Return(w) \/ Fail(w) PROVE LockInv'
  <2>1. tmp' = [tmp EXCEPT ![w] = f]
    BY <1>9 DEF Return, Fail, LockInv, TypeOK, f
  <2>2. PICK to \in {"idle", "handler"} :
            /\ pc' = [pc EXCEPT ![w] = to]
            /\ to = "idle" => f = NoFile
    BY <1>3, <1>9 DEF Return, Fail, Goto
  <2> QED
    BY <1>2, <1>9, <2>1, <2>2, WriterStep DEF Return, Fail, LockInv, TypeOK, Writing, Good
<1>10. ASSUME Cleanup(w) PROVE LockInv'
  <2>1. NoFile \in File
    BY DEF File
  <2> QED
    BY <1>2, <1>10, <2>1, WriterStep DEF Cleanup, Goto, LockInv, TypeOK, Writing, Good
<1>11. ASSUME Kill(w) PROVE LockInv'
  <2>1. NoFile \in File
    BY DEF File
  <2> QED
    BY <1>2, <1>11, <2>1, WriterStep DEF Kill, LockInv, TypeOK, Writing, Good
<1> QED
  BY <1>1, <1>5, <1>6, <1>7, <1>8, <1>9, <1>10, <1>11 DEF Write

LEMMA NextLockInv == LockInv /\ [Next]_vars => LockInv'
<1> SUFFICES ASSUME LockInv, [Next]_vars PROVE LockInv'
  OBVIOUS
<1>1. ASSUME NEW w \in Writers, Write(w) \/ Kill(w) PROVE LockInv'
  BY <1>1, WriteLockInv
<1>2. CASE WriteBack
  BY <1>2 DEF WriteBack, LockInv, TypeOK, TmpFollowsPc, Good
<1>3. CASE PowerLoss
  <2>1. file' = disk /\ disk' = disk
    BY <1>3 DEF PowerLoss, LockInv, Good
  <2>2. TypeOK'
    BY <1>3, <2>1 DEF PowerLoss, LockInv, TypeOK, File
  <2>3. TmpFollowsPc'
    BY <1>3 DEF PowerLoss, TmpFollowsPc, Writing
  <2> QED
    BY <2>1, <2>2, <2>3 DEF LockInv, Good
<1>4. CASE UNCHANGED vars
  BY <1>4 DEF vars, LockInv, TypeOK, TmpFollowsPc, Good
<1> QED
  BY <1>1, <1>2, <1>3, <1>4 DEF Next

--------------------------------------------------------------------------------
(* The theorems.                                                           *)

\* Every state of the lock file and its writers is well typed.
THEOREM TypeCorrect == Spec => []TypeOK
<1>1. LockInv => TypeOK
  BY DEF LockInv
<1> QED
  BY InitLockInv, NextLockInv, <1>1, PTL DEF Spec

\* mpat.lock is whole at every moment, whatever fails, dies or loses power, for any
\* number of concurrent writers.
THEOREM LockAlwaysWhole == Spec => []LockIsWhole
<1>1. LockInv => LockIsWhole
  BY LockAssumption DEF LockInv, TypeOK, LockIsWhole, Content, Good, File, NoFile
<1> QED
  BY InitLockInv, NextLockInv, <1>1, PTL DEF Spec

\* The file under the name mpat.lock always has the mode everybody can read.
THEOREM LockAlwaysReadable == Spec => []LockIsReadable
<1>1. LockInv => LockIsReadable
  BY DEF LockInv, LockIsReadable, Good
<1> QED
  BY InitLockInv, NextLockInv, <1>1, PTL DEF Spec
\* A call that has failed, or is over, has no temporary file left.
THEOREM FailureCleansUp == Spec => []FailureLeavesNoFile
<1>1. LockInv => FailureLeavesNoFile
  BY DEF LockInv, TmpFollowsPc, FailureLeavesNoFile
<1> QED
  BY InitLockInv, NextLockInv, <1>1, PTL DEF Spec

--------------------------------------------------------------------------------
(* The refinement.                                                         *)

LEMMA CallOf ==
    ASSUME NEW w \in Writers
    PROVE  /\ pc[w] \in Writing => Call[w] = tmp[w].lock
           /\ pc[w] \notin Writing => Call[w] = None
BY DEF Call

LEMMA InitRefines == Init => Atomic!Init
<1> SUFFICES ASSUME Init PROVE Atomic!Init
  OBVIOUS
<1>1. PICK v \in Locks \cup {None} :
          file = [lock |-> v, written |-> TRUE, synced |-> TRUE, mode |-> "0644"]
  BY DEF Init
<1>2. Content(file) = v /\ disk = file
  BY <1>1 DEF Init, Content
<1>3. Call = [w \in Writers |-> None]
  BY DEF Init, Call, Writing
<1> QED
  BY <1>2, <1>3 DEF Atomic!Init

LEMMA StepRefines == LockInv /\ LockInv' /\ [Next]_vars => [Atomic!Next]_(Atomic!vars)
<1> SUFFICES ASSUME LockInv, LockInv', [Next]_vars
             PROVE  Atomic!Next \/ UNCHANGED Atomic!vars
  OBVIOUS
<1> USE DEF Atomic!vars
\* A writer that moves on within the try block, or outside of it, is not seen.
<1>1. ASSUME NEW w \in Writers, NEW to, pc' = [pc EXCEPT ![w] = to],
             \A u \in Writers : u # w => tmp'[u] = tmp[u],
             UNCHANGED <<file, disk>>,
             \/ pc[w] \in Writing /\ to \in Writing /\ tmp'[w].lock = tmp[w].lock
             \/ pc[w] \notin Writing /\ to \notin Writing
      PROVE  UNCHANGED Atomic!vars
  <2>1. \A u \in Writers : u # w => pc'[u] = pc[u]
    BY <1>1 DEF LockInv, TypeOK
  <2>2. pc'[w] = to
    BY <1>1 DEF LockInv, TypeOK
  <2>3. Call' = Call
    BY <1>1, <2>1, <2>2 DEF Call
  <2> QED
    BY <1>1, <2>3
\* A writer that gives up inside the try block aborts.
<1>2. ASSUME NEW w \in Writers, NEW to, pc' = [pc EXCEPT ![w] = to], to \notin Writing,
             \A u \in Writers : u # w => tmp'[u] = tmp[u],
             UNCHANGED <<file, disk>>
      PROVE  Atomic!Abort(w)
  <2>1. Call' = [Call EXCEPT ![w] = None]
    BY <1>2 DEF Call, LockInv, TypeOK
  <2> QED
    BY <1>2, <2>1 DEF Atomic!Abort
<1>3. ASSUME NEW w \in Writers, NEW v \in Locks, Create(w, v) PROVE Atomic!Begin(w, v)
  <2>1. pc[w] = "idle" /\ pc' = [pc EXCEPT ![w] = "created"]
    BY <1>3 DEF Create, Goto
  <2>2. Call[w] = None
    BY <2>1, CallOf DEF Writing
  <2>3. tmp'[w].lock = v /\ \A u \in Writers : u # w => tmp'[u] = tmp[u]
    BY <1>3 DEF Create, LockInv, TypeOK
  <2>4. Call' = [Call EXCEPT ![w] = v]
    BY <2>1, <2>3 DEF Call, LockInv, TypeOK, Writing
  <2> QED
    BY <1>3, <2>2, <2>4 DEF Create, Atomic!Begin
<1>4. ASSUME NEW w \in Writers, Flush(w) \/ Sync(w) \/ Chmod(w)
      PROVE  UNCHANGED Atomic!vars
  <2>1. PICK to \in Writing : pc' = [pc EXCEPT ![w] = to]
    BY <1>4 DEF Flush, Sync, Chmod, Goto, Writing
  <2>2. pc[w] \in Writing
    BY <1>4 DEF Flush, Sync, Chmod, Goto, Writing
  <2>3. /\ tmp'[w].lock = tmp[w].lock
        /\ \A u \in Writers : u # w => tmp'[u] = tmp[u]
    <3>1. tmp[w] # NoFile
      BY <2>2 DEF LockInv, TmpFollowsPc
    <3>2. tmp[w] \in [lock : Locks, written : BOOLEAN, synced : BOOLEAN,
                      mode : {"0600", "0644"}]
      BY <3>1 DEF LockInv, TypeOK, File
    <3> QED
      BY <1>4, <3>2 DEF Flush, Sync, Chmod, LockInv, TypeOK
  <2>4. UNCHANGED <<file, disk>>
    BY <1>4 DEF Flush, Sync, Chmod
  <2> QED
    BY <1>1, <2>1, <2>2, <2>3, <2>4
<1>5. ASSUME NEW w \in Writers, Replace(w) PROVE Atomic!Commit(w)
  <2>1. pc[w] = "readable" /\ pc' = [pc EXCEPT ![w] = "replaced"]
    BY <1>5 DEF Replace, Goto
  <2>2. Call[w] = tmp[w].lock /\ Call[w] # None
    BY <2>1, CallOf DEF LockInv, TmpFollowsPc, Writing
  <2>3. Content(file)' = tmp[w].lock
    BY <1>5 DEF Replace, Content, LockInv, Good
  <2>4. Call' = [Call EXCEPT ![w] = None]
    BY <1>5, <2>1 DEF Replace, Call, LockInv, TypeOK, Writing
  <2> QED
    BY <1>5, <2>2, <2>3, <2>4 DEF Replace, Atomic!Commit
<1>6. ASSUME NEW w \in Writers, Return(w) \/ Cleanup(w) PROVE UNCHANGED Atomic!vars
  <2>1. PICK to \in {"idle", "raising"} : pc' = [pc EXCEPT ![w] = to]
    BY <1>6 DEF Return, Cleanup, Goto
  <2>2. pc[w] \notin Writing /\ to \notin Writing
    BY <1>6, <2>1 DEF Return, Cleanup, Goto, Writing
  <2>3. /\ \A u \in Writers : u # w => tmp'[u] = tmp[u]
        /\ UNCHANGED <<file, disk>>
    BY <1>6 DEF Return, Cleanup, LockInv, TypeOK
  <2> QED
    BY <1>1, <2>1, <2>2, <2>3
<1>7. ASSUME NEW w \in Writers, Fail(w) \/ Kill(w) PROVE Atomic!Abort(w)
  <2>1. PICK to \in {"handler", "idle"} : pc' = [pc EXCEPT ![w] = to]
    BY <1>7 DEF Fail, Kill
  <2>2. to \notin Writing
    BY DEF Writing
  <2>3. /\ \A u \in Writers : u # w => tmp'[u] = tmp[u]
        /\ UNCHANGED <<file, disk>>
    BY <1>7 DEF Fail, Kill, LockInv, TypeOK
  <2> QED
    BY <1>2, <2>1, <2>2, <2>3
<1>8. CASE WriteBack
  <2>1. Atomic!Persist
    BY <1>8 DEF WriteBack, Atomic!Persist, Call, Content
  <2> QED
    BY <2>1 DEF Atomic!Next
<1>9. CASE PowerLoss
  <2>1. file' = disk /\ disk' = disk
    BY <1>9 DEF PowerLoss, LockInv, Good
  <2>2. Call' = [w \in Writers |-> None]
    BY <1>9 DEF PowerLoss, Call, Writing
  <2>3. Atomic!Crash
    BY <2>1, <2>2 DEF Atomic!Crash, Content
  <2> QED
    BY <2>3 DEF Atomic!Next
<1>10. CASE UNCHANGED vars
  BY <1>10 DEF vars, Atomic!vars, Call, Content
<1>11. ASSUME NEW w \in Writers, Write(w) \/ Kill(w)
       PROVE  Atomic!Next \/ UNCHANGED Atomic!vars
  BY <1>3, <1>4, <1>5, <1>6, <1>7, <1>11 DEF Write, Atomic!Next
<1> QED
  BY <1>8, <1>9, <1>10, <1>11 DEF Next, Atomic!Next

\* write_lock() implements the atomic lock: each call takes effect in one step, at most
\* once, or not at all, and a crash restores a lock that was in place before.
THEOREM LockFileImplementsAtomicLock == Spec => ImplementsAtomicLock
<1>1. LockInv /\ LockInv' /\ [Next]_vars => [Atomic!Next]_(Atomic!vars)
  BY StepRefines
<1> QED
  BY InitRefines, InitLockInv, NextLockInv, <1>1, PTL
     DEF Spec, ImplementsAtomicLock, Atomic!Spec

================================================================================
