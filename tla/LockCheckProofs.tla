---------------------------- MODULE LockCheckProofs ----------------------------
(***************************************************************************)
(* Theorems about LockCheck, for every set of targets, releases and        *)
(* projects.                                                               *)
(***************************************************************************)
EXTENDS LockCheck, WellFoundedInduction, TLAPS

--------------------------------------------------------------------------------
(* expand().                                                               *)

\* A set of naturals that is not empty has a first element.
LEMMA FirstOfSet ==
    ASSUME NEW S \in SUBSET Nat, S # {}
    PROVE  First(S) \in S /\ \A y \in S : First(S) <= y
<1>1. \E x \in S : \A y \in S : ~ (<<y, x>> \in OpToRel(<, Nat))
  BY NatLessThanWellFounded, WFMin, Zenon
<1>2. PICK x \in S : \A y \in S : ~ (<<y, x>> \in OpToRel(<, Nat))
  BY <1>1
<1>3. \A y \in S : x <= y
  <2> TAKE y \in S
  <2>1. ~ (<<y, x>> \in {ss \in Nat \X Nat : ss[1] < ss[2]})
    BY <1>2, Zenon DEF OpToRel
  <2>2. ~ (y < x)
    BY <2>1
  <2> QED
    BY <2>2
<1> QED
  BY <1>3 DEF First

LEMMA WantedAreTargets ==
    ASSUME NEW ds \in Seq(Declaration)
    PROVE  Wanted(ds) \subseteq Targets
<1>1. \A i \in DOMAIN ds : ds[i] \in Declaration
  OBVIOUS
<1>2. \A i \in DOMAIN ds : ds[i].target \in Targets /\ ds[i].depends \subseteq Targets
  BY <1>1 DEF Declaration
<1> QED
  BY <1>2 DEF Wanted, DeclaredIn

\* What is wanted of a target comes from one declaration, which names it as its own or,
\* if no declaration does, depends on it.
LEMMA ExpandedFrom ==
    ASSUME NEW ds \in Seq(Declaration), NEW t \in Wanted(ds)
    PROVE  LET w == Expand(ds)[t]
           IN  /\ w.decl \in Declaration
               /\ w.decl.target \in DeclaredIn(ds)
               /\ w.track \in BOOLEAN
               /\ t \in DeclaredIn(ds) =>
                     /\ w.decl.target = t
                     /\ w.track = w.decl.track
               /\ t \notin DeclaredIn(ds) =>
                     /\ t \in w.decl.depends
                     /\ w.track = TRUE
<1>1. \A i \in DOMAIN ds : ds[i] \in Declaration /\ i \in Nat
  OBVIOUS
<1>2. CASE t \in DeclaredIn(ds)
  <2> DEFINE i == First(Declaring(ds, t))
  <2>1. Declaring(ds, t) \in SUBSET Nat /\ Declaring(ds, t) # {}
    BY <1>1, <1>2 DEF Declaring, DeclaredIn
  <2>2. i \in DOMAIN ds /\ ds[i].target = t
    BY <2>1, FirstOfSet DEF Declaring
  <2>3. Expand(ds)[t] =
          [decl |-> ds[i], role |-> ds[i].role, parent |-> None, track |-> ds[i].track,
           declared_in |-> ds[i].declared_in]
    BY <1>2 DEF Expand, Itself
  <2>4. ds[i] \in Declaration
    BY <1>1, <2>2
  <2>5. ds[i].track \in BOOLEAN
    BY <2>4 DEF Declaration
  <2> QED
    BY <1>2, <2>2, <2>3, <2>4, <2>5
<1>3. CASE t \notin DeclaredIn(ds)
  <2> DEFINE i == First(DependingOn(ds, t))
  <2>1. DependingOn(ds, t) \in SUBSET Nat /\ DependingOn(ds, t) # {}
    BY <1>1, <1>3 DEF DependingOn, Wanted
  <2>2. i \in DOMAIN ds /\ t \in ds[i].depends
    BY <2>1, FirstOfSet DEF DependingOn
  <2>3. Expand(ds)[t] =
          [decl |-> ds[i], role |-> "depends_on", parent |-> ds[i].target, track |-> TRUE,
           declared_in |-> ds[i].declared_in]
    BY <1>3 DEF Expand, Dependency
  <2>4. ds[i] \in Declaration /\ ds[i].target \in DeclaredIn(ds)
    BY <1>1, <2>2 DEF DeclaredIn
  <2>5. /\ Expand(ds)[t].decl = ds[i]
        /\ Expand(ds)[t].track = TRUE
    BY <2>3
  <2> QED
    BY <1>3, <2>2, <2>4, <2>5
<1> QED
  BY <1>2, <1>3

--------------------------------------------------------------------------------
(* The lock and compare().                                                 *)

\* What is written to mpat.lock is what is read from it.
LEMMA ParsedIsWritten ==
    ASSUME NEW e, e = [key \in Fields |-> e[key]]
    PROVE  Parsed(Written(e)) = e
BY DEF Parsed, Written

LEMMA EntryParsed ==
    ASSUME NEW w, NEW object
    PROVE  Parsed(Written(Entry(w, object))) = Entry(w, object)
BY ParsedIsWritten DEF Entry

LEMMA EntryFields ==
    ASSUME NEW w, NEW object
    PROVE  LET e == Entry(w, object)
           IN  /\ e.role = w.role /\ e.parent = w.parent /\ e.track = w.track
               /\ \A key \in Read : e[key] = Fingerprint(object, w.track)[key]
BY DEF Entry, Fields, Read

LEMMA FingerprintIsObject ==
    ASSUME NEW object, object = [key \in Read |-> object[key]], NEW track
    PROVE  LET fp == Fingerprint(object, track)
           IN  fp = [key \in Read |-> fp[key]]
<1>1. CASE object.kind = "attribute" /\ ~track
  <2>1. Fingerprint(object, track) = [object EXCEPT !.value = None]
    BY <1>1 DEF Fingerprint
  <2> QED
    BY <2>1
<1>2. CASE ~(object.kind = "attribute" /\ ~track)
  BY <1>2 DEF Fingerprint
<1> QED
  BY <1>1, <1>2

\* compare() says "ok" of two equal fingerprints.
LEMMA CompareEqual ==
    ASSUME NEW e, NEW o, \A key \in Read : e[key] = o[key]
    PROVE  Compare(e, o) = "ok"
BY DEF Compare, Read

\* compare() says "ok" only of fingerprints that agree on everything but the file.
LEMMA CompareOk ==
    ASSUME NEW e, NEW o, Compare(e, o) = "ok"
    PROVE  /\ e.resolved = o.resolved /\ e.kind = o.kind /\ e.signature = o.signature
           /\ e.value = o.value /\ e.source = o.source
BY DEF Compare

--------------------------------------------------------------------------------
(* The inductive invariant: mpat.lock is the lock of the last `mpat lock`.   *)

LockIsOfAudit == lock = LockOf(audited.project, audited.upstream)

CheckInv == TypeOK /\ LockIsOfAudit

LEMMA EmptyProject == Wanted(<<>>) = {} /\ <<>> \in Seq(Declaration)
BY DEF Wanted, DeclaredIn

LEMMA InitCheckInv == Init => CheckInv
<1> SUFFICES ASSUME Init PROVE CheckInv
  OBVIOUS
<1>1. audited.project = <<>> /\ audited.upstream = <<>> /\ DOMAIN audited.upstream = {}
  BY DEF Init
<1>2. lock = [t \in {} |-> Written(Entry(Expand(<<>>)[t], <<>>[t]))]
  BY EmptyProject DEF Init, LockOf
<1>3. LockIsOfAudit
  BY <1>1 DEF Init, LockIsOfAudit
<1>4. TypeOK
  BY <1>1, <1>2, EmptyProject, DayAssumption DEF Init, TypeOK
<1> QED
  BY <1>3, <1>4 DEF CheckInv

LEMMA NextCheckInv == CheckInv /\ [Next]_vars => CheckInv'
<1> SUFFICES ASSUME CheckInv, [Next]_vars PROVE CheckInv'
  OBVIOUS
<1> USE DEF CheckInv
<1>1. CASE Lock
  <2>1. audited'.project = project /\ audited'.upstream = upstream
    BY <1>1 DEF Lock
  <2>2. LockIsOfAudit'
    BY <1>1, <2>1 DEF Lock, LockIsOfAudit
  <2>3. DOMAIN lock' = Wanted(project)
    BY <1>1 DEF Lock, LockOf
  <2>4. Wanted(project) \subseteq Targets
    BY WantedAreTargets, ProjectsAssumption DEF TypeOK
  <2>5. TypeOK'
    BY <1>1, <2>1, <2>3, <2>4 DEF Lock, TypeOK
  <2> QED
    BY <2>2, <2>5
<1>2. CASE Upgrade
  <2>1. UNCHANGED <<project, lock, today, audited>>
    BY <1>2 DEF Upgrade
  <2>2. LockIsOfAudit'
    BY <2>1 DEF LockIsOfAudit
  <2>3. /\ DOMAIN upstream' \subseteq Targets
        /\ \A u \in DOMAIN upstream' : upstream'[u] \in Objects[u]
    BY <1>2 DEF Upgrade
  <2>4. TypeOK'
    BY <2>1, <2>3 DEF TypeOK
  <2> QED
    BY <2>2, <2>4
<1>3. CASE Edit
  BY <1>3 DEF Edit, TypeOK, LockIsOfAudit
<1>4. CASE DayPasses
  <2>1. today' \in 0..LastDay
    BY <1>4, DayAssumption DEF DayPasses, TypeOK
  <2> QED
    BY <1>4, <2>1 DEF DayPasses, TypeOK, LockIsOfAudit
<1>5. CASE UNCHANGED vars
  BY <1>5 DEF vars, TypeOK, LockIsOfAudit
<1> QED
  BY <1>1, <1>2, <1>3, <1>4, <1>5 DEF Next

LEMMA AlwaysCheckInv == Spec => []CheckInv
BY InitCheckInv, NextCheckInv, PTL DEF Spec

\* The declarations, the installed upstream, mpat.lock and the record of the last
\* `mpat lock` keep their types.
THEOREM TypeCorrect == Spec => []TypeOK
<1>1. CheckInv => TypeOK
  BY DEF CheckInv
<1> QED
  BY <1>1, AlwaysCheckInv, PTL

--------------------------------------------------------------------------------
(* What `mpat check` reports of a target that is in the lock.                *)

LEMMA LockedEntry ==
    ASSUME CheckInv, NEW t \in DOMAIN lock
    PROVE  LET then == Expand(audited.project)[t]
           IN  /\ t \in Wanted(audited.project)
               /\ t \in DOMAIN audited.upstream
               /\ Parsed(lock[t]) = Entry(then, audited.upstream[t])
<1>1. lock = [u \in Wanted(audited.project) |->
                Written(Entry(Expand(audited.project)[u], audited.upstream[u]))]
  BY DEF CheckInv, LockIsOfAudit, LockOf
<1>2. t \in Wanted(audited.project)
  BY <1>1
<1>3. lock[t] = Written(Entry(Expand(audited.project)[t], audited.upstream[t]))
  BY <1>1, <1>2
<1> QED
  BY <1>2, <1>3, EntryParsed DEF CheckInv, TypeOK

\* `mpat check` right after `mpat lock` reports nothing but overdue reviews: the lock's
\* table gives back the entry it was written from, whatever the entry.
THEOREM FreshLocksPass == Spec => []FreshLockPasses
<1>1. CheckInv => FreshLockPasses
  <2> SUFFICES ASSUME CheckInv, audited = [project |-> project, upstream |-> upstream],
                      NEW t \in DOMAIN Check(project)
               PROVE  Check(project)[t] \in {"ok", "review"}
    BY DEF FreshLockPasses
  <2> DEFINE w == Expand(project)[t]
  <2>1. audited.project = project /\ audited.upstream = upstream
    OBVIOUS
  <2>2. DOMAIN lock = Wanted(project)
    BY <2>1 DEF CheckInv, LockIsOfAudit, LockOf
  <2>3. t \in Wanted(project) /\ t \in DOMAIN lock
    BY <2>2 DEF Check
  <2>4. t \in DOMAIN upstream /\ Parsed(lock[t]) = Entry(w, upstream[t])
    BY <2>1, <2>3, LockedEntry
  <2>5. ~ Relocked(w, Parsed(lock[t]))
    BY <2>4, EntryFields DEF Relocked
  <2>6. Compared(t, w) = "ok"
    BY <2>4, EntryFields, CompareEqual DEF Compared
  <2>7. Check(project)[t] = Status(t, w)
    BY <2>3 DEF Check
  <2> HIDE DEF w
  <2> QED
    BY <2>3, <2>4, <2>5, <2>6, <2>7 DEF Status
<1> QED
  BY <1>1, AlwaysCheckInv, PTL

LEMMA PassingTarget ==
    ASSUME CheckInv, Passes(project), NEW t \in Wanted(project)
    PROVE  LET w == Expand(project)[t]
           IN  /\ t \in DOMAIN lock /\ ~ Relocked(w, Parsed(lock[t]))
               /\ t \in DOMAIN upstream /\ Compared(t, w) = "ok"
<1> DEFINE w == Expand(project)[t]
<1>1. Check(project)[t] = Status(t, w) /\ t \in DOMAIN Check(project)
  BY DEF Check
<1>2. Status(t, w) = "ok"
  BY <1>1 DEF Passes
<1> HIDE DEF w
<1>3. /\ t \in DOMAIN lock /\ ~ Relocked(w, Parsed(lock[t]))
      /\ t \in DOMAIN upstream /\ Compared(t, w) = "ok"
  BY <1>2 DEF Status
<1> QED
  BY <1>3 DEF w

\* Fingerprints that compare() finds equal are equal but for the file.
LEMMA SameFingerprint ==
    ASSUME NEW t \in Targets, NEW o \in Objects[t], NEW p \in Objects[t], NEW track,
           NEW then, then.track = track,
           Compare(Entry(then, o), Fingerprint(p, track)) = "ok"
    PROVE  [Fingerprint(p, track) EXCEPT !.file = None]
               = [Fingerprint(o, track) EXCEPT !.file = None]
<1> DEFINE a == Fingerprint(o, track)
           b == Fingerprint(p, track)
           e == Entry(then, o)
<1>1. /\ o = [key \in Read |-> o[key]] /\ p = [key \in Read |-> p[key]]
      /\ o.source = p.source => o.code = p.code
  BY ObjectsAssumption
<1>3. \A key \in Read : e[key] = a[key]
  BY EntryFields
<1>4. e.resolved = b.resolved /\ e.kind = b.kind /\ e.signature = b.signature
      /\ e.value = b.value /\ e.source = b.source
  BY CompareOk
<1>5. a.resolved = b.resolved /\ a.kind = b.kind /\ a.signature = b.signature
      /\ a.value = b.value /\ a.source = b.source
  BY <1>3, <1>4 DEF Read
<1>6. a.source = o.source /\ b.source = p.source /\ a.code = o.code /\ b.code = p.code
  BY <1>1 DEF Fingerprint, Read
<1>7. a.code = b.code
  BY <1>1, <1>5, <1>6
<1>8. a = [key \in Read |-> a[key]] /\ b = [key \in Read |-> b[key]]
  BY <1>1, FingerprintIsObject
<1> HIDE DEF a, b
<1>9. \A key \in Read : key # "file" => a[key] = b[key]
  BY <1>5, <1>7 DEF Read
<1>10. [b EXCEPT !.file = None] = [a EXCEPT !.file = None]
  BY <1>8, <1>9
<1> QED
  BY <1>10 DEF a, b

\* Whenever `mpat check` passes, every wanted target was locked by a `mpat lock` in its
\* present role, for its present declaration and with its present tracking, and all that
\* is tracked of it is as it was then, its file excepted.
THEOREM PassingMeansAudited == Spec => []PassMeansAudited
<1>1. CheckInv => PassMeansAudited
  <2> SUFFICES ASSUME CheckInv, Passes(project) PROVE PassMeansAudited
    BY DEF PassMeansAudited
  <2> DEFINE now == Expand(project)
             then == Expand(audited.project)
  <2>1. DOMAIN now = Wanted(project) /\ DOMAIN then = Wanted(audited.project)
    BY DEF Expand
  <2>2. DOMAIN lock = Wanted(audited.project)
    BY DEF CheckInv, LockIsOfAudit, LockOf
  <2>3. Wanted(project) \subseteq DOMAIN lock
    BY PassingTarget
  <2>4. DOMAIN lock \subseteq Wanted(project)
    <3> SUFFICES ASSUME NEW t \in DOMAIN lock, t \notin Wanted(project) PROVE FALSE
      OBVIOUS
    <3>1. t \in DOMAIN Check(project) /\ Check(project)[t] = "stale"
      BY DEF Check
    <3> QED
      BY <3>1 DEF Passes
  <2>5. DOMAIN now = DOMAIN then
    BY <2>1, <2>2, <2>3, <2>4
  <2>6. ASSUME NEW t \in DOMAIN now
        PROVE  /\ now[t].role = then[t].role
               /\ now[t].parent = then[t].parent
               /\ now[t].track = then[t].track
               /\ [Fingerprint(upstream[t], now[t].track) EXCEPT !.file = None]
                    = [Fingerprint(audited.upstream[t], now[t].track) EXCEPT !.file = None]
    <3>1. /\ t \in DOMAIN lock /\ ~ Relocked(now[t], Parsed(lock[t]))
          /\ t \in DOMAIN upstream /\ Compared(t, now[t]) = "ok"
      BY <2>1, <2>6, PassingTarget
    <3>2. /\ t \in DOMAIN audited.upstream
          /\ Parsed(lock[t]) = Entry(then[t], audited.upstream[t])
      BY <3>1, LockedEntry
    <3>3. /\ now[t].role = then[t].role
          /\ now[t].parent = then[t].parent
          /\ now[t].track = then[t].track
      BY <3>1, <3>2, EntryFields DEF Relocked
    <3>4. /\ t \in Targets /\ upstream[t] \in Objects[t]
          /\ audited.upstream[t] \in Objects[t]
      BY <3>1, <3>2 DEF CheckInv, TypeOK
    <3>5. Compare(Entry(then[t], audited.upstream[t]),
                  Fingerprint(upstream[t], now[t].track)) = "ok"
      BY <3>1, <3>2 DEF Compared
    <3> HIDE DEF now, then
    <3> QED
      BY <3>3, <3>4, <3>5, SameFingerprint
  <2> QED
    BY <2>5, <2>6 DEF PassMeansAudited
<1> QED
  BY <1>1, AlwaysCheckInv, PTL

--------------------------------------------------------------------------------
(* What the import of one declaration hears.                                *)

\* A declaration that uses a target wants it when it is expanded alone.
LEMMA UserWantsAlone ==
    ASSUME NEW ds \in Seq(Declaration), NEW t, NEW d \in Users(ds, t)
    PROVE  <<d>> \in Seq(Declaration) /\ t \in Wanted(<<d>>)
<1>1. PICK i \in DOMAIN ds : d = ds[i] /\ (d.target = t \/ t \in d.depends)
  BY DEF Users, Declaring, DependingOn
<1>2. DOMAIN <<d>> = {1} /\ <<d>>[1] = d
  OBVIOUS
<1>3. t \in Wanted(<<d>>)
  BY <1>1, <1>2 DEF Wanted, DeclaredIn
<1> QED
  BY <1>1, <1>3

\* What differs from a lock of the untracked target differs from it as well when the value
\* is read: the lock of a constant has none.
LEMMA DriftOfUntracked ==
    ASSUME NEW t \in Targets, NEW o \in Objects[t], NEW p \in Objects[t],
           NEW then, then.track = FALSE,
           Compare(Entry(then, o), Fingerprint(p, TRUE)) = "ok"
    PROVE  Compare(Entry(then, o), Fingerprint(p, FALSE)) = "ok"
<1> DEFINE e == Entry(then, o)
           b == Fingerprint(p, FALSE)
<1>1. o = [key \in Read |-> o[key]] /\ p = [key \in Read |-> p[key]]
  BY ObjectsAssumption
<1>2. Fingerprint(p, TRUE) = p
  BY DEF Fingerprint
<1>3. CASE p.kind # "attribute"
  <2>1. b = p
    BY <1>3 DEF Fingerprint
  <2> QED
    BY <1>2, <2>1
<1>4. CASE p.kind = "attribute"
  <2>1. b = [p EXCEPT !.value = None]
    BY <1>4 DEF Fingerprint
  <2>2. b.value = None /\ \A key \in Read \ {"value"} : b[key] = p[key]
    BY <1>1, <2>1 DEF Read
  <2>3. e.kind = p.kind
    BY <1>2, CompareOk
  <2>4. e.kind = Fingerprint(o, FALSE).kind /\ e.value = Fingerprint(o, FALSE).value
    BY EntryFields DEF Read
  <2>5. Fingerprint(o, FALSE).kind = o.kind
    BY <1>1 DEF Fingerprint, Read
  <2>6. Fingerprint(o, FALSE) = [o EXCEPT !.value = None]
    BY <1>4, <2>3, <2>4, <2>5 DEF Fingerprint
  <2>7. e.value = None
    BY <1>1, <2>4, <2>6 DEF Read
  <2> HIDE DEF e, b
  <2>8. Compare(e, p) = "ok"
    BY <1>2 DEF e
  <2>9. Compare(e, b) = "ok"
    BY <2>2, <2>7, <2>8 DEF Compare, Read
  <2> QED
    BY <2>9 DEF e, b
<1> QED
  BY <1>3, <1>4

\* Drift that `mpat check` reports of a target makes the import of every declaration that
\* uses it report the same target, unless that import fails anyway or the declaration is
\* one that is compared with nothing, or leaves the value untracked that drifted.
THEOREM ReportedDriftIsHeard == Spec => []DriftIsHeard
<1>1. CheckInv => DriftIsHeard
  <2> SUFFICES ASSUME CheckInv, NEW t \in Wanted(project),
                      Check(project)[t] \notin {"ok", "review", "unlocked", "missing"},
                      NEW d \in Users(project, t), ~ Silent(d),
                      Expand(project)[t].track => Expand(<<d>>)[t].track
               PROVE  t \in Heard(d)
    BY DEF DriftIsHeard
  <2> DEFINE w == Expand(project)[t]
             v == Expand(<<d>>)[t]
  <2>1. project \in Seq(Declaration)
    BY ProjectsAssumption DEF CheckInv, TypeOK
  <2>2. <<d>> \in Seq(Declaration) /\ t \in Wanted(<<d>>)
    BY <2>1, UserWantsAlone
  <2>3. w.track \in BOOLEAN /\ v.track \in BOOLEAN
    BY <2>1, <2>2, ExpandedFrom
  <2>4. Check(project)[t] = Status(t, w)
    BY DEF Check
  <2>5. w.track => v.track
    OBVIOUS
  <2> HIDE DEF w, v
  <2>6. /\ t \in DOMAIN lock /\ t \in DOMAIN upstream
        /\ ~ Relocked(w, Parsed(lock[t])) /\ Compared(t, w) # "ok"
    BY <2>4 DEF Status
  <2>7. Compared(t, v) # "ok"
    <3>1. CASE w.track = v.track
      BY <2>6, <3>1 DEF Compared
    <3>2. CASE w.track = FALSE /\ v.track = TRUE
      <4> DEFINE then == Expand(audited.project)[t]
      <4>1. /\ t \in DOMAIN audited.upstream
            /\ Parsed(lock[t]) = Entry(then, audited.upstream[t])
        BY <2>6, LockedEntry
      <4>2. then.track = FALSE
        BY <2>6, <3>2, <4>1, EntryFields DEF Relocked
      <4>3. /\ t \in Targets /\ upstream[t] \in Objects[t]
            /\ audited.upstream[t] \in Objects[t]
        BY <2>6, <4>1 DEF CheckInv, TypeOK
      <4> HIDE DEF then
      <4>4. Compare(Entry(then, audited.upstream[t]), Fingerprint(upstream[t], FALSE)) # "ok"
        BY <2>6, <3>2, <4>1 DEF Compared
      <4>5. Compare(Entry(then, audited.upstream[t]), Fingerprint(upstream[t], TRUE)) # "ok"
        BY <4>2, <4>3, <4>4, DriftOfUntracked
      <4> QED
        BY <3>2, <4>1, <4>5 DEF Compared
    <3> QED
      BY <2>3, <2>5, <3>1, <3>2
  <2>8. t \in Drifted(d)
    BY <2>2, <2>6, <2>7 DEF Drifted, v
  <2> QED
    BY <2>8 DEF Heard
<1> QED
  BY <1>1, AlwaysCheckInv, PTL

--------------------------------------------------------------------------------
(* The import of one declaration and the check of all of them.              *)

\* A declared target is tracked as one of the declarations of it says, and one that is
\* only depended on is tracked.
LEMMA TrackedFrom ==
    ASSUME NEW ds \in Seq(Declaration), NEW t \in Wanted(ds)
    PROVE  /\ t \in DeclaredIn(ds) =>
                 \E j \in DOMAIN ds : ds[j].target = t /\ Expand(ds)[t].track = ds[j].track
           /\ t \notin DeclaredIn(ds) => Expand(ds)[t].track = TRUE
<1>1. CASE t \in DeclaredIn(ds)
  <2> DEFINE j == First(Declaring(ds, t))
  <2>1. Declaring(ds, t) \in SUBSET Nat /\ Declaring(ds, t) # {}
    BY <1>1 DEF Declaring, DeclaredIn
  <2>2. j \in DOMAIN ds /\ ds[j].target = t
    BY <2>1, FirstOfSet DEF Declaring
  <2>3. Expand(ds)[t].track = ds[j].track
    BY <1>1 DEF Expand, Itself
  <2> QED
    BY <1>1, <2>2, <2>3
<1>2. CASE t \notin DeclaredIn(ds)
  BY <1>2, ExpandedFrom
<1> QED
  BY <1>1, <1>2

\* Where the declarations agree on what is tracked, a single one tracks its target and
\* its dependencies as all of them together do.
LEMMA TrackedAloneAlike ==
    ASSUME NEW ds \in Seq(Declaration), TrackedAlike(ds), NEW i \in DOMAIN ds,
           NEW t \in Wanted(<<ds[i]>>)
    PROVE  t \in Wanted(ds) /\ Expand(<<ds[i]>>)[t].track = Expand(ds)[t].track
<1> DEFINE d == ds[i]
           all == Expand(ds)[t].track
           alone == Expand(<<d>>)[t].track
<1>1. d \in Declaration /\ <<d>> \in Seq(Declaration)
  OBVIOUS
<1>2. DOMAIN <<d>> = {1} /\ <<d>>[1] = d
  OBVIOUS
<1>3. DeclaredIn(<<d>>) = {d.target} /\ Wanted(<<d>>) = {d.target} \cup d.depends
  BY <1>2 DEF DeclaredIn, Wanted
<1>4. d.target \in DeclaredIn(ds) /\ d.depends \subseteq Wanted(ds)
  BY DEF DeclaredIn, Wanted
<1>5. t \in Wanted(ds)
  BY <1>3, <1>4 DEF Wanted
<1>6. /\ t = d.target => alone = d.track
      /\ t # d.target => alone = TRUE
  <2>1. t \in Wanted(<<d>>)
    OBVIOUS
  <2>2. /\ t \in {d.target} =>
              \E j \in DOMAIN <<d>> : <<d>>[j].target = t /\ alone = <<d>>[j].track
        /\ t \notin {d.target} => alone = TRUE
    BY <1>1, <1>3, <2>1, TrackedFrom
  <2> HIDE DEF alone
  <2> QED
    BY <1>2, <2>2
<1>7. /\ t \in DeclaredIn(ds) => \E j \in DOMAIN ds : ds[j].target = t /\ all = ds[j].track
      /\ t \notin DeclaredIn(ds) => all = TRUE
  BY <1>5, TrackedFrom
<1>8. \A j \in DOMAIN ds : ds[j].track \in BOOLEAN
  <2>1. \A j \in DOMAIN ds : ds[j] \in Declaration
    OBVIOUS
  <2> QED
    BY <2>1 DEF Declaration
<1> HIDE DEF all, alone
<1>9. CASE t = d.target
  <2>1. PICK j \in DOMAIN ds : ds[j].target = d.target /\ all = ds[j].track
    BY <1>4, <1>7, <1>9
  <2>2. ds[j].track = d.track
    BY <2>1 DEF TrackedAlike
  <2>3. alone = all
    BY <1>6, <1>9, <2>1, <2>2
  <2> QED
    BY <1>5, <2>3 DEF all, alone
<1>10. CASE t # d.target
  <2>1. alone = TRUE /\ t \in d.depends
    BY <1>3, <1>6, <1>10
  <2>2. CASE t \in DeclaredIn(ds)
    <3>1. PICK j \in DOMAIN ds : ds[j].target = t /\ all = ds[j].track
      BY <1>7, <2>2
    <3>2. ds[j].track = TRUE
      BY <1>8, <2>1, <3>1 DEF TrackedAlike
    <3> QED
      BY <1>5, <2>1, <3>1, <3>2 DEF all, alone
  <2>3. CASE t \notin DeclaredIn(ds)
    BY <1>5, <1>7, <2>1, <2>3 DEF all, alone
  <2> QED
    BY <2>2, <2>3
<1> QED
  BY <1>9, <1>10

\* Where the declarations agree on what is tracked, a project that passes `mpat check`
\* can be imported, every module of it, without a report of drift.
THEOREM TrackedAlikeMeansQuiet == Spec => []TrackedAlikePassMeansQuiet
<1>1. CheckInv => TrackedAlikePassMeansQuiet
  <2> SUFFICES ASSUME CheckInv, TrackedAlike(project), Passes(project),
                      NEW i \in DOMAIN project
               PROVE  ~ ImportFails(project[i]) /\ Heard(project[i]) = {}
    BY DEF TrackedAlikePassMeansQuiet, PassMeansQuiet
  <2> DEFINE d == project[i]
  <2>1. project \in Seq(Declaration)
    BY ProjectsAssumption DEF CheckInv, TypeOK
  <2>2. d.target \in Wanted(project)
    BY DEF Wanted, DeclaredIn
  <2>3. ~ ImportFails(d)
    BY <2>2, PassingTarget DEF ImportFails
  <2>4. ASSUME NEW t \in Wanted(<<d>>)
        PROVE  Compared(t, Expand(<<d>>)[t]) = "ok"
    <3>1. t \in Wanted(project) /\ Expand(<<d>>)[t].track = Expand(project)[t].track
      BY <2>1, <2>4, TrackedAloneAlike
    <3>2. Compared(t, Expand(project)[t]) = "ok"
      BY <3>1, PassingTarget
    <3> QED
      BY <3>1, <3>2 DEF Compared
  <2>5. Heard(d) = {}
    BY <2>4 DEF Drifted, Heard
  <2> QED
    BY <2>3, <2>5
<1> QED
  BY <1>1, AlwaysCheckInv, PTL

--------------------------------------------------------------------------------
(* The order of the declarations.                                           *)

\* Sequences with the same members want the same targets.
LEMMA SameMembersWant ==
    ASSUME NEW ds \in Seq(Declaration), NEW es \in Seq(Declaration), SameMembers(ds, es)
    PROVE  DeclaredIn(ds) = DeclaredIn(es) /\ Wanted(ds) = Wanted(es)
<1>1. /\ \A i \in DOMAIN ds : \E j \in DOMAIN es : ds[i] = es[j]
      /\ \A j \in DOMAIN es : \E i \in DOMAIN ds : ds[i] = es[j]
  BY DEF SameMembers
<1>2. DeclaredIn(ds) = DeclaredIn(es)
  BY <1>1 DEF DeclaredIn
<1>3. \A t : (\E i \in DOMAIN ds : t \in ds[i].depends)
                <=> (\E j \in DOMAIN es : t \in es[j].depends)
  BY <1>1
<1>4. \A t : t \in UNION {ds[i].depends : i \in DOMAIN ds}
                <=> t \in UNION {es[j].depends : j \in DOMAIN es}
  BY <1>3
<1> QED
  BY <1>2, <1>4 DEF Wanted

\* Where each wanted target has one user, it comes from the same declaration in whatever
\* order they are registered.
LEMMA ExpandedInAnyOrder ==
    ASSUME NEW ds \in Seq(Declaration), NEW es \in Seq(Declaration), SameMembers(ds, es),
           Unshared(es)
    PROVE  Expand(ds) = Expand(es)
<1>1. /\ \A i \in DOMAIN ds : \E j \in DOMAIN es : ds[i] = es[j]
      /\ \A j \in DOMAIN es : \E i \in DOMAIN ds : ds[i] = es[j]
  BY DEF SameMembers
<1>2. DeclaredIn(ds) = DeclaredIn(es) /\ Wanted(ds) = Wanted(es)
  BY SameMembersWant
<1>3. DOMAIN ds \subseteq Nat /\ DOMAIN es \subseteq Nat
  OBVIOUS
<1>4. ASSUME NEW t \in Wanted(es), t \in DeclaredIn(es)
      PROVE  ds[First(Declaring(ds, t))] = es[First(Declaring(es, t))]
  <2> DEFINE i == First(Declaring(ds, t))
             j == First(Declaring(es, t))
  <2>1. /\ Declaring(ds, t) \in SUBSET Nat /\ Declaring(ds, t) # {}
        /\ Declaring(es, t) \in SUBSET Nat /\ Declaring(es, t) # {}
    BY <1>2, <1>3, <1>4 DEF Declaring, DeclaredIn
  <2>2. i \in Declaring(ds, t) /\ j \in Declaring(es, t)
    BY <2>1, FirstOfSet
  <2> HIDE DEF i, j
  <2>3. PICK k \in DOMAIN es : ds[i] = es[k]
    BY <1>1, <2>2 DEF Declaring
  <2>4. k \in Declaring(es, t)
    BY <2>2, <2>3 DEF Declaring
  <2>5. k = j
    BY <1>4, <2>2, <2>4 DEF Unshared
  <2> QED
    BY <2>3, <2>5 DEF i, j
<1>5. ASSUME NEW t \in Wanted(es), t \notin DeclaredIn(es)
      PROVE  ds[First(DependingOn(ds, t))] = es[First(DependingOn(es, t))]
  <2> DEFINE i == First(DependingOn(ds, t))
             j == First(DependingOn(es, t))
  <2>0. t \in Wanted(ds) /\ t \notin DeclaredIn(ds)
    BY <1>2, <1>5
  <2>1. /\ DependingOn(ds, t) \in SUBSET Nat /\ DependingOn(ds, t) # {}
        /\ DependingOn(es, t) \in SUBSET Nat /\ DependingOn(es, t) # {}
    BY <1>3, <1>5, <2>0 DEF DependingOn, Wanted
  <2>2. i \in DependingOn(ds, t) /\ j \in DependingOn(es, t)
    BY <2>1, FirstOfSet
  <2> HIDE DEF i, j
  <2>3. PICK k \in DOMAIN es : ds[i] = es[k]
    BY <1>1, <2>2 DEF DependingOn
  <2>4. k \in DependingOn(es, t)
    BY <2>2, <2>3 DEF DependingOn
  <2>5. k = j
    BY <1>5, <2>2, <2>4 DEF Unshared
  <2> QED
    BY <2>3, <2>5 DEF i, j
<1>6. \A t \in Wanted(es) :
        (IF t \in DeclaredIn(ds) THEN Itself(ds[First(Declaring(ds, t))])
                                 ELSE Dependency(ds[First(DependingOn(ds, t))]))
      = (IF t \in DeclaredIn(es) THEN Itself(es[First(Declaring(es, t))])
                                 ELSE Dependency(es[First(DependingOn(es, t))]))
  BY <1>2, <1>4, <1>5
<1> QED
  BY <1>2, <1>6 DEF Expand

\* What two wants of one target that agree on the role, the parent and the tracking make of
\* it differs in the review alone.
LEMMA StatusesCompared ==
    ASSUME NEW t, NEW v, NEW w, Status(t, v) # "unlocked", Status(t, w) # "unlocked"
    PROVE  \/ Status(t, v) = Status(t, w)
           \/ {Status(t, v), Status(t, w)} = {"ok", "review"}
<1>1. t \in DOMAIN lock /\ ~ Relocked(v, Parsed(lock[t])) /\ ~ Relocked(w, Parsed(lock[t]))
  BY DEF Status
<1>2. v.track = w.track
  BY <1>1 DEF Relocked
<1>3. Compared(t, v) = Compared(t, w)
  BY <1>2 DEF Compared
<1>4. CASE t \notin DOMAIN upstream
  BY <1>1, <1>4 DEF Status
<1>5. CASE t \in DOMAIN upstream /\ Compared(t, w) # "ok"
  BY <1>1, <1>3, <1>5 DEF Status
<1>6. CASE t \in DOMAIN upstream /\ Compared(t, w) = "ok"
  <2>1. Status(t, v) \in {"ok", "review"} /\ Status(t, w) \in {"ok", "review"}
    BY <1>1, <1>3, <1>6 DEF Status
  <2> QED
    BY <2>1
<1> QED
  BY <1>4, <1>5, <1>6

\* `mpat check` reports the same statuses in whatever order the declarations are registered,
\* where no two of them share a target or a dependency; where they do, the order decides
\* what is unlocked or due for a review, and never whether a target has drifted or how.
THEOREM OrderDoesNotMatter == Spec => []OrderIsIrrelevant
<1>1. CheckInv => OrderIsIrrelevant
  <2> SUFFICES ASSUME CheckInv, NEW ds \in Projects, SameMembers(ds, project)
               PROVE  /\ Unshared(project) => Check(ds) = Check(project)
                      /\ \A t \in DOMAIN Check(project) :
                            \/ Check(ds)[t] = Check(project)[t]
                            \/ "unlocked" \in {Check(project)[t], Check(ds)[t]}
                            \/ {Check(project)[t], Check(ds)[t]} = {"ok", "review"}
    BY DEF OrderIsIrrelevant
  <2>1. project \in Seq(Declaration) /\ ds \in Seq(Declaration)
    BY ProjectsAssumption DEF CheckInv, TypeOK
  <2>2. Wanted(ds) = Wanted(project)
    BY <2>1, SameMembersWant
  <2>3. ASSUME Unshared(project) PROVE Check(ds) = Check(project)
    <3>1. Expand(ds) = Expand(project)
      BY <2>1, <2>3, ExpandedInAnyOrder
    <3> QED
      BY <2>2, <3>1 DEF Check
  <2>4. ASSUME NEW t \in DOMAIN Check(project)
        PROVE  \/ Check(ds)[t] = Check(project)[t]
               \/ "unlocked" \in {Check(project)[t], Check(ds)[t]}
               \/ {Check(project)[t], Check(ds)[t]} = {"ok", "review"}
    <3>1. CASE t \notin Wanted(project)
      <4>1. Check(ds)[t] = "stale" /\ Check(project)[t] = "stale"
        BY <2>2, <3>1 DEF Check
      <4> QED
        BY <4>1
    <3>2. CASE t \in Wanted(project)
      <4>1. /\ Check(ds)[t] = Status(t, Expand(ds)[t])
            /\ Check(project)[t] = Status(t, Expand(project)[t])
        BY <2>2, <3>2 DEF Check
      <4> QED
        BY <4>1, StatusesCompared
    <3> QED
      BY <3>1, <3>2
  <2> QED
    BY <2>3, <2>4
<1> QED
  BY <1>1, AlwaysCheckInv, PTL

================================================================================
