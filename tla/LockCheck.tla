------------------------------ MODULE LockCheck ------------------------------
(***************************************************************************)
(* What mpat.lock records of the declared targets (_lock.build_lock), how  *)
(* `mpat check` compares it with the installed upstream (_lock.check), and *)
(* how the same comparison is made when a patch module is imported         *)
(* (_api._drifted), while the declarations, the installed upstream and the *)
(* date change between the calls.                                          *)
(*                                                                         *)
(* An upstream object is the record of what fingerprint() reads off it: a  *)
(* missing source, signature or value is None.  "async" is part of the     *)
(* signature, and the distribution's version, which nothing compares, is   *)
(* left out.                                                               *)
(***************************************************************************)
EXTENDS Integers, Sequences

CONSTANTS
    Targets,        \* the dotted paths that may be declared
    Objects,        \* for each target, what it can be in some upstream release
    Projects,       \* sequences of declarations, in the order they are registered
    Files,          \* patch modules and configuration files
    ConfigFiles,    \* those of them that are an mpat.toml or a pyproject.toml
    LastDay,        \* bound on the calendar
    None

Declaration ==
    [target : Targets, role : {"patch", "watch"}, depends : SUBSET Targets,
     track : BOOLEAN, review : (0..LastDay) \cup {None}, until : (0..LastDay) \cup {None},
     declared_in : Files]

\* The tables of a configuration file are watches; those of `override` leave the value
\* of their constant untracked.
FromConfig(d) == d.declared_in \in ConfigFiles
Override(d) == FromConfig(d) /\ ~d.track
TableWatch(d) == FromConfig(d) /\ d.track

\* What a project can be: a table's target is declared nowhere else, and in one file a
\* watch takes the place of an earlier one of the same target.
Registrable(ds) ==
    /\ \A i \in DOMAIN ds :
          /\ FromConfig(ds[i]) => ds[i].role = "watch"
          /\ Override(ds[i]) => ds[i].depends = {} /\ ds[i].until = None
    /\ \A i, j \in DOMAIN ds : i # j /\ ds[i].target = ds[j].target =>
          /\ ~FromConfig(ds[i])
          /\ ds[i].role = "watch" /\ ds[j].role = "watch" =>
                ds[i].declared_in # ds[j].declared_in

Read == {"kind", "resolved", "file", "signature", "value", "source", "code"}

ASSUME DayAssumption == LastDay \in Nat

ASSUME ProjectsAssumption ==
    Projects \subseteq Seq(Declaration) /\ \A ds \in Projects : Registrable(ds)

\* An object is what is read off it; the hash without docstrings is taken of the node
\* that is hashed with them.
ASSUME ObjectsAssumption == \A t \in Targets : \A o, p \in Objects[t] :
    o = [key \in Read |-> o[key]] /\ (o.source = p.source => o.code = p.code)

VARIABLES
    project,        \* the declarations of the patch modules
    upstream,       \* the installed object of each target that exists
    lock,           \* mpat.lock: a table for each locked target
    today,
    audited         \* history: the project and the upstream of the last `mpat lock`

vars == <<project, upstream, lock, today, audited>>

First(S) == CHOOSE i \in S : \A j \in S : i <= j

--------------------------------------------------------------------------------
(* Fingerprints.                                                           *)

\* fingerprint(): the value of a constant is read only where it is tracked.
Fingerprint(object, track) ==
    IF object.kind = "attribute" /\ ~track THEN [object EXCEPT !.value = None] ELSE object

\* Mutant: a source that cannot be read is not compared.
CompareReadable(locked, current) ==
    CASE locked.resolved # current.resolved -> "moved"
      [] locked.kind # current.kind -> "moved"
      [] locked.signature # current.signature -> "signature"
      [] locked.value # current.value -> "value"
      [] None \in {locked.source, current.source} -> "ok"
      [] locked.source # current.source -> "body"
      [] OTHER -> "ok"

\* compare(): the first difference counts.
Compare(locked, current) ==
    LET Differ(field) == locked[field] # current[field]
        Where(field) == Differ(field) /\ None \notin {locked[field], current[field]}
    IN  IF Differ("resolved") \/ Differ("kind") \/ Where("file") THEN "moved"
        ELSE IF Differ("signature") THEN "signature"
        ELSE IF Differ("value") THEN "value"
        ELSE IF ~Differ("source") THEN "ok"
        ELSE IF current.source = None THEN "no_source"
        ELSE IF locked.kind = "file" THEN "content"
        ELSE IF locked.code # None /\ ~Differ("code") THEN "docstring"
        ELSE "body"

--------------------------------------------------------------------------------
(* The targets a sequence of declarations wants locked.                    *)

DeclaredIn(ds) == {ds[i].target : i \in DOMAIN ds}
Declaring(ds, t) == {i \in DOMAIN ds : ds[i].target = t}
Wanted(ds) == DeclaredIn(ds) \cup UNION {ds[i].depends : i \in DOMAIN ds}
DependingOn(ds, t) == {i \in DOMAIN ds : t \in ds[i].depends}

\* What is wanted of the target of d, and of a target d depends on.
Itself(d) == [decl |-> d, role |-> d.role, parent |-> None, track |-> d.track,
              declared_in |-> d.declared_in]
Dependency(d) == [decl |-> d, role |-> "depends_on", parent |-> d.target, track |-> TRUE,
                  declared_in |-> d.declared_in]

\* Mutant: a dependency is skipped only when its target was declared before it.
ExpandInOnePass(ds) ==
    [t \in Wanted(ds) |->
        LET d == ds[First(Declaring(ds, t) \cup DependingOn(ds, t))]
        IN  IF d.target = t THEN Itself(d) ELSE Dependency(d)]

\* expand(): the first declaration of a target decides, and only for a target that
\* nobody declares, the first that depends on it.
Expand(ds) ==
    [t \in Wanted(ds) |->
        IF t \in DeclaredIn(ds)
        THEN Itself(ds[First(Declaring(ds, t))])
        ELSE Dependency(ds[First(DependingOn(ds, t))])]

\* _users()
Users(ds, t) == {ds[i] : i \in Declaring(ds, t) \cup DependingOn(ds, t)}

--------------------------------------------------------------------------------
(* mpat.lock.  A table has a key for every field that is not None, and     *)
(* "track" only when it is false.                                          *)

Fields == Read \cup {"role", "parent", "track", "declared_in"}

Entry(w, object) == [key \in Fields |->
    IF key \in Read THEN Fingerprint(object, w.track)[key] ELSE w[key]]

Default(key) == IF key = "track" THEN TRUE ELSE None

\* _entry_to_dict()
Written(entry) ==
    [key \in {k \in Fields : entry[k] # Default(k)} |-> entry[key]]

\* Mutant: track_value is not read back.
ParsedTracking(table) ==
    [key \in Fields |->
        IF key \in DOMAIN table \ {"track"} THEN table[key] ELSE Default(key)]

\* _entry_from_dict()
Parsed(table) ==
    [key \in Fields |-> IF key \in DOMAIN table THEN table[key] ELSE Default(key)]

\* build_lock(), written to mpat.lock.
LockOf(ds, objects) ==
    [t \in Wanted(ds) |-> Written(Entry(Expand(ds)[t], objects[t]))]

--------------------------------------------------------------------------------
(* mpat check, for the declarations ds.                                    *)

Relocked(w, entry) ==
    entry.role # w.role \/ entry.parent # w.parent \/ entry.track # w.track

Compared(t, w) == Compare(Parsed(lock[t]), Fingerprint(upstream[t], w.track))

Overdue(d) == d.review # None /\ today > d.review

Status(t, w) ==
    IF t \notin DOMAIN lock \/ Relocked(w, Parsed(lock[t])) THEN "unlocked"
    ELSE IF t \notin DOMAIN upstream THEN "missing"
    ELSE IF Compared(t, w) = "ok" /\ Overdue(w.decl) THEN "review"
    ELSE Compared(t, w)

Check(ds) == [t \in Wanted(ds) \cup DOMAIN lock |->
    IF t \in Wanted(ds) THEN Status(t, Expand(ds)[t]) ELSE "stale"]

\* The exit status of `mpat check`.
Passes(ds) == \A t \in DOMAIN Check(ds) : Check(ds)[t] = "ok"

--------------------------------------------------------------------------------
(* The import of declaration d; of an override, the call apply_overrides().  *)

\* A target that is gone fails the import before anything is compared.  A table's watch
\* is not resolved.
ImportFails(d) == d.target \notin DOMAIN upstream /\ ~TableWatch(d)

\* Mutant: only the target itself is compared.
DriftedTargetOnly(d) ==
    {t \in {d.target} \cap DOMAIN lock \cap DOMAIN upstream :
        Compared(t, Expand(<<d>>)[t]) # "ok"}

\* Mutant: the value of every constant is compared.
DriftedTracking(d) ==
    {t \in Wanted(<<d>>) \cap DOMAIN lock \cap DOMAIN upstream :
        Compared(t, [track |-> TRUE]) # "ok"}

\* _drifted(): what the import of d reports.  What is not locked and what is gone
\* is left to `mpat check`.
Drifted(d) ==
    {t \in Wanted(<<d>>) \cap DOMAIN lock \cap DOMAIN upstream :
        Compared(t, Expand(<<d>>)[t]) # "ok"}

\* Nothing is compared for a patch whose `until` is satisfied, nor for a table's watch.
\* A condition, which is on a version or a probe, is satisfied from some day on.
Silent(d) ==
    \/ TableWatch(d)
    \/ d.role = "patch" /\ d.until # None /\ today >= d.until

\* What the import of d warns of or raises.
Heard(d) == IF Silent(d) THEN {} ELSE Drifted(d)

--------------------------------------------------------------------------------

\* What some target is in some release.
SomeObject == UNION {Objects[t] : t \in Targets}

Init ==
    /\ project \in Projects
    /\ upstream \in [Targets -> SomeObject]
    /\ \A t \in Targets : upstream[t] \in Objects[t]
    /\ lock = LockOf(<<>>, <<>>)
    /\ today = 0
    /\ audited = [project |-> <<>>, upstream |-> <<>>]

\* Mutant: a target that is gone is left out of the lock.
LockPartially ==
    /\ lock' = [t \in Wanted(project) \cap DOMAIN upstream |-> LockOf(project, upstream)[t]]
    /\ audited' = [project |-> project, upstream |-> upstream]
    /\ UNCHANGED <<project, upstream, today>>

\* `mpat lock`, which fails and writes nothing when a wanted target is gone.
Lock ==
    /\ Wanted(project) \subseteq DOMAIN upstream
    /\ audited' = [project |-> project, upstream |-> upstream]
    /\ lock' = LockOf(project, upstream)
    /\ UNCHANGED <<project, upstream, today>>

\* Other releases are installed, without some of the targets.
Upgrade ==
    /\ UNCHANGED <<project, lock, today, audited>>
    /\ \E present \in SUBSET Targets : upstream' \in [present -> SomeObject]
    /\ \A t \in DOMAIN upstream' : upstream'[t] \in Objects[t]

\* The declarations are edited, or registered in another order.
Edit ==
    /\ project' \in Projects
    /\ UNCHANGED <<upstream, lock, today, audited>>

DayPasses ==
    /\ today < LastDay
    /\ today' = today + 1
    /\ UNCHANGED <<project, upstream, lock, audited>>

Next == Lock \/ Upgrade \/ Edit \/ DayPasses

Spec == Init /\ [][Next]_vars

--------------------------------------------------------------------------------
(* Properties.                                                             *)

\* `mpat check` right after `mpat lock` finds nothing to report but overdue reviews,
\* whatever is declared: what the lock says of an entry survives its being written to
\* mpat.lock and read back.
FreshLockPasses ==
    audited = [project |-> project, upstream |-> upstream] =>
        \A t \in DOMAIN Check(project) : Check(project)[t] \in {"ok", "review"}

\* When `mpat check` passes, every wanted target is, in all that fingerprint() tracks of
\* it, what it was when somebody ran `mpat lock`, and it was locked in the role, for the
\* declaration and with the tracking it has now.
PassMeansAudited == Passes(project) =>
    LET now == Expand(project)
        then == Expand(audited.project)
        Tracked(object, t) == [Fingerprint(object, now[t].track) EXCEPT !.file = None]
    IN  /\ DOMAIN now = DOMAIN then
        /\ \A t \in DOMAIN now :
              /\ now[t].role = then[t].role
              /\ now[t].parent = then[t].parent
              /\ now[t].track = then[t].track
              /\ Tracked(upstream[t], t) = Tracked(audited.upstream[t], t)

\* The application hears of the drift that `mpat check` reports of a target: the import of
\* every declaration that uses the target, not only of the one the row is about, reports
\* it too, or fails.  Excepted are declarations that compare nothing at import, and those
\* that leave a value untracked which `mpat check` compares for another one.
DriftIsHeard ==
    LET status == Check(project)
        Tracks(ds, t) == Expand(ds)[t].track
    IN  \A t \in Wanted(project) : status[t] \notin {"ok", "review", "unlocked", "missing"} =>
            \A d \in Users(project, t) :
                ~Silent(d) /\ (Tracks(project, t) => Tracks(<<d>>, t)) =>
                    ImportFails(d) \/ t \in Heard(d)

\* When `mpat check` passes, every patch module can be imported and reports no drift.
PassMeansQuiet == Passes(project) =>
    \A i \in DOMAIN project : ~ImportFails(project[i]) /\ Heard(project[i]) = {}

\* No declaration depends on the value of a constant that another one leaves untracked,
\* and two declarations of one target track it alike.
TrackedAlike(ds) == \A i, j \in DOMAIN ds :
    /\ ds[i].target \in ds[j].depends => ds[i].track
    /\ ds[i].target = ds[j].target => ds[i].track = ds[j].track

\* The check of all declarations and the import of a single one agree on an upstream
\* that is clean, although only the first sees how the others track the dependencies.
TrackedAlikePassMeansQuiet == TrackedAlike(project) => PassMeansQuiet

\* Every wanted target has one declaration, or else one that depends on it.
Unshared(ds) == \A t \in Wanted(ds) :
    LET users == IF t \in DeclaredIn(ds) THEN Declaring(ds, t) ELSE DependingOn(ds, t)
    IN  \A i, j \in users : i = j

SameMembers(ds, es) ==
    /\ Len(ds) = Len(es)
    /\ {ds[i] : i \in DOMAIN ds} = {es[i] : i \in DOMAIN es}

\* The order in which the patch modules are imported does not change what is reported:
\* the pytest plugin, which runs after the application's own imports, prints the status
\* that `mpat check` prints.  Of a target with several users the one that comes first
\* counts, so that another order may find it "unlocked", or its review due; no order finds
\* it clean that another one finds drifted, or drifted in another way.
OrderIsIrrelevant == \A ds \in Projects : SameMembers(ds, project) =>
    LET here == Check(project)
        there == Check(ds)
    IN  /\ Unshared(project) => there = here
        /\ \A t \in DOMAIN here :
              \/ there[t] = here[t]
              \/ "unlocked" \in {here[t], there[t]}
              \/ {here[t], there[t]} = {"ok", "review"}

TypeOK ==
    /\ project \in Projects
    /\ DOMAIN upstream \subseteq Targets
    /\ \A t \in DOMAIN upstream : upstream[t] \in Objects[t]
    /\ DOMAIN lock \subseteq Targets
    /\ today \in 0..LastDay
    /\ audited.project \in Projects \cup {<<>>}
    /\ Wanted(audited.project) \subseteq DOMAIN audited.upstream
    /\ \A t \in DOMAIN audited.upstream : audited.upstream[t] \in Objects[t]

================================================================================
