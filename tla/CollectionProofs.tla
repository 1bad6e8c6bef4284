--------------------------- MODULE CollectionProofs ---------------------------
(***************************************************************************)
(* Proofs about Collection, for any projects, modules and tables, however  *)
(* they are nested: the types, patches are in effect in tests and nowhere  *)
(* else, an override is assigned once, and a project finds in a session    *)
(* what it finds alone.                                                    *)
(***************************************************************************)
EXTENDS Collection, TLAPS

\* MPAT_COLLECT is set while `mpat check` collects, and at no other time.
CollectMode ==
    /\ kind = "tests" => env = FALSE
    /\ kind = "check" /\ call # None => env = TRUE
    /\ call = None => env = FALSE
    /\ call # None => call.env = FALSE

\* What mpat has assigned it has recorded before.
MpatRecorded == \A t \in Targets : value[t] = "mpat" => t \in DOMAIN originals

\* TypeOK speaks of the outcome of each project, this of the table of the outcomes.
Outcome == [outcome : {"none", "failed", "collected"}, found : SUBSET Declaration]

CollectInv ==
    /\ TypeOK
    /\ collected \in [Projects -> Outcome]
    /\ CollectMode
    /\ MpatRecorded
    /\ LiveInTestsOnly

--------------------------------------------------------------------------------
(* What files and modules declare.                                         *)

LEMMA ModuleDeclares ==
    ASSUME NEW m \in Modules
    PROVE  DeclaredBy(m) \subseteq Declaration
BY CollectionAssumption DEF DeclaredBy, Declaration, Files

LEMMA OverrideTargets ==
    ASSUME NEW p \in Projects
    PROVE  /\ Len(Overrides[p]) \in Nat
           /\ \A i \in 1 .. Len(Overrides[p]) : Overrides[p][i] \in Targets
           /\ ToSet(Overrides[p]) \subseteq Targets
<1>1. Overrides[p] \in Seq(Targets)
  BY CollectionAssumption
<1> QED
  BY <1>1 DEF ToSet

LEMMA TablesDeclare ==
    ASSUME NEW p \in Projects
    PROVE  Tables(p) \subseteq Declaration
BY OverrideTargets, CollectionAssumption DEF Tables, Declaration, Files

LEMMA ReturnedIsRegistered ==
    ASSUME NEW ds, NEW p
    PROVE  Returned(ds, p) \subseteq ds
BY DEF Returned, Scoped

\* What is declared while MPAT_COLLECT is unset takes effect, otherwise nothing does.
LEMMA BodyRuns ==
    ASSUME NEW m \in Modules, cwd \in Projects \cup {None}, config \in Projects \cup {None, "unread"},
           registry \subseteq Declaration, imported \subseteq Modules, applied \subseteq registry,
           BodyReturns(m) \/ BodyRaises(m)
    PROVE  /\ config' \in Projects \cup {None, "unread"}
           /\ registry' \subseteq Declaration /\ registry \subseteq registry'
           /\ imported' \subseteq imported \cup {m}
           /\ applied' \subseteq registry' /\ applied \subseteq applied'
           /\ env => applied' = applied
           /\ ~env /\ m \in imported' => m \in imported \/ DeclaredBy(m) \subseteq applied'
<1>1. config' \in Projects \cup {None, "unread"}
  BY DEF BodyReturns, BodyRaises, ReadConfig
<1>2. DeclaredBy(m) \subseteq Declaration
  BY ModuleDeclares
<1>3. CASE BodyReturns(m)
  BY <1>1, <1>2, <1>3 DEF BodyReturns
<1>4. CASE BodyRaises(m)
  <2>1. PICK done \in SUBSET {d \in DeclaredBy(m) : Permitted(d)} :
            /\ \/ registry' = registry \cup done
               \/ \E d \in DeclaredBy(m) : registry' = registry \cup done \cup {d}
            /\ applied' = IF env THEN applied ELSE applied \cup done
    BY <1>4 DEF BodyRaises
  <2>2. done \subseteq DeclaredBy(m)
    OBVIOUS
  <2> QED
    BY <1>1, <1>2, <1>4, <2>1, <2>2 DEF BodyRaises
<1> QED
  BY <1>3, <1>4

--------------------------------------------------------------------------------
(* The initial states.                                                     *)

LEMMA InitCollectInv == Init => CollectInv
<1> SUFFICES ASSUME Init PROVE CollectInv
  OBVIOUS
<1>1. TypeOK
  <2>1. DOMAIN originals = {}
    BY DEF Init
  <2>2. /\ cwd \in Projects \cup {None} /\ session \subseteq Projects
        /\ value \in [Targets -> {"upstream", "mpat", "app"}]
    BY DEF Init
  <2>3. \A p \in Projects : collected[p] = [outcome |-> "none", found |-> {}]
    BY DEF Init
  <2> QED
    BY <2>1, <2>2, <2>3 DEF Init, TypeOK
<1>2. collected \in [Projects -> Outcome]
  BY DEF Init, Outcome
<1>3. CollectMode /\ MpatRecorded /\ LiveInTestsOnly
  BY DEF Init, CollectMode, MpatRecorded, LiveInTestsOnly
<1> QED
  BY <1>1, <1>2, <1>3 DEF CollectInv

--------------------------------------------------------------------------------
(* One lemma per action.                                                   *)

\* The end of a call keeps the table of the outcomes well-formed.
LEMMA FinishCollects ==
    ASSUME CollectInv, call # None, NEW outcome \in {"failed", "collected"}, NEW found,
           found \subseteq registry', registry \subseteq registry', registry' \subseteq Declaration,
           Finish(outcome, found)
    PROVE  /\ call' = None /\ env' = call.env /\ env' \in BOOLEAN
           /\ collected' \in [Projects -> Outcome]
           /\ \A p \in Projects : /\ collected'[p].outcome \in {"none", "failed", "collected"}
                                  /\ collected'[p].found \subseteq registry'
<1>1. call.project \in Projects /\ call.env \in BOOLEAN
  BY DEF CollectInv, TypeOK
<1>2. [outcome |-> outcome, found |-> found] \in Outcome
  BY DEF Outcome
<1>3. \A p \in Projects : /\ collected[p].outcome \in {"none", "failed", "collected"}
                          /\ collected[p].found \subseteq registry
  BY DEF CollectInv, TypeOK
<1> QED
  BY <1>1, <1>2, <1>3 DEF CollectInv, Finish

\* A call starts, in the mode of its process.
LEMMA StartKeeps ==
    ASSUME CollectInv, NEW p \in Projects, StartCollecting(p) \/ StartChecking(p)
    PROVE  CollectInv'
<1>1. /\ UNCHANGED <<kind, session, cwd, config, registry, imported, applied, value, originals,
                     collected>>
      /\ call' = [project |-> p, todo |-> Lists[p], env |-> env]
      /\ env \in BOOLEAN /\ env' \in BOOLEAN
      /\ kind = "check" => env' = TRUE
      /\ kind = "tests" => env' = env
  BY DEF StartCollecting, StartChecking, CollectInv, TypeOK
<1>2. call' \in [project : Projects, todo : Seq(Modules), env : BOOLEAN]
  BY <1>1, CollectionAssumption
<1>3. TypeOK'
  BY <1>1, <1>2 DEF CollectInv, TypeOK
<1>4. CollectMode' /\ call' # None
  <2>1. call' # None /\ call'.env = env /\ call = None
    BY <1>1, <1>2, CollectionAssumption DEF StartCollecting, StartChecking
  <2> QED
    BY <1>1, <2>1 DEF CollectInv, CollectMode
<1>5. MpatRecorded' /\ LiveInTestsOnly' /\ collected' \in [Projects -> Outcome]
  BY <1>1, <1>4 DEF CollectInv, MpatRecorded, LiveInTestsOnly, DeclaredBy
<1> QED
  BY <1>3, <1>4, <1>5 DEF CollectInv

\* A body that runs, in a call or in the application, brings types and effects along.
LEMMA BodyKeeps ==
    ASSUME CollectInv, NEW m \in Modules, BodyReturns(m) \/ BodyRaises(m),
           kind = "tests" \/ call # None,
           UNCHANGED <<kind, session, cwd, value, originals>>,
           env' \in BOOLEAN, CollectMode',
           call' = None \/ call' \in [project : Projects, todo : Seq(Modules), env : BOOLEAN],
           collected' \in [Projects -> Outcome],
           \A p \in Projects : /\ collected'[p].outcome \in {"none", "failed", "collected"}
                               /\ collected'[p].found \subseteq registry'
    PROVE  CollectInv'
<1>1. /\ cwd \in Projects \cup {None} /\ config \in Projects \cup {None, "unread"}
      /\ registry \subseteq Declaration /\ imported \subseteq Modules /\ applied \subseteq registry
  BY DEF CollectInv, TypeOK
<1>2. /\ config' \in Projects \cup {None, "unread"}
      /\ registry' \subseteq Declaration /\ registry \subseteq registry'
      /\ imported' \subseteq imported \cup {m}
      /\ applied' \subseteq registry' /\ applied \subseteq applied'
      /\ env => applied' = applied
      /\ ~env /\ m \in imported' => m \in imported \/ DeclaredBy(m) \subseteq applied'
  BY <1>1, BodyRuns
<1>3. TypeOK'
  BY <1>2 DEF CollectInv, TypeOK
<1>4. MpatRecorded'
  BY DEF CollectInv, MpatRecorded
<1>5. LiveInTestsOnly'
  <2>1. CASE kind = "tests"
    <3>1. ~env
      BY <2>1 DEF CollectInv, CollectMode
    <3>2. \A n \in imported' : DeclaredBy(n) \subseteq applied'
      BY <1>2, <2>1, <3>1 DEF CollectInv, LiveInTestsOnly
    <3> QED
      BY <2>1, <3>2 DEF LiveInTestsOnly, CollectMode, DeclaredBy
  <2>2. CASE kind # "tests"
    <3>1. env
      BY <2>2 DEF CollectInv, TypeOK, CollectMode
    <3> QED
      BY <1>2, <2>2, <3>1 DEF CollectInv, LiveInTestsOnly, CollectMode
  <2> QED
    BY <2>1, <2>2
<1> QED
  BY <1>3, <1>4, <1>5 DEF CollectInv

\* The modules of a call are modules, and the rest of them is.
LEMMA NextModule ==
    ASSUME CollectInv, call # None, call.todo # <<>>
    PROVE  /\ Head(call.todo) \in Modules
           /\ [call EXCEPT !.todo = Tail(@)] \in
                 [project : Projects, todo : Seq(Modules), env : BOOLEAN]
BY DEF CollectInv, TypeOK

LEMMA ImportNextKeeps ==
    ASSUME CollectInv, ImportNext
    PROVE  CollectInv'
<1>1. /\ call # None /\ call.todo # <<>> /\ Head(call.todo) \in Modules
      /\ call' \in [project : Projects, todo : Seq(Modules), env : BOOLEAN]
      /\ call'.env = call.env
      /\ UNCHANGED <<kind, session, cwd, env, value, originals, collected>>
  BY NextModule DEF ImportNext
<1>2. env' \in BOOLEAN /\ call' # None /\ CollectMode'
  BY <1>1, CollectionAssumption DEF CollectInv, TypeOK, CollectMode
<1>3. collected' \in [Projects -> Outcome]
  BY <1>1 DEF CollectInv
<1>4. CASE UNCHANGED <<config, registry, imported, applied>>
  <2>1. TypeOK'
    BY <1>1, <1>4 DEF CollectInv, TypeOK
  <2>2. MpatRecorded' /\ LiveInTestsOnly'
    BY <1>1, <1>2, <1>4 DEF CollectInv, MpatRecorded, LiveInTestsOnly, DeclaredBy
  <2> QED
    BY <1>2, <1>3, <2>1, <2>2 DEF CollectInv
<1>5. CASE BodyReturns(Head(call.todo))
  <2>1. registry \subseteq registry'
    BY <1>5 DEF BodyReturns
  <2>2. \A p \in Projects : /\ collected'[p].outcome \in {"none", "failed", "collected"}
                            /\ collected'[p].found \subseteq registry'
    BY <1>1, <2>1 DEF CollectInv, TypeOK
  <2> QED
    BY <1>1, <1>2, <1>3, <1>5, <2>2, BodyKeeps
<1> QED
  BY <1>4, <1>5 DEF ImportNext

LEMMA ImportRaisesKeeps ==
    ASSUME CollectInv, ImportRaises
    PROVE  CollectInv'
<1>1. /\ call # None /\ call.todo # <<>> /\ Head(call.todo) \in Modules
      /\ BodyRaises(Head(call.todo)) /\ Finish("failed", {})
      /\ UNCHANGED <<kind, session, cwd, value, originals>>
  BY NextModule DEF ImportRaises
<1>2. registry \subseteq registry' /\ registry' \subseteq Declaration
  <2>1. /\ cwd \in Projects \cup {None} /\ config \in Projects \cup {None, "unread"}
        /\ registry \subseteq Declaration /\ imported \subseteq Modules /\ applied \subseteq registry
    BY DEF CollectInv, TypeOK
  <2> QED
    BY <1>1, <2>1, BodyRuns
<1>3. /\ call' = None /\ env' = call.env /\ env' \in BOOLEAN
      /\ collected' \in [Projects -> Outcome]
      /\ \A p \in Projects : /\ collected'[p].outcome \in {"none", "failed", "collected"}
                             /\ collected'[p].found \subseteq registry'
  BY <1>1, <1>2, FinishCollects
<1>4. CollectMode'
  BY <1>1, <1>3 DEF CollectInv, CollectMode
<1> QED
  BY <1>1, <1>3, <1>4, BodyKeeps

\* Tables are registered, all of them or some before one is refused.
LEMMA RegisterTablesKeeps ==
    ASSUME CollectInv, RegisterTables \/ RegisterTablesRaises
    PROVE  CollectInv'
<1>1. /\ call # None /\ call.project \in Projects
      /\ UNCHANGED <<kind, session, cwd, config, imported, applied, value, originals>>
  BY DEF RegisterTables, RegisterTablesRaises, CollectInv, TypeOK
<1>2. registry \subseteq registry' /\ registry' \subseteq registry \cup Tables(call.project)
  BY DEF RegisterTables, RegisterTablesRaises
<1>3. registry' \subseteq Declaration
  BY <1>1, <1>2, TablesDeclare DEF CollectInv, TypeOK
<1>4. \E outcome \in {"failed", "collected"}, found \in SUBSET registry' : Finish(outcome, found)
  BY ReturnedIsRegistered DEF RegisterTables, RegisterTablesRaises
<1>5. /\ call' = None /\ env' = call.env /\ env' \in BOOLEAN
      /\ collected' \in [Projects -> Outcome]
      /\ \A p \in Projects : /\ collected'[p].outcome \in {"none", "failed", "collected"}
                             /\ collected'[p].found \subseteq registry'
  BY <1>1, <1>2, <1>3, <1>4, FinishCollects
<1>6. TypeOK'
  BY <1>1, <1>2, <1>3, <1>5 DEF CollectInv, TypeOK
<1>7. CollectMode'
  BY <1>1, <1>5 DEF CollectInv, CollectMode
<1>8. MpatRecorded' /\ LiveInTestsOnly'
  BY <1>1, <1>5, <1>7 DEF CollectMode, CollectInv, MpatRecorded, LiveInTestsOnly, DeclaredBy
<1> QED
  BY <1>5, <1>6, <1>7, <1>8 DEF CollectInv

\* What apply_overrides() assigns is recorded first, with a value that mpat did not assign.
LEMMA AssignRecords ==
    ASSUME CollectInv, NEW p \in Projects, AssignOverrides(p)
    PROVE  /\ value' \in [Targets -> {"upstream", "mpat", "app"}]
           /\ DOMAIN originals' \subseteq Targets
           /\ \A t \in DOMAIN originals' : originals'[t] \in {"upstream", "app"}
           /\ MpatRecorded'
           /\ \A t \in DOMAIN originals : /\ t \in DOMAIN originals'
                                          /\ originals'[t] = originals[t]
                                          /\ value'[t] = value[t]
           /\ env => UNCHANGED <<value, originals>>
<1>1. /\ value \in [Targets -> {"upstream", "mpat", "app"}]
      /\ DOMAIN originals \subseteq Targets
      /\ \A t \in DOMAIN originals : originals[t] \in {"upstream", "app"}
      /\ \A t \in Targets : value[t] = "mpat" => t \in DOMAIN originals
  BY DEF CollectInv, TypeOK, MpatRecorded
<1>2. CASE env
  BY <1>1, <1>2 DEF AssignOverrides, MpatRecorded
<1>3. CASE ~env
  <2>1. PICK n \in 0 .. Len(Overrides[p]) :
            Assign({Overrides[p][i] : i \in 1 .. n} \ DOMAIN originals)
    BY <1>3 DEF AssignOverrides
  <2> DEFINE ts == {Overrides[p][i] : i \in 1 .. n} \ DOMAIN originals
  <2>2. ts \subseteq Targets /\ ts \cap DOMAIN originals = {}
    BY <2>1, OverrideTargets
  <2> HIDE DEF ts
  <2>3. /\ DOMAIN originals' = DOMAIN originals \cup ts
        /\ \A t \in DOMAIN originals' :
              originals'[t] = IF t \in ts THEN value[t] ELSE originals[t]
        /\ value' = [t \in Targets |-> IF t \in ts \ ReadOnly THEN "mpat" ELSE value[t]]
    BY <2>1 DEF Assign, ts
  <2>4. \A t \in ts : value[t] \in {"upstream", "app"}
    BY <1>1, <2>2
  <2>5. value' \in [Targets -> {"upstream", "mpat", "app"}]
    BY <1>1, <2>3
  <2>6. \A t \in DOMAIN originals' : originals'[t] \in {"upstream", "app"}
    BY <1>1, <2>3, <2>4
  <2>7. MpatRecorded'
    BY <1>1, <2>3 DEF MpatRecorded
  <2> QED
    BY <1>1, <1>3, <2>2, <2>3, <2>5, <2>6, <2>7
<1> QED
  BY <1>2, <1>3

LEMMA ApplyOverridesKeeps ==
    ASSUME CollectInv, ApplyOverrides
    PROVE  CollectInv'
<1>1. /\ UNCHANGED <<kind, session, cwd, env, imported, applied, call, collected>>
      /\ kind = "tests" \/ call # None
      /\ config' \in Projects
  BY DEF ApplyOverrides, ReadConfig, CollectInv, TypeOK
<1>2. \/ UNCHANGED <<registry, value, originals>>
      \/ registry' = registry \cup Tables(config') /\ AssignOverrides(config')
  BY DEF ApplyOverrides
<1>3. registry \subseteq registry' /\ registry' \subseteq Declaration
  BY <1>1, <1>2, TablesDeclare DEF CollectInv, TypeOK
<1>4. /\ value' \in [Targets -> {"upstream", "mpat", "app"}]
      /\ DOMAIN originals' \subseteq Targets
      /\ \A t \in DOMAIN originals' : originals'[t] \in {"upstream", "app"}
      /\ MpatRecorded'
      /\ env => UNCHANGED <<value, originals>>
  <2>1. CASE UNCHANGED <<registry, value, originals>>
    BY <2>1 DEF CollectInv, TypeOK, MpatRecorded
  <2>2. CASE AssignOverrides(config')
    BY <1>1, <2>2, AssignRecords
  <2> QED
    BY <1>2, <2>1, <2>2
<1>5. TypeOK'
  BY <1>1, <1>3, <1>4 DEF CollectInv, TypeOK
<1>6. CollectMode' /\ collected' \in [Projects -> Outcome]
  BY <1>1 DEF CollectInv, CollectMode
<1>7. LiveInTestsOnly'
  <2>1. kind \in {"check", "tests"} /\ (kind = "check" => env)
    BY <1>1 DEF CollectInv, TypeOK, CollectMode
  <2> QED
    BY <1>1, <1>4, <2>1 DEF CollectInv, LiveInTestsOnly, DeclaredBy
<1> QED
  BY <1>4, <1>5, <1>6, <1>7 DEF CollectInv

LEMMA ApplicationKeeps ==
    ASSUME CollectInv,
           \/ \E m \in Modules : ImportModule(m)
           \/ \E t \in Targets : SetAttribute(t)
           \/ \E p \in Projects \cup {None} : Chdir(p)
    PROVE  CollectInv'
<1>1. ASSUME NEW m \in Modules, ImportModule(m) PROVE CollectInv'
  <2>1. env' \in BOOLEAN /\ CollectMode' /\ collected' \in [Projects -> Outcome]
    BY <1>1 DEF ImportModule, CollectInv, TypeOK, CollectMode
  <2>2. registry \subseteq registry'
    BY <1>1 DEF ImportModule, BodyReturns, BodyRaises
  <2>3. /\ call' = None \/ call' \in [project : Projects, todo : Seq(Modules), env : BOOLEAN]
        /\ \A p \in Projects : /\ collected'[p].outcome \in {"none", "failed", "collected"}
                               /\ collected'[p].found \subseteq registry'
    BY <1>1, <2>2 DEF ImportModule, CollectInv, TypeOK
  <2> QED
    BY <1>1, <2>1, <2>3, BodyKeeps DEF ImportModule
<1>2. ASSUME NEW t \in Targets, SetAttribute(t) PROVE CollectInv'
  <2>1. TypeOK'
    BY <1>2 DEF SetAttribute, CollectInv, TypeOK
  <2>2. MpatRecorded'
    BY <1>2 DEF SetAttribute, CollectInv, TypeOK, MpatRecorded
  <2>3. CollectMode' /\ LiveInTestsOnly' /\ collected' \in [Projects -> Outcome]
    BY <1>2 DEF SetAttribute, CollectInv, CollectMode, LiveInTestsOnly, DeclaredBy
  <2> QED
    BY <2>1, <2>2, <2>3 DEF CollectInv
<1>3. ASSUME NEW p \in Projects \cup {None}, Chdir(p) PROVE CollectInv'
  <2>1. TypeOK'
    BY <1>3 DEF Chdir, CollectInv, TypeOK
  <2>2. /\ MpatRecorded' /\ CollectMode' /\ LiveInTestsOnly'
        /\ collected' \in [Projects -> Outcome]
    BY <1>3 DEF Chdir, CollectInv, MpatRecorded, CollectMode, LiveInTestsOnly, DeclaredBy
  <2> QED
    BY <2>1, <2>2 DEF CollectInv
<1> QED
  BY <1>1, <1>2, <1>3

--------------------------------------------------------------------------------
(* The theorems.                                                           *)

LEMMA NextCollectInv == CollectInv /\ [Next]_vars => CollectInv'
<1> SUFFICES ASSUME CollectInv, [Next]_vars PROVE CollectInv'
  OBVIOUS
<1>1. CASE \E p \in Projects : StartCollecting(p) \/ StartChecking(p)
  BY <1>1, StartKeeps
<1>2. CASE ImportNext
  BY <1>2, ImportNextKeeps
<1>3. CASE ImportRaises
  BY <1>3, ImportRaisesKeeps
<1>4. CASE RegisterTables \/ RegisterTablesRaises
  BY <1>4, RegisterTablesKeeps
<1>5. CASE ApplyOverrides
  BY <1>5, ApplyOverridesKeeps
<1>6. CASE \/ \E m \in Modules : ImportModule(m)
           \/ \E t \in Targets : SetAttribute(t)
           \/ \E p \in Projects \cup {None} : Chdir(p)
  BY <1>6, ApplicationKeeps
<1>7. CASE UNCHANGED vars
  <2>1. TypeOK' /\ collected' \in [Projects -> Outcome]
    BY <1>7 DEF vars, CollectInv, TypeOK
  <2>2. CollectMode' /\ MpatRecorded' /\ LiveInTestsOnly'
    BY <1>7 DEF vars, CollectInv, CollectMode, MpatRecorded, LiveInTestsOnly, DeclaredBy
  <2> QED
    BY <2>1, <2>2 DEF CollectInv
<1> QED
  BY <1>1, <1>2, <1>3, <1>4, <1>5, <1>6, <1>7 DEF Next

LEMMA AlwaysCollectInv == Spec => []CollectInv
BY InitCollectInv, NextCollectInv, PTL DEF Spec

\* The registry, the attributes and the calls keep their types: nothing but what mpat did not
\* assign itself is recorded as the original of an override (record_override).
THEOREM TypeCorrect == Spec => []TypeOK
<1>1. CollectInv => TypeOK
  BY DEF CollectInv
<1> QED
  BY <1>1, AlwaysCollectInv, PTL

\* In a test session each imported module has its patches in effect, `mpat check` touches
\* nothing (collect_declarations, collect_mode).
THEOREM PatchesLiveInTestsOnly == Spec => []LiveInTestsOnly
<1>1. CollectInv => LiveInTestsOnly
  BY DEF CollectInv
<1> QED
  BY <1>1, AlwaysCollectInv, PTL

\* However often apply_overrides() is called, and wherever it raises, it assigns an
\* override once and keeps its original.
THEOREM OverridesAssignedOnce == Spec => OverrideOnce
<1>1. ASSUME CollectInv, [Next]_vars
      PROVE  [\A t \in DOMAIN originals : /\ t \in DOMAIN originals' /\ originals'[t] = originals[t]
                                          /\ value'[t] \in {value[t], "app"}]_vars
  <2>1. CASE ApplyOverrides
    <3>1. config' \in Projects
      BY <1>1, <2>1 DEF ApplyOverrides, ReadConfig, CollectInv, TypeOK
    <3>2. UNCHANGED <<value, originals>> \/ AssignOverrides(config')
      BY <2>1 DEF ApplyOverrides
    <3> QED
      BY <1>1, <3>1, <3>2, AssignRecords
  <2>2. CASE \E t \in Targets : SetAttribute(t)
    BY <1>1, <2>2 DEF SetAttribute, CollectInv, TypeOK
  <2>3. CASE \/ \E p \in Projects : StartCollecting(p) \/ StartChecking(p)
             \/ ImportNext \/ ImportRaises \/ RegisterTables \/ RegisterTablesRaises
             \/ \E m \in Modules : ImportModule(m)
             \/ \E p \in Projects \cup {None} : Chdir(p)
    <3>1. UNCHANGED <<value, originals>>
      BY <2>3 DEF StartCollecting, StartChecking, ImportNext, ImportRaises, RegisterTables,
                  RegisterTablesRaises, ImportModule, Chdir
    <3> QED
      BY <3>1
  <2> QED
    BY <1>1, <2>1, <2>2, <2>3 DEF Next
<1> QED
  BY <1>1, AlwaysCollectInv, PTL DEF Spec, OverrideOnce

--------------------------------------------------------------------------------
(* What is collected.                                                      *)

\* A declaration in the registry is one that its file makes.
OfItsFile == \A d \in registry :
    /\ d.file \in Modules => d \in DeclaredBy(d.file)
    /\ d.file \in Projects => d \in Tables(d.file)

\* A module in sys.modules has registered all it declares.
ImportedDeclares == \A m \in imported : DeclaredBy(m) \subseteq registry

\* A call has imported the modules its project lists, but for those it has yet to import.
CallImports == call # None =>
    /\ ToSet(call.todo) \subseteq ToSet(Lists[call.project])
    /\ ToSet(Lists[call.project]) \subseteq imported \cup ToSet(call.todo)

\* `mpat check` collects one project, and nothing else declares anything.
CheckOfOne == kind = "check" =>
    /\ cwd \in Projects /\ config \in {cwd, "unread"}
    /\ call # None => call.project = cwd
    /\ registry \subseteq Alone(cwd)
    /\ \A p \in Projects : IsCollected(p) => p = cwd

\* The collection of a project found its own declarations as far as they are in its scope,
\* and nothing that is not.
FoundOf(p) == IsCollected(p) =>
    /\ Alone(p) \subseteq registry
    /\ Returned(Alone(p), p) \subseteq collected[p].found
    /\ collected[p].found \subseteq Returned(registry, p)

ScopeInv ==
    /\ OfItsFile
    /\ ImportedDeclares
    /\ CallImports
    /\ CheckOfOne
    /\ \A p \in Projects : FoundOf(p)

LEMMA AloneHolds ==
    ASSUME NEW p
    PROVE  /\ Tables(p) \subseteq Alone(p)
           /\ \A m \in ToSet(Lists[p]) : DeclaredBy(m) \subseteq Alone(p)
           /\ \A d \in Alone(p) : d \in Tables(p) \/ \E m \in ToSet(Lists[p]) : d \in DeclaredBy(m)
BY DEF Alone

LEMMA ListedAreModules ==
    ASSUME NEW p \in Projects
    PROVE  ToSet(Lists[p]) \subseteq Modules
<1>1. Lists[p] \in Seq(Modules)
  BY CollectionAssumption
<1> QED
  BY <1>1 DEF ToSet

LEMMA FileOfDeclared ==
    /\ \A m \in Modules : \A d \in DeclaredBy(m) : d.file = m /\ d.file \notin Projects
    /\ \A p \in Projects : \A d \in Tables(p) : d.file = p /\ d.file \notin Modules
BY CollectionAssumption DEF DeclaredBy, Tables

\* The scope of a project does not change, and more declarations have no fewer in it.
LEMMA ScopeStays ==
    ASSUME UNCHANGED <<kind, session>>, NEW ds, NEW p
    PROVE  Returned(ds, p)' = Returned(ds, p)
BY DEF Returned, Scoped, Owner

LEMMA ScopeGrows ==
    ASSUME NEW ds, NEW es, NEW p, ds \subseteq es
    PROVE  Returned(ds, p) \subseteq Returned(es, p)
BY DEF Returned, Scoped

\* What was found of a project stays what can be found of it.
LEMMA FoundStays ==
    ASSUME NEW p \in Projects, FoundOf(p), UNCHANGED <<kind, session>>,
           registry \subseteq registry', collected'[p] = collected[p]
    PROVE  FoundOf(p)'
<1> SUFFICES ASSUME IsCollected(p)' PROVE FoundOf(p)'
  BY DEF FoundOf
<1>1. IsCollected(p)
  BY DEF IsCollected
<1>2. Alone(p)' = Alone(p)
  BY DEF Alone, DeclaredBy, Tables
<1>3. \A ds : Returned(ds, p)' = Returned(ds, p)
  BY ScopeStays
<1>4. Returned(registry, p) \subseteq Returned(registry', p)
  BY ScopeGrows
<1>5. /\ Alone(p) \subseteq registry'
      /\ Returned(Alone(p), p) \subseteq collected'[p].found
      /\ collected'[p].found \subseteq Returned(registry', p)
  BY <1>1, <1>4 DEF FoundOf
<1>6. Returned(Alone(p), p)' = Returned(Alone(p), p) /\ Returned(registry, p)' = Returned(registry', p)
  BY <1>2 DEF Returned, Scoped, Owner
<1> QED
  BY <1>2, <1>5, <1>6 DEF FoundOf

\* A body registers what its module declares, all of it if the module stays imported.
LEMMA BodyDeclares ==
    ASSUME NEW m \in Modules, OfItsFile, ImportedDeclares, BodyReturns(m) \/ BodyRaises(m)
    PROVE  /\ registry \subseteq registry' /\ registry' \subseteq registry \cup DeclaredBy(m)
           /\ imported \subseteq imported' /\ (BodyReturns(m) => m \in imported')
           /\ config' = IF config = "unread" THEN cwd ELSE config
           /\ OfItsFile' /\ ImportedDeclares'
<1>1. config' = IF config = "unread" THEN cwd ELSE config
  BY DEF BodyReturns, BodyRaises, ReadConfig
<1>2. CASE BodyReturns(m)
  <2>1. registry' = registry \cup DeclaredBy(m) /\ imported' = imported \cup {m}
    BY <1>2 DEF BodyReturns
  <2>2. OfItsFile'
    BY <2>1, FileOfDeclared DEF OfItsFile, DeclaredBy, Tables
  <2>3. ImportedDeclares'
    BY <2>1 DEF ImportedDeclares, DeclaredBy
  <2> QED
    BY <1>1, <2>1, <2>2, <2>3
<1>3. CASE BodyRaises(m)
  <2>1. imported' = imported /\ registry \subseteq registry'
    BY <1>3 DEF BodyRaises
  <2>2. registry' \subseteq registry \cup DeclaredBy(m)
    BY <1>3 DEF BodyRaises
  <2>3. OfItsFile'
    BY <2>2, FileOfDeclared DEF OfItsFile, DeclaredBy, Tables
  <2>4. ImportedDeclares'
    BY <2>1 DEF ImportedDeclares, DeclaredBy
  <2>5. BodyReturns(m) => m \in imported'
    BY DEF BodyReturns
  <2> QED
    BY <1>1, <2>1, <2>2, <2>3, <2>4, <2>5
<1> QED
  BY <1>2, <1>3

LEMMA InitScopeInv == Init => ScopeInv
<1> SUFFICES ASSUME Init PROVE ScopeInv
  OBVIOUS
<1>1. registry = {} /\ imported = {} /\ call = None /\ config = "unread"
  BY DEF Init
<1>2. kind = "check" => cwd \in Projects
  BY DEF Init
<1>3. \A p \in Projects : ~IsCollected(p)
  BY DEF Init, IsCollected
<1> QED
  BY <1>1, <1>2, <1>3 DEF ScopeInv, OfItsFile, ImportedDeclares, CallImports, CheckOfOne, FoundOf

LEMMA StartScopes ==
    ASSUME CollectInv, ScopeInv, NEW p \in Projects, StartCollecting(p) \/ StartChecking(p)
    PROVE  ScopeInv'
<1>1. /\ UNCHANGED <<kind, session, cwd, config, registry, imported, collected>>
      /\ call' = [project |-> p, todo |-> Lists[p], env |-> env]
      /\ kind = "check" => p = cwd
  BY DEF StartCollecting, StartChecking
<1>2. OfItsFile' /\ ImportedDeclares'
  BY <1>1 DEF ScopeInv, OfItsFile, ImportedDeclares, DeclaredBy, Tables
<1>3. CallImports'
  BY <1>1 DEF CallImports
<1>4. CheckOfOne'
  BY <1>1 DEF ScopeInv, CheckOfOne, IsCollected, Alone, DeclaredBy, Tables
<1>5. \A q \in Projects : FoundOf(q)'
  BY <1>1, FoundStays DEF ScopeInv
<1> QED
  BY <1>2, <1>3, <1>4, <1>5 DEF ScopeInv

\* The call goes on with the modules behind the first.
LEMMA RestOfCall ==
    ASSUME CollectInv, ScopeInv, call # None, call.todo # <<>>
    PROVE  /\ Head(call.todo) \in Modules /\ Head(call.todo) \in ToSet(Lists[call.project])
           /\ ToSet(call.todo) = {Head(call.todo)} \cup ToSet(Tail(call.todo))
<1>1. call.todo \in Seq(Modules) /\ call.todo # <<>>
  BY DEF CollectInv, TypeOK
<1>2. ToSet(call.todo) = {Head(call.todo)} \cup ToSet(Tail(call.todo))
  <2> DEFINE s == call.todo
  <2> HIDE DEF s
  <2>1. ASSUME s \in Seq(Modules), s # <<>>
        PROVE  ToSet(s) = {Head(s)} \cup ToSet(Tail(s))
    <3>1. /\ Len(s) \in Nat /\ Len(s) > 0 /\ DOMAIN s = 1 .. Len(s)
          /\ Head(s) = s[1] /\ DOMAIN Tail(s) = 1 .. Len(s) - 1
          /\ \A i \in 1 .. Len(s) - 1 : Tail(s)[i] = s[i + 1]
      BY <2>1
    <3>2. \A x \in ToSet(s) : x = Head(s) \/ x \in ToSet(Tail(s))
      <4> SUFFICES ASSUME NEW i \in 1 .. Len(s), i # 1 PROVE s[i] \in ToSet(Tail(s))
        BY <3>1 DEF ToSet
      <4>1. i - 1 \in DOMAIN Tail(s) /\ Tail(s)[i - 1] = s[i]
        BY <3>1
      <4> QED
        BY <4>1 DEF ToSet
    <3>3. ToSet(Tail(s)) \subseteq ToSet(s)
      <4> SUFFICES ASSUME NEW i \in 1 .. Len(s) - 1 PROVE Tail(s)[i] \in ToSet(s)
        BY <3>1 DEF ToSet
      <4>1. i + 1 \in DOMAIN s /\ Tail(s)[i] = s[i + 1]
        BY <3>1
      <4> QED
        BY <4>1 DEF ToSet
    <3>4. Head(s) \in ToSet(s)
      <4>1. 1 \in DOMAIN s
        BY <3>1
      <4> QED
        BY <3>1, <4>1 DEF ToSet
    <3> QED
      BY <3>2, <3>3, <3>4
  <2> QED
    BY <1>1, <2>1 DEF s
<1>3. Head(call.todo) \in ToSet(Lists[call.project])
  BY <1>2 DEF ScopeInv, CallImports
<1> QED
  BY <1>2, <1>3, NextModule

\* In a check only the listed modules and the tables of the project are collected.
LEMMA CheckStays ==
    ASSUME CollectInv, ScopeInv, UNCHANGED <<kind, cwd>>,
           kind = "check" =>
              /\ config' \in {cwd, "unread"}
              /\ call' # None => call'.project = cwd
              /\ registry' \subseteq registry \cup Alone(cwd)
              /\ \A p \in Projects : IsCollected(p)' => IsCollected(p) \/ p = cwd
    PROVE  CheckOfOne'
BY DEF ScopeInv, CheckOfOne, Alone, DeclaredBy, Tables

LEMMA ImportNextScopes ==
    ASSUME CollectInv, ScopeInv, ImportNext
    PROVE  ScopeInv'
<1> DEFINE m == Head(call.todo)
<1>1. /\ call # None /\ call.todo # <<>>
      /\ call' = [call EXCEPT !.todo = Tail(@)]
      /\ UNCHANGED <<kind, session, cwd, collected>>
  BY DEF ImportNext
<1>2. /\ m \in Modules /\ m \in ToSet(Lists[call.project])
      /\ ToSet(call.todo) = {m} \cup ToSet(Tail(call.todo))
  BY <1>1, RestOfCall
<1>3. call \in [project : Projects, todo : Seq(Modules), env : BOOLEAN]
  BY <1>1 DEF CollectInv, TypeOK
<1>4. call'.todo = Tail(call.todo) /\ call'.project = call.project
  BY <1>1, <1>3
<1> HIDE DEF m
<1>5. /\ registry \subseteq registry' /\ registry' \subseteq registry \cup DeclaredBy(m)
      /\ imported \subseteq imported' /\ m \in imported'
      /\ config' = config \/ config' = IF config = "unread" THEN cwd ELSE config
      /\ OfItsFile' /\ ImportedDeclares'
  <2>1. CASE m \in imported
    <3>1. UNCHANGED <<config, registry, imported>>
      BY <2>1 DEF ImportNext, m
    <3> QED
      BY <2>1, <3>1 DEF ScopeInv, OfItsFile, ImportedDeclares, DeclaredBy, Tables
  <2>2. CASE m \notin imported
    <3>1. BodyReturns(m)
      BY <2>2 DEF ImportNext, m
    <3> QED
      BY <1>2, <3>1, BodyDeclares DEF ScopeInv
  <2> QED
    BY <2>1, <2>2
<1>6. CallImports'
  BY <1>1, <1>2, <1>4, <1>5 DEF ScopeInv, CallImports
<1>7. CheckOfOne'
  <2>1. kind = "check" => DeclaredBy(m) \subseteq Alone(cwd)
    BY <1>1, <1>2, AloneHolds DEF ScopeInv, CheckOfOne
  <2>2. kind = "check" => call'.project = cwd /\ config' \in {cwd, "unread"}
    BY <1>1, <1>4, <1>5 DEF ScopeInv, CheckOfOne
  <2>3. \A p \in Projects : IsCollected(p)' => IsCollected(p)
    BY <1>1 DEF IsCollected
  <2> QED
    BY <1>1, <1>5, <2>1, <2>2, <2>3, CheckStays
<1>8. \A p \in Projects : FoundOf(p)'
  BY <1>1, <1>5, FoundStays DEF ScopeInv
<1> QED
  BY <1>5, <1>6, <1>7, <1>8 DEF ScopeInv

\* A call that fails finds nothing.
LEMMA FailureFindsNothing ==
    ASSUME CollectInv, ScopeInv, call # None, Finish("failed", {}),
           UNCHANGED <<kind, session>>, registry \subseteq registry'
    PROVE  /\ \A p \in Projects : FoundOf(p)'
           /\ \A p \in Projects : IsCollected(p)' => IsCollected(p)
           /\ CallImports'
<1>1. collected \in [Projects -> Outcome] /\ call.project \in Projects
  BY DEF CollectInv, TypeOK
<1>2. call' = None /\ collected' = [collected EXCEPT ![call.project] = [outcome |-> "failed", found |-> {}]]
  BY DEF Finish
<1>3. ASSUME NEW p \in Projects PROVE FoundOf(p)' /\ (IsCollected(p)' => IsCollected(p))
  <2>1. CASE p = call.project
    <3>1. collected'[p].outcome = "failed"
      BY <1>1, <1>2, <2>1
    <3> QED
      BY <3>1 DEF FoundOf, IsCollected
  <2>2. CASE p # call.project
    <3>1. collected'[p] = collected[p]
      BY <1>1, <1>2, <2>2
    <3>2. FoundOf(p)'
      BY <3>1, FoundStays DEF ScopeInv
    <3> QED
      BY <3>1, <3>2 DEF IsCollected
  <2> QED
    BY <2>1, <2>2
<1> QED
  BY <1>2, <1>3 DEF CallImports

LEMMA ImportRaisesScopes ==
    ASSUME CollectInv, ScopeInv, ImportRaises
    PROVE  ScopeInv'
<1> DEFINE m == Head(call.todo)
<1>1. /\ call # None /\ call.todo # <<>> /\ call' = None
      /\ BodyRaises(m) /\ Finish("failed", {})
      /\ UNCHANGED <<kind, session, cwd>>
  BY DEF ImportRaises, Finish
<1>2. m \in Modules /\ m \in ToSet(Lists[call.project])
  BY <1>1, RestOfCall
<1> HIDE DEF m
<1>3. /\ registry \subseteq registry' /\ registry' \subseteq registry \cup DeclaredBy(m)
      /\ config' = IF config = "unread" THEN cwd ELSE config
      /\ OfItsFile' /\ ImportedDeclares'
  BY <1>1, <1>2, BodyDeclares DEF ScopeInv
<1>4. /\ \A p \in Projects : FoundOf(p)'
      /\ \A p \in Projects : IsCollected(p)' => IsCollected(p)
      /\ CallImports'
  BY <1>1, <1>3, FailureFindsNothing
<1>5. CheckOfOne'
  <2>1. kind = "check" => DeclaredBy(m) \subseteq Alone(cwd) /\ config' \in {cwd, "unread"}
    BY <1>1, <1>2, <1>3, AloneHolds DEF ScopeInv, CheckOfOne
  <2> QED
    BY <1>1, <1>3, <1>4, <2>1, CheckStays
<1> QED
  BY <1>3, <1>4, <1>5 DEF ScopeInv

\* Once all modules are imported and the tables are registered, all of the project is.
LEMMA RegisterTablesScopes ==
    ASSUME CollectInv, ScopeInv, RegisterTables
    PROVE  ScopeInv'
<1>0. call # None /\ call.project \in Projects
  BY DEF RegisterTables, CollectInv, TypeOK
<1> PICK p \in Projects : p = call.project
  BY <1>0
<1>1. /\ call # None /\ call.todo = <<>> /\ call' = None
      /\ registry' = registry \cup Tables(p)
      /\ Finish("collected", Returned(registry', p))
      /\ UNCHANGED <<kind, session, cwd, config, imported>>
  BY DEF RegisterTables, Finish
<1>2. p \in Projects /\ collected \in [Projects -> Outcome]
  BY DEF CollectInv
<1>3. collected' = [collected EXCEPT ![p] = [outcome |-> "collected", found |-> Returned(registry', p)]]
  BY <1>1 DEF Finish
<1>4. Alone(p) \subseteq registry'
  <2>1. ToSet(Lists[p]) \subseteq imported
    BY <1>1 DEF ScopeInv, CallImports, ToSet
  <2> QED
    BY <1>1, <2>1, AloneHolds DEF ScopeInv, ImportedDeclares
<1>5. OfItsFile'
  BY <1>1, <1>2, FileOfDeclared DEF ScopeInv, OfItsFile, DeclaredBy, Tables
<1>6. ImportedDeclares' /\ CallImports'
  BY <1>1 DEF ScopeInv, ImportedDeclares, CallImports, DeclaredBy
<1>7. CheckOfOne'
  <2>1. kind = "check" => p = cwd /\ Tables(p) \subseteq Alone(cwd) /\ config' \in {cwd, "unread"}
    BY <1>1, AloneHolds DEF ScopeInv, CheckOfOne
  <2>2. \A q \in Projects : IsCollected(q)' => IsCollected(q) \/ q = p
    BY <1>2, <1>3 DEF IsCollected
  <2> QED
    BY <1>1, <2>1, <2>2, CheckStays
<1>8. ASSUME NEW q \in Projects PROVE FoundOf(q)'
  <2>1. CASE q = p
    <3>1. collected'[q].found = Returned(registry', p)
      <4> DEFINE outcome == [outcome |-> "collected", found |-> Returned(registry', p)]
      <4>1. collected'[q] = outcome
        BY <1>2, <1>3, <2>1
      <4> QED
        BY <4>1
    <3>2. Returned(Alone(p), p) \subseteq Returned(registry', p)
      BY <1>4, ScopeGrows
    <3>3. /\ Alone(p)' = Alone(p) /\ Returned(Alone(p), p)' = Returned(Alone(p), p)
          /\ Returned(registry, p)' = Returned(registry', p)
      <4>1. Alone(p)' = Alone(p)
        BY DEF Alone, DeclaredBy, Tables
      <4>2. /\ Returned(Alone(p), p)' = Returned(Alone(p), p)
            /\ Returned(registry, p)' = Returned(registry', p)
        BY <1>1, <4>1 DEF Returned, Scoped, Owner
      <4> QED
        BY <4>1, <4>2
    <3> QED
      BY <1>4, <2>1, <3>1, <3>2, <3>3 DEF FoundOf
  <2>2. CASE q # p
    <3>1. collected'[q] = collected[q]
      BY <1>2, <1>3, <2>2
    <3> QED
      BY <1>1, <3>1, FoundStays DEF ScopeInv
  <2> QED
    BY <2>1, <2>2
<1> QED
  BY <1>5, <1>6, <1>7, <1>8 DEF ScopeInv

LEMMA RegisterTablesRaisesScopes ==
    ASSUME CollectInv, ScopeInv, RegisterTablesRaises
    PROVE  ScopeInv'
<1>0. call # None /\ call.project \in Projects
  BY DEF RegisterTablesRaises, CollectInv, TypeOK
<1> PICK p \in Projects : p = call.project
  BY <1>0
<1>1. /\ call' = None /\ Finish("failed", {})
      /\ UNCHANGED <<kind, session, cwd, config, imported>>
  BY DEF RegisterTablesRaises, Finish
<1>2. registry \subseteq registry' /\ registry' \subseteq registry \cup Tables(p)
  BY DEF RegisterTablesRaises
<1>3. OfItsFile'
  BY <1>2, FileOfDeclared DEF ScopeInv, OfItsFile, DeclaredBy, Tables
<1>4. ImportedDeclares'
  BY <1>1, <1>2 DEF ScopeInv, ImportedDeclares, DeclaredBy
<1>5. /\ \A q \in Projects : FoundOf(q)'
      /\ \A q \in Projects : IsCollected(q)' => IsCollected(q)
      /\ CallImports'
  BY <1>0, <1>1, <1>2, FailureFindsNothing
<1>6. CheckOfOne'
  <2>1. kind = "check" => Tables(p) \subseteq Alone(cwd) /\ config' \in {cwd, "unread"}
    BY <1>0, <1>1, AloneHolds DEF ScopeInv, CheckOfOne
  <2> QED
    BY <1>1, <1>2, <1>5, <2>1, CheckStays
<1> QED
  BY <1>3, <1>4, <1>5, <1>6 DEF ScopeInv

\* In a check apply_overrides() reads the configuration of the project that is checked.
LEMMA ApplyOverridesScopes ==
    ASSUME CollectInv, ScopeInv, ApplyOverrides
    PROVE  ScopeInv'
<1>1. /\ UNCHANGED <<kind, session, cwd, imported, call, collected>>
      /\ config' = IF config = "unread" THEN cwd ELSE config
      /\ config' \in Projects
  BY DEF ApplyOverrides, ReadConfig, CollectInv, TypeOK
<1> PICK p \in Projects : p = config'
  BY <1>1
<1>2. registry \subseteq registry' /\ registry' \subseteq registry \cup Tables(p)
  BY DEF ApplyOverrides
<1>3. OfItsFile'
  BY <1>2, FileOfDeclared DEF ScopeInv, OfItsFile, DeclaredBy, Tables
<1>4. ImportedDeclares' /\ CallImports'
  BY <1>1, <1>2 DEF ScopeInv, ImportedDeclares, CallImports, DeclaredBy
<1>5. CheckOfOne'
  <2>1. kind = "check" => p = cwd /\ Tables(p) \subseteq Alone(cwd)
    BY <1>1, AloneHolds DEF ScopeInv, CheckOfOne
  <2>2. kind = "check" => config' \in {cwd, "unread"} /\ (call' # None => call'.project = cwd)
    BY <1>1 DEF ScopeInv, CheckOfOne
  <2>3. \A q \in Projects : IsCollected(q)' => IsCollected(q)
    BY <1>1 DEF IsCollected
  <2> QED
    BY <1>1, <1>2, <2>1, <2>2, <2>3, CheckStays
<1>6. \A q \in Projects : FoundOf(q)'
  BY <1>1, <1>2, FoundStays DEF ScopeInv
<1> QED
  BY <1>3, <1>4, <1>5, <1>6 DEF ScopeInv

\* Only a test session goes on with anything else than the collection.
LEMMA ApplicationScopes ==
    ASSUME CollectInv, ScopeInv,
           \/ \E m \in Modules : ImportModule(m)
           \/ \E t \in Targets : SetAttribute(t)
           \/ \E p \in Projects \cup {None} : Chdir(p)
    PROVE  ScopeInv'
<1>1. kind = "tests" /\ UNCHANGED <<kind, session, call, collected>>
  BY DEF ImportModule, SetAttribute, Chdir
<1>2. /\ registry \subseteq registry' /\ imported \subseteq imported'
      /\ OfItsFile' /\ ImportedDeclares'
  <2>1. ASSUME NEW m \in Modules, ImportModule(m)
        PROVE  /\ registry \subseteq registry' /\ imported \subseteq imported'
               /\ OfItsFile' /\ ImportedDeclares'
    BY <2>1, BodyDeclares DEF ScopeInv, ImportModule
  <2>2. CASE UNCHANGED <<registry, imported>>
    BY <2>2 DEF ScopeInv, OfItsFile, ImportedDeclares, DeclaredBy, Tables
  <2> QED
    BY <2>1, <2>2 DEF SetAttribute, Chdir
<1>3. CallImports' /\ CheckOfOne'
  BY <1>1, <1>2 DEF ScopeInv, CallImports, CheckOfOne
<1>4. \A q \in Projects : FoundOf(q)'
  BY <1>1, <1>2, FoundStays DEF ScopeInv
<1> QED
  BY <1>2, <1>3, <1>4 DEF ScopeInv

LEMMA NextScopeInv == CollectInv /\ ScopeInv /\ [Next]_vars => ScopeInv'
<1> SUFFICES ASSUME CollectInv, ScopeInv, [Next]_vars PROVE ScopeInv'
  OBVIOUS
<1>1. CASE \E p \in Projects : StartCollecting(p) \/ StartChecking(p)
  BY <1>1, StartScopes
<1>2. CASE ImportNext
  BY <1>2, ImportNextScopes
<1>3. CASE ImportRaises
  BY <1>3, ImportRaisesScopes
<1>4. CASE RegisterTables
  BY <1>4, RegisterTablesScopes
<1>5. CASE RegisterTablesRaises
  BY <1>5, RegisterTablesRaisesScopes
<1>6. CASE ApplyOverrides
  BY <1>6, ApplyOverridesScopes
<1>7. CASE \/ \E m \in Modules : ImportModule(m)
           \/ \E t \in Targets : SetAttribute(t)
           \/ \E p \in Projects \cup {None} : Chdir(p)
  BY <1>7, ApplicationScopes
<1>8. CASE UNCHANGED vars
  <2>1. UNCHANGED <<kind, session, cwd, config, registry, imported, call, collected>>
    BY <1>8 DEF vars
  <2>2. OfItsFile' /\ ImportedDeclares' /\ CallImports'
    BY <2>1 DEF ScopeInv, OfItsFile, ImportedDeclares, CallImports, DeclaredBy, Tables
  <2>3. CheckOfOne'
    BY <2>1 DEF ScopeInv, CheckOfOne, IsCollected, Alone, DeclaredBy, Tables
  <2>4. \A p \in Projects : FoundOf(p)'
    BY <2>1, FoundStays DEF ScopeInv
  <2> QED
    BY <2>2, <2>3, <2>4 DEF ScopeInv
<1> QED
  BY <1>1, <1>2, <1>3, <1>4, <1>5, <1>6, <1>7, <1>8 DEF Next

LEMMA AlwaysScopeInv == Spec => [](CollectInv /\ ScopeInv)
<1>1. Init => CollectInv /\ ScopeInv
  BY InitCollectInv, InitScopeInv
<1>2. CollectInv /\ ScopeInv /\ [Next]_vars => (CollectInv /\ ScopeInv)'
  BY NextCollectInv, NextScopeInv
<1> QED
  BY <1>1, <1>2, PTL DEF Spec

\* A file that lies in a project of the session, or in none, belongs to the innermost
\* project it lies in.
LEMMA NearestOwns ==
    ASSUME NEW file \in Files, Nearest(file) \in session \cup {None}
    PROVE  Owner(file) = Nearest(file)
<1>1. Roots[file] \in Seq(Projects)
  BY CollectionAssumption
<1> DEFINE owners == {i \in DOMAIN Roots[file] : Roots[file][i] \in session}
<1>2. CASE Roots[file] = <<>>
  <2>1. owners = {}
    BY <1>2
  <2> QED
    BY <1>2, <2>1 DEF Owner, Nearest
<1>3. CASE Roots[file] # <<>>
  <2>1. 1 \in DOMAIN Roots[file] /\ DOMAIN Roots[file] \subseteq Nat \ {0}
    BY <1>1, <1>3
  <2>2. Nearest(file) = Roots[file][1] /\ Roots[file][1] \in Projects
    BY <1>1, <1>3, <2>1 DEF Nearest
  <2>3. 1 \in owners /\ owners \subseteq Nat \ {0}
    BY <2>1, <2>2, CollectionAssumption
  <2> HIDE DEF owners
  <2>4. Min(owners) = 1
    <3>1. \A x \in owners : (\A y \in owners : x =< y) <=> x = 1
      BY <2>3
    <3> QED
      BY <2>3, <3>1 DEF Min
  <2>5. Owner(file) = IF owners = {} THEN None ELSE Roots[file][Min(owners)]
    BY DEF Owner, owners
  <2> QED
    BY <2>2, <2>3, <2>4, <2>5
<1> QED
  BY <1>2, <1>3

\* Whatever else a test session collects, imports and applies, in whatever order, what it
\* finds of a project is what `mpat check` finds of it, provided that each file declares
\* where it lies; and `mpat check` finds what its modules and its tables declare.
THEOREM ProjectsScopedAsAlone == Spec => []ScopedAsAlone
<1>1. CollectInv /\ ScopeInv => ScopedAsAlone
  <2> SUFFICES ASSUME CollectInv, ScopeInv, NEW p \in Projects, IsCollected(p),
                      kind = "tests" => TidyFor(p)
               PROVE  collected[p].found = Alone(p)
    BY DEF ScopedAsAlone
  <2>1. /\ Alone(p) \subseteq registry
        /\ Returned(Alone(p), p) \subseteq collected[p].found
        /\ collected[p].found \subseteq Returned(registry, p)
    BY DEF ScopeInv, FoundOf
  <2>2. CASE kind = "check"
    <3>1. p = cwd /\ registry \subseteq Alone(p)
      BY <2>2 DEF ScopeInv, CheckOfOne
    <3>2. Returned(Alone(p), p) = Alone(p) /\ Returned(registry, p) = registry
      BY <2>2 DEF Returned
    <3> QED
      BY <2>1, <3>1, <3>2
  <2>3. CASE kind = "tests"
    <3>1. \A ds : Returned(ds, p) = {d \in ds : Owner(d.file) \in {None, p}}
      BY <2>3 DEF Returned, Scoped
    <3>2. ASSUME NEW d \in registry
          PROVE  /\ d.file \in Modules \cup Projects
                 /\ Owner(d.file) = Nearest(d.file)
                 /\ Nearest(d.file) \in {None, p} <=> d.file \in ToSet(Lists[p]) \cup {p}
      <4>1. d.file \in Files
        BY DEF CollectInv, TypeOK, Declaration
      <4>2. /\ Nearest(d.file) \in session \cup {None}
            /\ Nearest(d.file) \in {None, p} <=> d.file \in ToSet(Lists[p]) \cup {p}
        BY <2>3 DEF TidyFor
      <4> QED
        BY <4>1, <4>2, NearestOwns DEF Files
    <3>3. collected[p].found \subseteq Alone(p)
      <4> SUFFICES ASSUME NEW d \in collected[p].found PROVE d \in Alone(p)
        OBVIOUS
      <4>1. d \in registry /\ Owner(d.file) \in {None, p}
        BY <2>1, <3>1
      <4>2. d.file \in ToSet(Lists[p]) \cup {p}
        BY <3>2, <4>1
      <4>3. CASE d.file = p
        BY <4>1, <4>3, AloneHolds DEF ScopeInv, OfItsFile
      <4>4. CASE d.file \in ToSet(Lists[p])
        BY <4>1, <4>4, AloneHolds, ListedAreModules DEF ScopeInv, OfItsFile
      <4> QED
        BY <4>2, <4>3, <4>4
    <3>4. Alone(p) \subseteq collected[p].found
      <4> SUFFICES ASSUME NEW d \in Alone(p) PROVE d \in collected[p].found
        OBVIOUS
      <4>1. d \in registry
        BY <2>1
      <4>2. d.file \in ToSet(Lists[p]) \cup {p}
        BY AloneHolds, FileOfDeclared, ListedAreModules
      <4>3. Owner(d.file) \in {None, p}
        BY <3>2, <4>1, <4>2
      <4>4. d \in Returned(Alone(p), p)
        BY <3>1, <4>3
      <4> QED
        BY <2>1, <4>4
    <3> QED
      BY <3>3, <3>4
  <2> QED
    BY <2>2, <2>3 DEF CollectInv, TypeOK
<1> QED
  BY <1>1, AlwaysScopeInv, PTL

================================================================================
