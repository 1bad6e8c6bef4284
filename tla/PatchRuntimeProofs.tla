-------------------------- MODULE PatchRuntimeProofs --------------------------
(***************************************************************************)
(* Theorems about PatchRuntime, for every set of sites, places, addresses  *)
(* and every upstream.                                                     *)
(***************************************************************************)
EXTENDS PatchRuntime, TLAPS

--------------------------------------------------------------------------------
(* The inductive invariant.                                                *)

\* What an attribute refers to is never freed.
Allocated == \A p \in Places : own[p] # NULL => heap[own[p]] # Free

\* The function a wrapper calls is marked in _applied.
OriginalsMarked == \A a \in Addrs : IsWrapper(a) => applied[heap[a].original] # NULL

\* What upstream defines directly stays defined directly.
StaysDirect == \A p \in Places : Upstream[p] # NULL => own[p] # NULL

HeapInv == TypeOK /\ Allocated /\ NoNesting

LEMMA ObjectKinds ==
    /\ Free.kind = "free" /\ Function.kind = "function"
    /\ \A s \in Sites, a \in Addrs :
          /\ Wrapper(s, a).kind = "wrapper"
          /\ Wrapper(s, a).site = s
          /\ Wrapper(s, a).original = a
          /\ Wrapper(s, a) \in [kind : {"wrapper"}, site : Sites, original : Addrs]
          /\ Wrapper(s, a) # Free /\ Wrapper(s, a) # Function
    /\ Free # Function
BY DEF Free, Function, Wrapper

\* What a site wraps is a function at an allocated address.
LEMMA OriginalIsFunction ==
    ASSUME HeapInv, NEW p \in Places, NEW live \in Addrs, Resolves(p, live)
    PROVE  /\ Original(live) \in Addrs
           /\ heap[Original(live)] = Function
<1>1. PICK i \in DOMAIN Mro[p] : own[Mro[p][i]] = live /\ live # NULL
  BY DEF Resolves
<1>2. Mro[p][i] \in Places
  BY <1>1, PlaceAssumption
<1>3. heap[live] # Free
  BY <1>1, <1>2 DEF HeapInv, Allocated
<1>4. heap[live] \in {Free, Function} \cup [kind : {"wrapper"}, site : Sites, original : Addrs]
  BY DEF HeapInv, TypeOK
<1>5. CASE IsWrapper(live)
  <2>1. heap[live] \in [kind : {"wrapper"}, site : Sites, original : Addrs]
    BY <1>4, <1>5 DEF IsWrapper, Free, Function
  <2>2. heap[live].original \in Addrs
    BY <2>1
  <2>3. heap[heap[live].original].kind = "function"
    BY <1>5 DEF HeapInv, NoNesting
  <2>4. heap[heap[live].original] \in
            {Free, Function} \cup [kind : {"wrapper"}, site : Sites, original : Addrs]
    BY <2>2 DEF HeapInv, TypeOK
  <2> QED
    BY <1>5, <2>2, <2>3, <2>4 DEF Original, Free, Function
<1>6. CASE ~IsWrapper(live)
  <2>1. heap[live] = Function
    BY <1>3, <1>4, <1>6 DEF IsWrapper
  <2> QED
    BY <1>6, <2>1 DEF Original
<1> QED
  BY <1>5, <1>6

LEMMA InitHeapInv == Init => HeapInv
<1> SUFFICES ASSUME Init PROVE HeapInv
  OBVIOUS
<1>1. TypeOK
  BY PlaceAssumption DEF Init, TypeOK
<1>2. Allocated
  BY PlaceAssumption, ObjectKinds DEF Init, Allocated
<1>3. NoNesting
  BY ObjectKinds DEF Init, NoNesting, IsWrapper
<1> QED
  BY <1>1, <1>2, <1>3 DEF HeapInv

LEMMA PatchAppliedHeapInv ==
    ASSUME HeapInv, NEW s \in Sites, PatchApplied(s)
    PROVE  HeapInv'
<1>1. PICK live \in Addrs, at \in Addrs :
          /\ Resolves(SiteTarget[s], live)
          /\ heap[at] = Free
          /\ Install(s, at, Original(live))
          /\ Register(s)
          /\ SetStatus(s, "applied")
  BY DEF PatchApplied
<1> DEFINE original == Original(live)
<1>2. SiteTarget[s] \in Places /\ SiteIdentity[s] \in Identities
  BY SiteAssumption
<1>3. original \in Addrs /\ heap[original] = Function
  BY <1>1, <1>2, OriginalIsFunction
<1>4. original # at
  BY <1>1, <1>3, ObjectKinds
<1> HIDE DEF original
<1>5. /\ heap' = [heap EXCEPT ![at] = Wrapper(s, original)]
      /\ own' = [own EXCEPT ![SiteTarget[s]] = at]
      /\ applied' = [applied EXCEPT ![original] = s]
  BY <1>1 DEF Install, original
<1>6. TypeOK'
  <2>1. own' \in [Places -> Addrs \cup {NULL}]
    BY <1>5 DEF HeapInv, TypeOK
  <2>2. heap' \in [Addrs -> {Free, Function}
                            \cup [kind : {"wrapper"}, site : Sites, original : Addrs]]
    BY <1>3, <1>5, ObjectKinds DEF HeapInv, TypeOK
  <2>3. applied' \in [Addrs -> Sites \cup {NULL}]
    BY <1>5 DEF HeapInv, TypeOK
  <2>4. registry' \in [Identities -> Sites \cup {NULL}]
    BY <1>1, <1>2 DEF HeapInv, TypeOK, Register
  <2>5. status' \in [Sites -> {"undeclared", "registered", "applied",
                               "skipped_until", "skipped_drift"}]
    BY <1>1 DEF HeapInv, TypeOK, SetStatus
  <2>6. others' \subseteq {"alias", "redefine"}
    BY DEF HeapInv, TypeOK, PatchApplied
  <2> QED
    BY <2>1, <2>2, <2>3, <2>4, <2>5, <2>6 DEF TypeOK
<1>7. Allocated'
  <2> SUFFICES ASSUME NEW p \in Places, own'[p] # NULL PROVE heap'[own'[p]] # Free
    BY DEF Allocated
  <2>1. CASE p = SiteTarget[s]
    BY <1>2, <1>3, <1>5, <2>1, ObjectKinds DEF HeapInv, TypeOK
  <2>2. CASE p # SiteTarget[s]
    <3>1. own'[p] = own[p] /\ own[p] \in Addrs /\ heap[own[p]] # Free
      BY <1>5, <2>2 DEF HeapInv, TypeOK, Allocated
    <3>2. own[p] # at
      BY <1>1, <3>1
    <3> QED
      BY <1>5, <3>1, <3>2 DEF HeapInv, TypeOK
  <2> QED
    BY <2>1, <2>2
<1>8. NoNesting'
  <2> SUFFICES ASSUME NEW a \in Addrs, heap'[a].kind = "wrapper"
               PROVE  heap'[heap'[a].original].kind = "function"
    BY DEF NoNesting, IsWrapper
  <2>1. CASE a = at
    <3>1. heap'[a].original = original
      BY <1>3, <1>5, <2>1, ObjectKinds DEF HeapInv, TypeOK
    <3>2. heap'[original] = Function
      BY <1>3, <1>4, <1>5 DEF HeapInv, TypeOK
    <3> QED
      BY <3>1, <3>2, ObjectKinds
  <2>2. CASE a # at
    <3>1. heap'[a] = heap[a]
      BY <1>5, <2>2 DEF HeapInv, TypeOK
    <3>2. heap[heap[a].original].kind = "function"
      BY <3>1 DEF HeapInv, NoNesting, IsWrapper
    <3>3. heap[a] \in [kind : {"wrapper"}, site : Sites, original : Addrs]
      BY <3>1, ObjectKinds DEF HeapInv, TypeOK
    <3>4. heap[a].original \in Addrs /\ heap[a].original # at
      BY <1>1, <3>2, <3>3, ObjectKinds
    <3> QED
      BY <1>5, <3>1, <3>2, <3>4 DEF HeapInv, TypeOK
  <2> QED
    BY <2>1, <2>2
<1> QED
  BY <1>6, <1>7, <1>8 DEF HeapInv

LEMMA NextHeapInv == HeapInv /\ [Next]_vars => HeapInv'
<1> SUFFICES ASSUME HeapInv, [Next]_vars PROVE HeapInv'
  OBVIOUS
<1>1. ASSUME NEW s \in Sites,
             \/ PatchSkippedUntil(s) \/ PatchSkippedDrift(s)
             \/ PatchDriftRaises(s) \/ PatchRefused(s)
      PROVE  HeapInv'
  <2>1. UNCHANGED <<own, heap, applied, others>> /\ Register(s)
        /\ \E st \in {"skipped_until", "skipped_drift", "registered"} : SetStatus(s, st)
    BY <1>1 DEF PatchSkippedUntil, PatchSkippedDrift, PatchDriftRaises, PatchRefused
  <2>2. registry' \in [Identities -> Sites \cup {NULL}]
    BY <2>1, SiteAssumption DEF HeapInv, TypeOK, Register
  <2>3. status' \in [Sites -> {"undeclared", "registered", "applied",
                               "skipped_until", "skipped_drift"}]
    BY <2>1 DEF HeapInv, TypeOK, SetStatus
  <2> QED
    BY <2>1, <2>2, <2>3 DEF HeapInv, TypeOK, Allocated, NoNesting, IsWrapper
<1>2. ASSUME NEW s \in Sites, PatchApplied(s) PROVE HeapInv'
  BY <1>2, PatchAppliedHeapInv
<1>3. ASSUME NEW p \in Places, NEW a \in Addrs, Alias(p, a) PROVE HeapInv'
  BY <1>3 DEF Alias, HeapInv, TypeOK, Allocated, NoNesting, IsWrapper
<1>4. ASSUME NEW p \in Places, NEW a \in Addrs, Redefine(p, a) PROVE HeapInv'
  <2>1. TypeOK'
    BY <1>4 DEF Redefine, HeapInv, TypeOK
  <2>2. Allocated'
    BY <1>4, ObjectKinds DEF Redefine, HeapInv, TypeOK, Allocated
  <2>3. NoNesting'
    <3> SUFFICES ASSUME NEW b \in Addrs, heap'[b].kind = "wrapper"
                 PROVE  heap'[heap'[b].original].kind = "function"
      BY DEF NoNesting, IsWrapper
    <3>1. b # a /\ heap'[b] = heap[b]
      BY <1>4, ObjectKinds DEF Redefine, HeapInv, TypeOK
    <3>2. heap[b] \in [kind : {"wrapper"}, site : Sites, original : Addrs]
      BY <3>1, ObjectKinds DEF HeapInv, TypeOK
    <3>3. heap[heap[b].original].kind = "function"
      BY <3>1 DEF HeapInv, NoNesting, IsWrapper
    <3>4. heap[b].original # a
      BY <1>4, <3>3, ObjectKinds DEF Redefine
    <3> QED
      BY <1>4, <3>1, <3>2, <3>3, <3>4 DEF Redefine, HeapInv, TypeOK
  <2> QED
    BY <2>1, <2>2, <2>3 DEF HeapInv
<1>5. ASSUME NEW a \in Addrs, Reclaim(a) PROVE HeapInv'
  <2>1. TypeOK'
    BY <1>5 DEF Reclaim, HeapInv, TypeOK
  <2>2. Allocated'
    BY <1>5 DEF Reclaim, HeapInv, TypeOK, Allocated
  <2>3. NoNesting'
    <3> SUFFICES ASSUME NEW b \in Addrs, heap'[b].kind = "wrapper"
                 PROVE  heap'[heap'[b].original].kind = "function"
      BY DEF NoNesting, IsWrapper
    <3>1. b # a /\ heap'[b] = heap[b]
      BY <1>5, ObjectKinds DEF Reclaim, HeapInv, TypeOK
    <3>2. heap[b] \in [kind : {"wrapper"}, site : Sites, original : Addrs]
      BY <3>1, ObjectKinds DEF HeapInv, TypeOK
    <3>3. heap[heap[b].original].kind = "function"
      BY <3>1 DEF HeapInv, NoNesting, IsWrapper
    <3>4. heap[b].original # a
      BY <1>5, <3>1 DEF Reclaim, IsWrapper
    <3> QED
      BY <1>5, <3>1, <3>2, <3>3, <3>4 DEF Reclaim, HeapInv, TypeOK
  <2> QED
    BY <2>1, <2>2, <2>3 DEF HeapInv
<1>6. CASE UNCHANGED vars
  BY <1>6 DEF vars, HeapInv, TypeOK, Allocated, NoNesting, IsWrapper
<1> QED
  BY <1>1, <1>2, <1>3, <1>4, <1>5, <1>6 DEF Next, Patch

--------------------------------------------------------------------------------
(* Aliases: what the marks in _applied are for.                            *)

NoAliasPatched == \A p, q \in Places :
    Upstream[p] # NULL /\ Upstream[q] # NULL => OneDeclaration(p, q)

AliasInv == HeapInv /\ OriginalsMarked /\ StaysDirect /\ NoAliasPatched

\* What holds although other code may one day copy functions between attributes.
UncopiedInv == HeapInv /\ ("alias" \notin others => AliasInv)

\* A place that is defined directly resolves to its own object.
LEMMA DirectResolution ==
    ASSUME NEW p \in Places, own[p] # NULL, NEW live, Resolves(p, live)
    PROVE  live = own[p]
<1>1. PICK i \in DOMAIN Mro[p] :
          own[Mro[p][i]] = live /\ \A j \in 1 .. (i - 1) : own[Mro[p][j]] = NULL
  BY DEF Resolves
<1>2. Mro[p] \in Seq(Places) /\ Mro[p][1] = p
  BY PlaceAssumption
<1>3. i \in Nat /\ i >= 1
  BY <1>1, <1>2
<1>4. i = 1
  BY <1>1, <1>2, <1>3
<1> QED
  BY <1>1, <1>2, <1>4

LEMMA InitAliasInv == Init => AliasInv
<1> SUFFICES ASSUME Init PROVE AliasInv
  OBVIOUS
<1>1. HeapInv
  BY InitHeapInv
<1>2. \A a \in Addrs : ~IsWrapper(a)
  BY ObjectKinds DEF Init, IsWrapper
<1>3. OriginalsMarked
  BY <1>2 DEF OriginalsMarked
<1>4. StaysDirect
  BY DEF Init, StaysDirect
<1>5. NoAliasPatched
  BY <1>1, <1>2 DEF NoAliasPatched, OneDeclaration, Holds, HeapInv, TypeOK
<1> QED
  BY <1>1, <1>3, <1>4, <1>5 DEF AliasInv

\* Steps that leave the wrappers, the marks and the attributes alone, except that an
\* attribute may lose its wrapper or an object its address.
LEMMA FewerWrappers ==
    ASSUME AliasInv, HeapInv', applied' = applied,
           \A a \in Addrs : IsWrapper(a)' => heap'[a] = heap[a],
           \A p \in Places : own'[p] = own[p] \/ (own'[p] # NULL /\ heap'[own'[p]].kind # "wrapper")
    PROVE  AliasInv'
<1>1. OriginalsMarked'
  BY DEF AliasInv, OriginalsMarked, IsWrapper
<1>2. StaysDirect'
  BY DEF AliasInv, StaysDirect
<1>3. ASSUME NEW p \in Places, NEW s \in Sites, Holds(p, s)'
      PROVE  own'[p] = own[p] /\ Holds(p, s) /\ heap'[own[p]] = heap[own[p]]
  <2>1. own'[p] = own[p] /\ own[p] # NULL
    BY <1>3 DEF Holds, IsWrapper
  <2>2. own[p] \in Addrs /\ heap'[own[p]] = heap[own[p]]
    BY <1>3, <2>1 DEF Holds, IsWrapper, AliasInv, HeapInv, TypeOK
  <2> QED
    BY <1>3, <2>1, <2>2 DEF Holds, IsWrapper
<1>4. NoAliasPatched'
  BY <1>3 DEF AliasInv, NoAliasPatched, OneDeclaration
<1> QED
  BY <1>1, <1>2, <1>4 DEF AliasInv

LEMMA PatchAppliedAliasInv ==
    ASSUME AliasInv, NEW s \in Sites, PatchApplied(s)
    PROVE  AliasInv'
<1>1. HeapInv'
  BY PatchAppliedHeapInv DEF AliasInv
<1>2. PICK live \in Addrs, at \in Addrs :
          /\ Resolves(SiteTarget[s], live)
          /\ ~Refused(s, live)
          /\ heap[at] = Free
          /\ Install(s, at, Original(live))
  BY DEF PatchApplied
<1> DEFINE target == SiteTarget[s]
<1> DEFINE original == Original(live)
<1>3. target \in Places
  BY SiteAssumption
<1>4. original \in Addrs /\ heap[original] = Function
  BY <1>2, <1>3, OriginalIsFunction DEF AliasInv
<1>5. /\ heap' = [heap EXCEPT ![at] = Wrapper(s, original)]
      /\ own' = [own EXCEPT ![target] = at]
      /\ applied' = [applied EXCEPT ![original] = s]
  BY <1>2 DEF Install
<1>6. OriginalsMarked'
  <2> SUFFICES ASSUME NEW a \in Addrs, heap'[a].kind = "wrapper"
               PROVE  applied'[heap'[a].original] # NULL
    BY DEF OriginalsMarked, IsWrapper
  <2>1. CASE a = at
    <3>1. heap'[a].original = original
      BY <1>4, <1>5, <2>1, ObjectKinds DEF AliasInv, HeapInv, TypeOK
    <3> QED
      BY <1>4, <1>5, <3>1, NullAssumption DEF AliasInv, HeapInv, TypeOK
  <2>2. CASE a # at
    <3>1. heap'[a] = heap[a]
      BY <1>5, <2>2 DEF AliasInv, HeapInv, TypeOK
    <3>2. applied[heap[a].original] # NULL
      BY <3>1 DEF AliasInv, OriginalsMarked, IsWrapper
    <3>3. heap[a].original \in Addrs
      BY <3>1, ObjectKinds DEF AliasInv, HeapInv, TypeOK
    <3> QED
      BY <1>4, <1>5, <3>1, <3>2, <3>3, NullAssumption DEF AliasInv, HeapInv, TypeOK
  <2> QED
    BY <2>1, <2>2
<1>7. StaysDirect'
  BY <1>5, NullAssumption DEF AliasInv, HeapInv, TypeOK, StaysDirect
<1>8. /\ heap'[at].site = s
      /\ heap'[at].original = original
      /\ own'[target] = at
  BY <1>3, <1>4, <1>5, ObjectKinds DEF AliasInv, HeapInv, TypeOK
\* Any other place still holds what it held.
<1>9. ASSUME NEW q \in Places, q # target, NEW r \in Sites, Holds(q, r)'
      PROVE  /\ own'[q] = own[q] /\ own[q] # NULL /\ own[q] \in Addrs
             /\ Holds(q, r) /\ heap'[own[q]] = heap[own[q]]
  <2>1. own'[q] = own[q] /\ own[q] # NULL
    BY <1>5, <1>9 DEF Holds, AliasInv, HeapInv, TypeOK
  <2>2. own[q] \in Addrs /\ own[q] # at
    BY <1>2, <2>1 DEF AliasInv, HeapInv, TypeOK, Allocated
  <2>3. heap'[own[q]] = heap[own[q]]
    BY <1>5, <2>2 DEF AliasInv, HeapInv, TypeOK
  <2> QED
    BY <1>9, <2>1, <2>2, <2>3 DEF Holds, IsWrapper
\* If it holds a wrapper of the same function, it was refused or is this declaration's.
<1>10. ASSUME NEW q \in Places, q # target, NEW r \in Sites, Holds(q, r)',
              Upstream[target] # NULL, Upstream[q] # NULL,
              heap'[own'[q]].original = original
       PROVE  SiteIdentity[r] = SiteIdentity[s]
  <2>1. /\ own'[q] = own[q] /\ own[q] \in Addrs /\ own[q] # NULL
        /\ Holds(q, r) /\ heap[own[q]].original = original
    BY <1>9, <1>10
  <2>2. own[target] # NULL
    BY <1>3, <1>10 DEF AliasInv, StaysDirect
  <2>3. live = own[target]
    BY <1>2, <1>3, <2>2, DirectResolution
  <2>4. CASE IsWrapper(live)
    <3>1. SameIdentity(s, live) /\ heap[live].original = original
      BY <1>2, <2>4 DEF Refused, Original
    <3>2. heap[live] \in [kind : {"wrapper"}, site : Sites, original : Addrs]
      BY <2>4, ObjectKinds DEF AliasInv, HeapInv, TypeOK, IsWrapper
    <3>3. heap[live].site \in Sites /\ Holds(target, heap[live].site)
      BY <2>2, <2>3, <2>4, <3>2 DEF Holds
    <3>4. SiteIdentity[heap[live].site] = SiteIdentity[r]
      BY <1>3, <1>10, <2>1, <2>3, <3>1, <3>3 DEF AliasInv, NoAliasPatched, OneDeclaration
    <3> QED
      BY <3>1, <3>4 DEF SameIdentity
  <2>5. CASE ~IsWrapper(live)
    <3>1. applied[live] # NULL
      BY <2>1, <2>5 DEF AliasInv, OriginalsMarked, Holds, Original
    <3>2. Refused(s, live)
      BY <2>2, <2>5, <3>1 DEF Refused, DeclaresDirectly
    <3> QED
      BY <1>2, <3>2
  <2> QED
    BY <2>4, <2>5
<1> HIDE DEF target, original
<1>11. NoAliasPatched'
  <2> SUFFICES ASSUME NEW p \in Places, NEW q \in Places, NEW r1 \in Sites, NEW r2 \in Sites,
                      Upstream[p] # NULL, Upstream[q] # NULL,
                      Holds(p, r1)', Holds(q, r2)',
                      heap'[own'[p]].original = heap'[own'[q]].original
               PROVE  SiteIdentity[r1] = SiteIdentity[r2]
    BY DEF NoAliasPatched, OneDeclaration
  <2>1. CASE p = q
    BY <2>1 DEF Holds
  <2>2. CASE p = target /\ q # target
    <3>1. r1 = s
      BY <1>8, <2>2 DEF Holds
    <3> QED
      BY <1>8, <1>10, <2>2, <3>1
  <2>3. CASE p # target /\ q = target
    <3>1. r2 = s
      BY <1>8, <2>3 DEF Holds
    <3> QED
      BY <1>8, <1>10, <2>3, <3>1
  <2>4. CASE p # target /\ q # target
    BY <1>9, <2>4 DEF AliasInv, NoAliasPatched, OneDeclaration
  <2> QED
    BY <2>1, <2>2, <2>3, <2>4
<1> QED
  BY <1>1, <1>6, <1>7, <1>11 DEF AliasInv

LEMMA NextAliasInv == AliasInv /\ [Next]_vars /\ "alias" \notin others' => AliasInv'
<1> SUFFICES ASSUME AliasInv, [Next]_vars, "alias" \notin others' PROVE AliasInv'
  OBVIOUS
<1>1. HeapInv'
  BY NextHeapInv DEF AliasInv
<1>2. ASSUME NEW s \in Sites,
             \/ PatchSkippedUntil(s) \/ PatchSkippedDrift(s)
             \/ PatchDriftRaises(s) \/ PatchRefused(s)
      PROVE  AliasInv'
  <2>1. UNCHANGED <<own, heap, applied>>
    BY <1>2 DEF PatchSkippedUntil, PatchSkippedDrift, PatchDriftRaises, PatchRefused
  <2> QED
    BY <1>1, <2>1, FewerWrappers
<1>3. ASSUME NEW s \in Sites, PatchApplied(s) PROVE AliasInv'
  BY <1>3, PatchAppliedAliasInv
<1>4. ASSUME NEW p \in Places, NEW a \in Addrs, Redefine(p, a) PROVE AliasInv'
  <2>1. /\ heap' = [heap EXCEPT ![a] = Function]
        /\ own' = [own EXCEPT ![p] = a]
        /\ applied' = applied
    BY <1>4 DEF Redefine
  <2>2. ASSUME NEW b \in Addrs, IsWrapper(b)' PROVE heap'[b] = heap[b]
    BY <2>1, <2>2, ObjectKinds DEF IsWrapper, AliasInv, HeapInv, TypeOK
  <2>3. ASSUME NEW q \in Places
        PROVE  own'[q] = own[q] \/ (own'[q] # NULL /\ heap'[own'[q]].kind # "wrapper")
    <3>1. CASE q = p
      BY <2>1, <3>1, ObjectKinds, NullAssumption DEF AliasInv, HeapInv, TypeOK
    <3>2. CASE q # p
      BY <2>1, <3>2 DEF AliasInv, HeapInv, TypeOK
    <3> QED
      BY <3>1, <3>2
  <2> QED
    BY <1>1, <2>1, <2>2, <2>3, FewerWrappers
<1>5. ASSUME NEW a \in Addrs, Reclaim(a) PROVE AliasInv'
  <2>1. /\ heap' = [heap EXCEPT ![a] = Free]
        /\ own' = own /\ applied' = applied
    BY <1>5 DEF Reclaim
  <2>2. ASSUME NEW b \in Addrs, IsWrapper(b)' PROVE heap'[b] = heap[b]
    BY <2>1, <2>2, ObjectKinds DEF IsWrapper, AliasInv, HeapInv, TypeOK
  <2> QED
    BY <1>1, <2>1, <2>2, FewerWrappers
<1>6. CASE UNCHANGED vars
  BY <1>1, <1>6, FewerWrappers DEF vars
<1> QED
  BY <1>2, <1>3, <1>4, <1>5, <1>6 DEF Next, Patch, Alias

\* What other code has done stays on record.
LEMMA OthersAccumulate == [Next]_vars => others \subseteq others'
BY DEF Next, vars, Patch, PatchSkippedUntil, PatchSkippedDrift, PatchDriftRaises,
       PatchRefused, PatchApplied, Alias, Redefine, Reclaim

--------------------------------------------------------------------------------
(* One wrapper in place of another.                                        *)

\* No two decorated functions have their file and their qualified name in common: one that
\* did would count as the other one declared again.
OwnIdentity == \A s, r \in Sites : SiteIdentity[s] = SiteIdentity[r] => s = r

\* What a site does that is not refused: a fresh wrapper of the original goes to its target,
\* and no other place changes.
PatchEffect(s, live, at) ==
    /\ Resolves(SiteTarget[s], live) /\ ~Refused(s, live)
    /\ own'[SiteTarget[s]] = at /\ own'[SiteTarget[s]] # NULL
    /\ Holds(SiteTarget[s], s)'
    /\ \A r \in Sites : Holds(SiteTarget[s], r)' => r = s
    /\ heap'[at].original = Original(live)
    /\ applied' = [applied EXCEPT ![Original(live)] = s]
    /\ Original(live) \in Addrs /\ heap[Original(live)] = Function
    /\ \A q \in Places : q # SiteTarget[s] =>
          /\ own'[q] = own[q]
          /\ own[q] # NULL => own[q] # at /\ heap'[own[q]] = heap[own[q]]
          /\ \A r \in Sites : Holds(q, r)' <=> Holds(q, r)

LEMMA PatchAppliedEffect ==
    ASSUME HeapInv, NEW s \in Sites, PatchApplied(s)
    PROVE  \E live, at \in Addrs : PatchEffect(s, live, at)
<1>1. PICK live \in Addrs, at \in Addrs :
          /\ Resolves(SiteTarget[s], live)
          /\ ~Refused(s, live)
          /\ heap[at] = Free
          /\ Install(s, at, Original(live))
  BY DEF PatchApplied
<1> DEFINE original == Original(live)
<1>2. SiteTarget[s] \in Places
  BY SiteAssumption
<1>3. original \in Addrs /\ heap[original] = Function
  BY <1>1, <1>2, OriginalIsFunction
<1> HIDE DEF original
<1>4. /\ heap' = [heap EXCEPT ![at] = Wrapper(s, original)]
      /\ own' = [own EXCEPT ![SiteTarget[s]] = at]
      /\ applied' = [applied EXCEPT ![original] = s]
  BY <1>1 DEF Install, original
<1>5. /\ own'[SiteTarget[s]] = at /\ at # NULL
      /\ heap'[at] = Wrapper(s, original)
  BY <1>2, <1>4, NullAssumption DEF HeapInv, TypeOK
<1>6. heap'[at].kind = "wrapper" /\ heap'[at].site = s /\ heap'[at].original = original
  BY <1>3, <1>5, ObjectKinds
<1>7. /\ Holds(SiteTarget[s], s)'
      /\ \A r \in Sites : Holds(SiteTarget[s], r)' => r = s
  BY <1>5, <1>6 DEF Holds, IsWrapper
<1>8. ASSUME NEW q \in Places, q # SiteTarget[s]
      PROVE  /\ own'[q] = own[q]
             /\ own[q] # NULL => own[q] # at /\ heap'[own[q]] = heap[own[q]]
             /\ \A r \in Sites : Holds(q, r)' <=> Holds(q, r)
  <2>1. own'[q] = own[q]
    BY <1>4, <1>8 DEF HeapInv, TypeOK
  <2>2. own[q] # NULL => own[q] \in Addrs /\ own[q] # at
    BY <1>1 DEF HeapInv, TypeOK, Allocated
  <2>3. own[q] # NULL => heap'[own[q]] = heap[own[q]]
    BY <1>4, <2>2 DEF HeapInv, TypeOK
  <2> QED
    BY <2>1, <2>2, <2>3 DEF Holds, IsWrapper
<1>9. PatchEffect(s, live, at)
  BY <1>1, <1>3, <1>4, <1>5, <1>6, <1>7, <1>8 DEF original, PatchEffect
<1> QED
  BY <1>1, <1>9

\* A place that holds a wrapper is only patched again by the declaration of that wrapper.
LEMMA OnlyItsOwn ==
    ASSUME HeapInv, OwnIdentity, NEW s \in Sites, NEW r \in Sites, Holds(SiteTarget[s], r),
           NEW live \in Addrs, Resolves(SiteTarget[s], live), ~Refused(s, live)
    PROVE  r = s /\ live = own[SiteTarget[s]] /\ Original(live) = heap[live].original
<1>1. live = own[SiteTarget[s]] /\ IsWrapper(live) /\ heap[live].site = r
  BY SiteAssumption, DirectResolution DEF Holds
<1> QED
  BY <1>1 DEF Refused, SameIdentity, OwnIdentity, Original

--------------------------------------------------------------------------------
(* What is inherited.                                                      *)

\* A wrapper is where its declaration put it.
AtTarget == \A p \in Places, s \in Sites : Holds(p, s) => SiteTarget[s] = p

\* A function that was put where upstream defines nothing has not been patched elsewhere.
RedefinedApart == \A z, p \in Places :
    Upstream[z] = NULL /\ Upstream[p] # NULL /\ own[z] # NULL /\ ~IsWrapper(own[z]) =>
        /\ own[p] # own[z]
        /\ IsWrapper(own[p]) => heap[own[p]].original # own[z]

InheritedOne == \A p, q \in Places : InheritsFrom(q, p) => OneDeclaration(p, q)

InheritInv == AliasInv /\ AtTarget /\ RedefinedApart /\ InheritedOne

LEMMA InitInheritInv == Init => InheritInv
<1> SUFFICES ASSUME Init PROVE InheritInv
  OBVIOUS
<1>1. AliasInv
  BY InitAliasInv
<1>2. \A a \in Addrs : ~IsWrapper(a)
  BY ObjectKinds DEF Init, IsWrapper
<1>3. \A p \in Places, s \in Sites : ~Holds(p, s)
  BY <1>1, <1>2 DEF Holds, AliasInv, HeapInv, TypeOK
<1>4. RedefinedApart
  BY DEF Init, RedefinedApart
<1> QED
  BY <1>1, <1>3, <1>4 DEF InheritInv, AtTarget, InheritedOne, OneDeclaration

LEMMA InheritedDefinition ==
    ASSUME NEW p \in Places, NEW q \in Places, InheritsFrom(q, p)
    PROVE  Upstream[p] # NULL
BY DEF InheritsFrom

\* What a place that inherits from p resolves to is at p, or at a place before it.
LEMMA InheritedResolution ==
    ASSUME StaysDirect, NEW p \in Places, NEW q \in Places, InheritsFrom(q, p),
           NEW live, Resolves(q, live)
    PROVE  \E z \in Places : own[z] = live /\ live # NULL /\ (z = p \/ Upstream[z] = NULL)
<1>1. PICK i \in DOMAIN Mro[q] :
          own[Mro[q][i]] = live /\ live # NULL /\ \A j \in 1 .. (i - 1) : own[Mro[q][j]] = NULL
  BY DEF Resolves
<1>2. PICK k \in DOMAIN Mro[q] :
          Mro[q][k] = p /\ Upstream[p] # NULL /\ \A j \in 1 .. (k - 1) : Upstream[Mro[q][j]] = NULL
  BY DEF InheritsFrom
<1>3. /\ DOMAIN Mro[q] = 1 .. Len(Mro[q]) /\ Len(Mro[q]) \in Nat
      /\ \A j \in DOMAIN Mro[q] : Mro[q][j] \in Places
  <2>1. Mro[q] \in Seq(Places)
    BY PlaceAssumption
  <2> QED
    BY <2>1
<1>4. own[p] # NULL
  BY <1>2 DEF StaysDirect
<1>5. i <= k
  BY <1>1, <1>2, <1>3, <1>4
<1>6. i = k \/ i \in 1 .. (k - 1)
  BY <1>3, <1>5
<1> QED
  BY <1>1, <1>2, <1>3, <1>6

LEMMA PatchAppliedInheritInv ==
    ASSUME InheritInv, OwnIdentity, NEW s \in Sites, PatchApplied(s)
    PROVE  InheritInv'
<1>1. AliasInv' /\ HeapInv /\ OriginalsMarked /\ StaysDirect
  BY PatchAppliedAliasInv DEF InheritInv, AliasInv
<1> DEFINE target == SiteTarget[s]
<1>2. target \in Places
  BY SiteAssumption
<1>3. PICK live \in Addrs, at \in Addrs :
         /\ Resolves(target, live) /\ ~Refused(s, live)
         /\ own'[target] = at /\ own'[target] # NULL
         /\ Holds(target, s)'
         /\ \A r \in Sites : Holds(target, r)' => r = s
         /\ heap'[at].original = Original(live)
         /\ Original(live) \in Addrs /\ heap[Original(live)] = Function
         /\ \A q \in Places : q # target =>
               /\ own'[q] = own[q]
               /\ own[q] # NULL => own[q] # at /\ heap'[own[q]] = heap[own[q]]
               /\ \A r \in Sites : Holds(q, r)' <=> Holds(q, r)
  BY <1>1, PatchAppliedEffect DEF PatchEffect
<1>4. AtTarget'
  BY <1>3 DEF InheritInv, AtTarget
<1>5. RedefinedApart'
  <2> SUFFICES ASSUME NEW z \in Places, NEW p \in Places, Upstream[z] = NULL, Upstream[p] # NULL,
                      own'[z] # NULL, heap'[own'[z]].kind # "wrapper"
               PROVE  /\ own'[p] # own'[z]
                      /\ heap'[own'[p]].kind = "wrapper" => heap'[own'[p]].original # own'[z]
    BY DEF RedefinedApart, IsWrapper
  <2>1. z # target
    BY <1>3 DEF Holds, IsWrapper
  <2>2. own'[z] = own[z] /\ own[z] # at /\ ~IsWrapper(own[z])
    BY <1>3, <2>1 DEF IsWrapper
  <2>3. /\ own[p] # own[z]
        /\ IsWrapper(own[p]) => heap[own[p]].original # own[z]
    BY <2>2 DEF InheritInv, RedefinedApart
  <2>4. own[p] # NULL
    BY <1>1 DEF StaysDirect
  <2>5. CASE p # target
    BY <1>3, <2>2, <2>3, <2>4, <2>5 DEF IsWrapper
  <2>6. CASE p = target
    <3>1. live = own[p]
      BY <1>3, <2>4, <2>6, DirectResolution
    <3> QED
      BY <1>3, <2>2, <2>3, <2>6, <3>1 DEF Original
  <2> QED
    BY <2>5, <2>6
\* The place that is inherited from is patched while its heir holds a wrapper.
<1>6. ASSUME NEW q \in Places, q # target, NEW r \in Sites, Holds(q, r)',
             InheritsFrom(q, target), heap'[own'[q]].original = Original(live)
      PROVE  SiteIdentity[r] = SiteIdentity[s]
  <2>1. Holds(q, r) /\ own[q] # NULL /\ heap[own[q]].original = Original(live)
    BY <1>3, <1>6 DEF Holds
  <2>2. own[target] # NULL
    BY <1>1, <1>2, <1>6, InheritedDefinition DEF StaysDirect
  <2>3. live = own[target]
    BY <1>2, <1>3, <2>2, DirectResolution
  <2>4. CASE IsWrapper(live)
    <3>1. SameIdentity(s, live) /\ heap[live].original = Original(live)
      BY <1>3, <2>4 DEF Refused, Original
    <3>2. heap[live] \in [kind : {"wrapper"}, site : Sites, original : Addrs]
      BY <1>1, <2>4, ObjectKinds DEF HeapInv, TypeOK, IsWrapper
    <3>3. heap[live].site \in Sites /\ Holds(target, heap[live].site)
      BY <2>2, <2>3, <2>4, <3>2 DEF Holds
    <3>4. SiteIdentity[heap[live].site] = SiteIdentity[r]
      BY <1>2, <1>6, <2>1, <2>3, <3>1, <3>3 DEF InheritInv, InheritedOne, OneDeclaration
    <3> QED
      BY <3>1, <3>4 DEF SameIdentity
  <2>5. CASE ~IsWrapper(live)
    <3>1. own[q] \in Addrs
      BY <1>1, <2>1 DEF HeapInv, TypeOK
    <3>2. applied[live] # NULL
      BY <1>1, <2>1, <2>5, <3>1 DEF OriginalsMarked, Holds, Original
    <3>3. Refused(s, live)
      BY <2>2, <2>5, <3>2 DEF Refused, DeclaresDirectly
    <3> QED
      BY <1>3, <3>3
  <2> QED
    BY <2>4, <2>5
\* The heir is patched while the place that it inherits from holds a wrapper.
<1>7. ASSUME NEW p \in Places, p # target, NEW r \in Sites, Holds(p, r)',
             InheritsFrom(target, p), heap'[own'[p]].original = Original(live)
      PROVE  SiteIdentity[r] = SiteIdentity[s]
  <2>1. Holds(p, r) /\ own[p] # NULL /\ heap[own[p]].original = Original(live)
    BY <1>3, <1>7 DEF Holds
  <2>2. PICK z \in Places : own[z] = live /\ live # NULL /\ (z = p \/ Upstream[z] = NULL)
    BY <1>1, <1>2, <1>3, <1>7, InheritedResolution
  <2>3. CASE IsWrapper(live)
    <3>1. heap[live] \in [kind : {"wrapper"}, site : Sites, original : Addrs]
      BY <1>1, <2>3, ObjectKinds DEF HeapInv, TypeOK, IsWrapper
    <3>2. heap[live].site = s
      BY <1>3, <2>3, <3>1 DEF Refused, SameIdentity, OwnIdentity
    <3>3. Holds(z, s)
      BY <2>2, <2>3, <3>2 DEF Holds
    <3>4. z = target
      BY <3>3 DEF InheritInv, AtTarget
    <3>5. heap[own[target]].original = Original(live)
      BY <2>2, <2>3, <3>4 DEF Original
    <3> QED
      BY <1>2, <1>7, <2>1, <3>3, <3>4, <3>5 DEF InheritInv, InheritedOne, OneDeclaration
  <2>4. CASE ~IsWrapper(live)
    <3>1. Original(live) = live
      BY <2>4 DEF Original
    <3>2. z # p
      BY <2>1, <2>2, <2>4 DEF Holds
    <3>3. Upstream[p] # NULL
      BY <1>2, <1>7, InheritedDefinition
    <3> QED
      BY <2>1, <2>2, <2>4, <3>1, <3>2, <3>3 DEF InheritInv, RedefinedApart, Holds
  <2> QED
    BY <2>3, <2>4
<1> HIDE DEF target
<1>8. InheritedOne'
  <2>1. \A p, q \in Places : InheritsFrom(q, p)' <=> InheritsFrom(q, p)
    BY DEF InheritsFrom
  <2> SUFFICES ASSUME NEW p \in Places, NEW q \in Places, InheritsFrom(q, p),
                      NEW r1 \in Sites, NEW r2 \in Sites, Holds(p, r1)', Holds(q, r2)',
                      heap'[own'[p]].original = heap'[own'[q]].original
               PROVE  SiteIdentity[r1] = SiteIdentity[r2]
    BY <2>1 DEF InheritedOne, OneDeclaration
  <2>2. CASE p = q
    BY <2>2 DEF Holds
  <2>3. CASE p = target /\ q # target
    BY <1>3, <1>6, <2>3
  <2>4. CASE p # target /\ q = target
    BY <1>3, <1>7, <2>4
  <2>5. CASE p # target /\ q # target
    <3>1. /\ Holds(p, r1) /\ Holds(q, r2) /\ own[p] # NULL /\ own[q] # NULL
          /\ heap[own[p]].original = heap[own[q]].original
      BY <1>3, <2>5 DEF Holds
    <3> QED
      BY <3>1 DEF InheritInv, InheritedOne, OneDeclaration
  <2> QED
    BY <2>2, <2>3, <2>4, <2>5
<1> QED
  BY <1>1, <1>4, <1>5, <1>8 DEF InheritInv

\* Steps after which every wrapper that is held was held before.
LEMMA FewerInherited ==
    ASSUME InheritInv, AliasInv', RedefinedApart',
           \A p \in Places, s \in Sites : Holds(p, s)' =>
              Holds(p, s) /\ own'[p] = own[p] /\ heap'[own[p]] = heap[own[p]]
    PROVE  InheritInv'
<1>1. AtTarget'
  BY DEF InheritInv, AtTarget
<1>2. InheritedOne'
  <2>1. \A p, q \in Places : InheritsFrom(q, p)' <=> InheritsFrom(q, p)
    BY DEF InheritsFrom
  <2> QED
    BY <2>1 DEF InheritInv, InheritedOne, OneDeclaration
<1> QED
  BY <1>1, <1>2 DEF InheritInv

LEMMA NextInheritInv ==
    OwnIdentity /\ InheritInv /\ [Next]_vars /\ "alias" \notin others' => InheritInv'
<1> SUFFICES ASSUME OwnIdentity, InheritInv, [Next]_vars, "alias" \notin others'
             PROVE  InheritInv'
  OBVIOUS
<1>1. AliasInv' /\ HeapInv
  BY NextAliasInv DEF InheritInv, AliasInv
<1>2. ASSUME UNCHANGED <<own, heap>> PROVE InheritInv'
  <2>1. RedefinedApart'
    BY <1>2 DEF InheritInv, RedefinedApart, IsWrapper
  <2> QED
    BY <1>1, <1>2, <2>1, FewerInherited DEF Holds, IsWrapper
<1>3. ASSUME NEW s \in Sites, PatchApplied(s) PROVE InheritInv'
  BY <1>3, PatchAppliedInheritInv
<1>4. ASSUME NEW z \in Places, NEW a \in Addrs, Redefine(z, a) PROVE InheritInv'
  <2>1. /\ heap' = [heap EXCEPT ![a] = Function] /\ heap[a] = Free
        /\ own' = [own EXCEPT ![z] = a]
    BY <1>4 DEF Redefine
  <2>2. heap'[a] = Function /\ own'[z] = a
    BY <2>1 DEF HeapInv, TypeOK, InheritInv, AliasInv
  <2>3. ASSUME NEW q \in Places, q # z
        PROVE  /\ own'[q] = own[q]
               /\ own[q] # NULL => own[q] \in Addrs /\ own[q] # a /\ heap'[own[q]] = heap[own[q]]
    BY <1>1, <2>1, <2>3 DEF HeapInv, TypeOK, Allocated
  <2>4. ASSUME NEW q \in Places, q # z, own[q] # NULL, IsWrapper(own[q])
        PROVE  heap[own[q]].original # a
    <3>1. heap[heap[own[q]].original].kind = "function"
      BY <1>1, <2>3, <2>4 DEF HeapInv, NoNesting
    <3> QED
      BY <2>1, <3>1, ObjectKinds
  <2>5. RedefinedApart'
    <3> SUFFICES ASSUME NEW y \in Places, NEW p \in Places, Upstream[y] = NULL, Upstream[p] # NULL,
                        own'[y] # NULL, heap'[own'[y]].kind # "wrapper"
                 PROVE  /\ own'[p] # own'[y]
                        /\ heap'[own'[p]].kind = "wrapper" => heap'[own'[p]].original # own'[y]
      BY DEF RedefinedApart, IsWrapper
    <3>1. own[p] # NULL /\ y # p
      BY DEF InheritInv, AliasInv, StaysDirect
    <3>2. CASE p = z
      BY <2>2, <2>3, <3>1, <3>2, ObjectKinds
    <3>3. CASE y = z
      BY <2>2, <2>3, <2>4, <3>1, <3>3 DEF IsWrapper
    <3>4. CASE y # z /\ p # z
      BY <2>3, <3>1, <3>4 DEF InheritInv, RedefinedApart, IsWrapper
    <3> QED
      BY <3>2, <3>3, <3>4
  <2>6. \A q \in Places, s \in Sites : Holds(q, s)' =>
           Holds(q, s) /\ own'[q] = own[q] /\ heap'[own[q]] = heap[own[q]]
    BY <2>2, <2>3, ObjectKinds DEF Holds, IsWrapper
  <2> QED
    BY <1>1, <2>5, <2>6, FewerInherited
<1>5. ASSUME NEW a \in Addrs, Reclaim(a) PROVE InheritInv'
  <2>1. /\ heap' = [heap EXCEPT ![a] = Free] /\ UNCHANGED own
        /\ \A p \in Places : own[p] # a
    BY <1>5 DEF Reclaim
  <2>2. \A q \in Places : own[q] # NULL => own[q] \in Addrs /\ heap'[own[q]] = heap[own[q]]
    BY <1>1, <2>1 DEF HeapInv, TypeOK
  <2>3. RedefinedApart'
    BY <2>1, <2>2 DEF InheritInv, AliasInv, StaysDirect, RedefinedApart, IsWrapper
  <2> QED
    BY <1>1, <2>1, <2>2, <2>3, FewerInherited DEF Holds, IsWrapper
<1> QED
  BY <1>2, <1>3, <1>4, <1>5
     DEF Next, vars, Patch, Alias, PatchSkippedUntil, PatchSkippedDrift, PatchDriftRaises,
         PatchRefused

--------------------------------------------------------------------------------
(* What holds while nobody else touches the attributes.                    *)

\* A mark in _applied is backed by the wrapper of the declaration it names.
MarksHeld == \A a \in Addrs, r \in Sites : applied[a] = r =>
    /\ Holds(SiteTarget[r], r)
    /\ heap[own[SiteTarget[r]]].original = a

AppliedHeld == \A s \in Sites : status[s] = "applied" => Holds(SiteTarget[s], s)

UntouchedInv == HeapInv /\ (others = {} => MarksHeld /\ AppliedHeld)

LEMMA InitUntouchedInv == Init => UntouchedInv
BY InitHeapInv, NullAssumption DEF Init, UntouchedInv, MarksHeld, AppliedHeld

\* Nothing that a place holds changes.
LEMMA HeldStays ==
    ASSUME HeapInv, UNCHANGED <<own, applied>>,
           \A p \in Places : own[p] # NULL => heap'[own[p]] = heap[own[p]]
    PROVE  /\ \A p \in Places, s \in Sites : Holds(p, s)' <=> Holds(p, s)
           /\ MarksHeld => MarksHeld'
<1>1. \A p \in Places, s \in Sites : Holds(p, s)' <=> Holds(p, s)
  BY DEF Holds, IsWrapper
<1>2. MarksHeld => MarksHeld'
  <2> SUFFICES ASSUME MarksHeld, NEW a \in Addrs, NEW r \in Sites, applied[a] = r
               PROVE  /\ Holds(SiteTarget[r], r)'
                      /\ heap'[own[SiteTarget[r]]].original = a
    BY DEF MarksHeld
  <2>1. SiteTarget[r] \in Places
    BY SiteAssumption
  <2>2. Holds(SiteTarget[r], r) /\ heap[own[SiteTarget[r]]].original = a
    BY DEF MarksHeld
  <2> QED
    BY <1>1, <2>1, <2>2 DEF Holds
<1> QED
  BY <1>1, <1>2

LEMMA PatchAppliedUntouched ==
    ASSUME HeapInv, OwnIdentity, MarksHeld, AppliedHeld, NEW s \in Sites, PatchApplied(s)
    PROVE  MarksHeld' /\ AppliedHeld'
<1> DEFINE target == SiteTarget[s]
<1>1. target \in Places /\ SiteTarget \in [Sites -> Places]
  BY SiteAssumption
<1>2. PICK live \in Addrs, at \in Addrs :
         /\ Resolves(target, live) /\ ~Refused(s, live)
         /\ own'[target] = at
         /\ Holds(target, s)'
         /\ heap'[at].original = Original(live)
         /\ applied' = [applied EXCEPT ![Original(live)] = s]
         /\ Original(live) \in Addrs
         /\ \A q \in Places : q # target =>
               /\ own'[q] = own[q]
               /\ own[q] # NULL => heap'[own[q]] = heap[own[q]]
               /\ \A r \in Sites : Holds(q, r)' <=> Holds(q, r)
  BY PatchAppliedEffect DEF PatchEffect
<1> DEFINE original == Original(live)
<1>3. \A r \in Sites : Holds(target, r) => r = s /\ heap[own[target]].original = original
  BY <1>2, OnlyItsOwn
<1> HIDE DEF original
<1>4. applied'[original] = s /\ \A a \in Addrs : a # original => applied'[a] = applied[a]
  BY <1>2 DEF HeapInv, TypeOK, original
<1>5. AppliedHeld'
  <2> SUFFICES ASSUME NEW r \in Sites, status'[r] = "applied" PROVE Holds(SiteTarget[r], r)'
    BY DEF AppliedHeld
  <2>1. CASE r = s
    BY <1>2, <2>1
  <2>2. CASE r # s
    <3>1. Holds(SiteTarget[r], r)
      BY <2>2 DEF AppliedHeld, PatchApplied, SetStatus, HeapInv, TypeOK
    <3>2. SiteTarget[r] # target
      BY <1>3, <2>2, <3>1
    <3> QED
      BY <1>1, <1>2, <3>1, <3>2
  <2> QED
    BY <2>1, <2>2
<1>6. MarksHeld'
  <2> SUFFICES ASSUME NEW a \in Addrs, NEW r \in Sites, applied'[a] = r
               PROVE  /\ Holds(SiteTarget[r], r)'
                      /\ heap'[own'[SiteTarget[r]]].original = a
    BY DEF MarksHeld
  <2>1. CASE a = original
    BY <1>2, <1>4, <2>1 DEF original
  <2>2. CASE a # original
    <3>1. Holds(SiteTarget[r], r) /\ heap[own[SiteTarget[r]]].original = a
      BY <1>4, <2>2 DEF MarksHeld
    <3>2. SiteTarget[r] # target
      BY <1>3, <2>2, <3>1
    <3>3. SiteTarget[r] \in Places /\ own[SiteTarget[r]] # NULL
      BY <1>1, <3>1 DEF Holds
    <3> QED
      BY <1>2, <3>1, <3>2, <3>3
  <2> QED
    BY <2>1, <2>2
<1> QED
  BY <1>5, <1>6

LEMMA NextUntouchedInv == OwnIdentity /\ UntouchedInv /\ [Next]_vars => UntouchedInv'
<1> SUFFICES ASSUME OwnIdentity, UntouchedInv, [Next]_vars, others' = {}
             PROVE  MarksHeld' /\ AppliedHeld'
  BY NextHeapInv DEF UntouchedInv
<1>1. HeapInv /\ MarksHeld /\ AppliedHeld
  <2>1. others = {}
    BY OthersAccumulate
  <2> QED
    BY <2>1 DEF UntouchedInv
<1>2. ASSUME UNCHANGED <<own, heap, applied>>,
             \A s \in Sites : status'[s] = "applied" => status[s] = "applied"
      PROVE  MarksHeld' /\ AppliedHeld'
  BY <1>1, <1>2, HeldStays, SiteAssumption DEF AppliedHeld
<1>3. ASSUME NEW s \in Sites,
             \/ PatchSkippedUntil(s) \/ PatchSkippedDrift(s)
             \/ PatchDriftRaises(s) \/ PatchRefused(s)
      PROVE  MarksHeld' /\ AppliedHeld'
  <2>1. /\ UNCHANGED <<own, heap, applied>>
        /\ \E st \in {"skipped_until", "skipped_drift", "registered"} : SetStatus(s, st)
    BY <1>3 DEF PatchSkippedUntil, PatchSkippedDrift, PatchDriftRaises, PatchRefused
  <2>2. \A r \in Sites : status'[r] = "applied" => status[r] = "applied"
    BY <1>1, <2>1 DEF SetStatus, HeapInv, TypeOK
  <2> QED
    BY <1>2, <2>1, <2>2
<1>4. ASSUME NEW s \in Sites, PatchApplied(s) PROVE MarksHeld' /\ AppliedHeld'
  BY <1>1, <1>4, PatchAppliedUntouched
<1>5. ASSUME NEW a \in Addrs, Reclaim(a) PROVE MarksHeld' /\ AppliedHeld'
  <2>1. UNCHANGED <<own, applied, status>>
    BY <1>5 DEF Reclaim
  <2>2. \A p \in Places : own[p] # NULL => heap'[own[p]] = heap[own[p]]
    BY <1>1, <1>5 DEF Reclaim, HeapInv, TypeOK
  <2> QED
    BY <1>1, <2>1, <2>2, HeldStays, SiteAssumption DEF AppliedHeld
<1>6. CASE UNCHANGED vars
  BY <1>2, <1>6 DEF vars
<1>7. \A p \in Places, a \in Addrs : ~Alias(p, a) /\ ~Redefine(p, a)
  BY DEF Alias, Redefine
<1> QED
  BY <1>3, <1>4, <1>5, <1>6, <1>7 DEF Next, Patch

--------------------------------------------------------------------------------
(* The theorems.                                                           *)

\* Every state of the runtime is well typed.
THEOREM TypeCorrect == Spec => []TypeOK
<1>1. HeapInv => TypeOK
  BY DEF HeapInv
<1> QED
  BY InitHeapInv, NextHeapInv, <1>1, PTL DEF Spec

\* No wrapper ever calls another wrapper: however often patches are declared again,
\* attributes are aliased or restored and addresses are used again, original(...)
\* reaches the upstream function in one call.
THEOREM WrappersDoNotNest == Spec => []NoNesting
<1>1. HeapInv => NoNesting
  BY DEF HeapInv
<1> QED
  BY InitHeapInv, NextHeapInv, <1>1, PTL DEF Spec

\* Two attributes that upstream defines with one function object are never patched by
\* two declarations, as long as nobody but mpat copies functions between attributes.
THEOREM AliasesAreRefused == Spec => []AliasesRefused
<1>1. Init => UncopiedInv
  BY InitAliasInv DEF UncopiedInv, AliasInv
<1>2. UncopiedInv /\ [Next]_vars => UncopiedInv'
  <2> SUFFICES ASSUME UncopiedInv, [Next]_vars PROVE UncopiedInv'
    OBVIOUS
  <2>1. HeapInv'
    BY NextHeapInv DEF UncopiedInv
  <2>2. ASSUME "alias" \notin others' PROVE AliasInv'
    <3>1. "alias" \notin others
      BY <2>2, OthersAccumulate
    <3> QED
      BY <2>2, <3>1, NextAliasInv DEF UncopiedInv
  <2> QED
    BY <2>1, <2>2 DEF UncopiedInv
<1>3. UncopiedInv => AliasesRefused
  BY DEF UncopiedInv, AliasInv, NoAliasPatched, AliasesRefused
<1> QED
  BY <1>1, <1>2, <1>3, PTL DEF Spec

\* A method and the one a subclass inherits from it are never patched by different
\* declarations, in whichever order they come and whatever the module is reloaded in
\* between, as long as nobody but mpat copies functions between attributes.
THEOREM InheritedPatchesAreRefused == OwnIdentity => (Spec => []InheritedPatchRefused)
<1> SUFFICES ASSUME OwnIdentity PROVE Spec => []InheritedPatchRefused
  OBVIOUS
<1> DEFINE Inv == HeapInv /\ ("alias" \notin others => InheritInv)
<1>1. Init => Inv
  BY InitInheritInv, InitHeapInv
<1>2. Inv /\ [Next]_vars => Inv'
  <2> SUFFICES ASSUME Inv, [Next]_vars PROVE Inv'
    OBVIOUS
  <2>1. HeapInv'
    BY NextHeapInv
  <2>2. ASSUME "alias" \notin others' PROVE InheritInv'
    <3>1. "alias" \notin others
      BY <2>2, OthersAccumulate
    <3> QED
      BY <2>2, <3>1, NextInheritInv
  <2> QED
    BY <2>1, <2>2
<1>3. Inv => InheritedPatchRefused
  BY DEF InheritInv, InheritedOne, InheritedPatchRefused
<1> HIDE DEF Inv
<1> QED
  BY <1>1, <1>2, <1>3, PTL DEF Spec

\* A declaration never takes the place of another one's wrapper, whatever other code has done
\* to the attributes: _live_original() refuses it.
THEOREM PatchesReplaceOnlyTheirOwn == OwnIdentity => (Spec => NoPatchReplacesAnother)
<1> SUFFICES ASSUME OwnIdentity PROVE Spec => NoPatchReplacesAnother
  OBVIOUS
<1> DEFINE Kept == \A p \in Places, s, r \in Sites :
              s # r /\ Holds(p, s) /\ Holds(p, r)' => ~\E u \in Sites : Patch(u)
<1>1. HeapInv => Kept
  <2> SUFFICES ASSUME HeapInv, NEW p \in Places, NEW s \in Sites, NEW r \in Sites,
                      Holds(p, s), Holds(p, r)', NEW u \in Sites, Patch(u)
               PROVE  s = r
    OBVIOUS
  <2>1. CASE PatchApplied(u)
    <3>1. PICK live \in Addrs :
             /\ Resolves(SiteTarget[u], live) /\ ~Refused(u, live)
             /\ \A v \in Sites : Holds(SiteTarget[u], v)' => v = u
             /\ \A q \in Places : q # SiteTarget[u] => \A v \in Sites : Holds(q, v)' <=> Holds(q, v)
      BY <2>1, PatchAppliedEffect DEF PatchEffect
    <3>2. CASE p = SiteTarget[u]
      BY <3>1, <3>2, OnlyItsOwn
    <3>3. CASE p # SiteTarget[u]
      BY <3>1, <3>3 DEF Holds
    <3> QED
      BY <3>2, <3>3
  <2>2. CASE UNCHANGED <<own, heap>>
    BY <2>2 DEF Holds, IsWrapper
  <2> QED
    BY <2>1, <2>2 DEF Patch, PatchSkippedUntil, PatchSkippedDrift, PatchDriftRaises, PatchRefused
<1>2. HeapInv /\ [Next]_vars => [Kept]_vars
  BY <1>1
<1> QED
  BY <1>2, InitHeapInv, NextHeapInv, PTL DEF Spec, NoPatchReplacesAnother

\* "applied" is the truth for every declaration: as long as nobody else touches the
\* attributes its wrapper is at its target.
THEOREM AppliedPatchesAreLive == OwnIdentity => (Spec => []AppliedMeansLive)
<1> SUFFICES ASSUME OwnIdentity PROVE Spec => []AppliedMeansLive
  OBVIOUS
<1>1. UntouchedInv => AppliedMeansLive
  BY DEF UntouchedInv, AppliedHeld, AppliedMeansLive
<1> QED
  BY <1>1, InitUntouchedInv, NextUntouchedInv, PTL DEF Spec

\* AlreadyPatched is only raised over the wrapper of another declaration, which is at the
\* target or wraps the function that the target resolves to.
THEOREM RefusalsAreJustified == OwnIdentity => (Spec => []RefusalIsJustified)
<1> SUFFICES ASSUME OwnIdentity PROVE Spec => []RefusalIsJustified
  OBVIOUS
<1>1. UntouchedInv => RefusalIsJustified
  <2> SUFFICES ASSUME UntouchedInv, others = {}, NEW s \in Sites, NEW live \in Addrs,
                      Resolves(SiteTarget[s], live), Refused(s, live)
               PROVE  \E b \in Addrs :
                         /\ IsWrapper(b) /\ ~SameIdentity(s, b)
                         /\ b = live \/ heap[b].original = live
    BY DEF RefusalIsJustified
  <2>1. HeapInv /\ MarksHeld
    BY DEF UntouchedInv
  <2>2. CASE IsWrapper(live)
    BY <2>2 DEF Refused
  <2>3. CASE ~IsWrapper(live)
    <3>1. own[SiteTarget[s]] # NULL /\ applied[live] # NULL
      BY <2>3 DEF Refused, DeclaresDirectly
    <3> DEFINE r == applied[live]
               b == own[SiteTarget[r]]
    <3>2. /\ r \in Sites /\ SiteTarget[r] \in Places
          /\ Holds(SiteTarget[r], r) /\ heap[b].original = live
      BY <2>1, <3>1, SiteAssumption DEF HeapInv, TypeOK, MarksHeld
    <3>3. b \in Addrs /\ IsWrapper(b) /\ heap[b].site = r
      BY <2>1, <3>2 DEF Holds, HeapInv, TypeOK
    <3>4. r # s
      BY <2>3, <3>1, <3>3, SiteAssumption, DirectResolution
    <3> HIDE DEF r, b
    <3>5. ~SameIdentity(s, b)
      BY <3>2, <3>3, <3>4 DEF SameIdentity, OwnIdentity
    <3> QED
      BY <3>2, <3>3, <3>5
  <2> QED
    BY <2>2, <2>3
<1> QED
  BY <1>1, InitUntouchedInv, NextUntouchedInv, PTL DEF Spec

================================================================================
