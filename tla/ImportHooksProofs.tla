--------------------------- MODULE ImportHooksProofs ---------------------------
(***************************************************************************)
(* Proofs about ImportHooks, for any threads, modules and hooks: no hook   *)
(* is lost, kept by two or run twice, apply_all() settles what it was      *)
(* asked for, and what is reported applied stays in effect.                *)
(***************************************************************************)
EXTENDS ImportHooks, TLAPS, SequenceTheorems, WellFoundedInduction

--------------------------------------------------------------------------------
(* The inductive invariant.                                                *)

Unraced == "raced" \notin overlaps

Depth(t) == Len(stack[t])
Frames(t) == 1 .. Depth(t)
Imports(t, i) == stack[t][i].op = "import"
Declares(t, i) == stack[t][i].op = "declare"

Distinct(s) == \A i, j \in DOMAIN s : s[i] = s[j] => i = j

\* Only the innermost call is a decorator, or an import that has found nothing yet.
InnermostOnly == \A t \in Threads : \A i \in Frames(t) :
    Declares(t, i) \/ (Imports(t, i) /\ stack[t][i].pc = "find") => i = Depth(t)

\* A module is imported by one call at a time (the import lock).
OneImport == \A t, u \in Threads : \A i \in Frames(t), j \in Frames(u) :
    Imports(t, i) /\ Imports(u, j) /\ stack[t][i].mod = stack[u][j].mod => t = u /\ i = j

\* How far an import is, and what it knows of its module.
ImportProgress == \A t \in Threads : \A i \in Frames(t) : Imports(t, i) =>
    LET f == stack[t][i]
    IN  /\ sysModules[f.mod] = IF f.pc = "find" THEN "absent" ELSE "executing"
        /\ f.pc # "fire" => f.hooks = <<>>
        /\ f.pc = "find" => ~f.claimed
        /\ f.pc = "fire" => f.claimed
        /\ f.claimed => finder /\ f.mod \notin Namespaces

ExecutingIsImported == \A m \in Modules :
    sysModules[m] = "executing" => \E t \in Threads : Importing(t, m)

CallInv == InnermostOnly /\ OneImport /\ ImportProgress /\ ExecutingIsImported

\* What is queued, or in the hands of an import, is deferred and held once.
QueueInv == \A m \in Modules :
    /\ Distinct(pending[m])
    /\ \A h \in ToSet(pending[m]) :
          HookModule[h] = m /\ status[h] = "deferred" /\ h \notin reported

FiringInv == \A t \in Threads : \A i \in Frames(t) : Imports(t, i) =>
    /\ Distinct(stack[t][i].hooks)
    /\ \A h \in ToSet(stack[t][i].hooks) :
          /\ HookModule[h] = stack[t][i].mod /\ status[h] = "deferred" /\ h \notin reported
          /\ ~Queued(h)

\* A decorator holds its hook until it has queued or run it.
DeclareInv == \A t \in Threads : \A i \in Frames(t) :
    Declares(t, i) /\ stack[t][i].pc # "install" =>
        LET h == stack[t][i].hook
        IN  /\ status[h] = "deferred" /\ h \notin reported /\ ~Queued(h)
            /\ \A u \in Threads : \A j \in Frames(u) :
                 /\ Imports(u, j) => h \notin ToSet(stack[u][j].hooks)
                 /\ Declares(u, j) /\ stack[u][j].pc # "install" /\ stack[u][j].hook = h =>
                       t = u /\ i = j

KeysInv ==
    /\ Distinct(keys)
    /\ \A m \in Modules : m \in ToSet(keys) <=> pending[m] # <<>>

ReportedInv == \A h \in reported : status[h] # "undeclared"

CustodyInv == QueueInv /\ FiringInv /\ DeclareInv /\ KeysInv /\ ReportedInv

\* The history variable has seen every declaration for a module that is being imported.
OverlapsSeen == \A t, u \in Threads : \A i \in Frames(t), j \in Frames(u) :
    Declares(t, i) /\ Imports(u, j) /\ stack[u][j].mod = HookModule[stack[t][i].hook] =>
        (IF t = u THEN "nested" ELSE "raced") \in overlaps

\* No call queues a patch of a module that it imports itself.
DeclaresElsewhere == \A t \in Threads : \A i, j \in Frames(t) :
    Declares(t, i) /\ stack[t][i].pc # "run" /\ Imports(t, j) =>
        stack[t][j].mod # HookModule[stack[t][i].hook]

\* A hook that is queued while there is no finder is still in the hands of _install().
FinderComes == \A m \in Modules : \A h \in ToSet(pending[m]) :
    ~finder => \E t \in Threads : \E i \in Frames(t) :
        Declares(t, i) /\ stack[t][i].pc = "install" /\ stack[t][i].hook = h

\* An import that will not fire the hooks of its module has none to fire, and one that
\* fires them has all of them.
NothingMissed == \A t \in Threads : \A i \in Frames(t) :
    LET f == stack[t][i]
    IN  Imports(t, i) /\ f.mod \notin Namespaces
            /\ (f.pc = "fire" \/ (f.pc = "exec" /\ ~f.claimed)) =>
        pending[f.mod] = <<>>

QueuesInTime == \A t \in Threads : \A i \in Frames(t) :
    Declares(t, i) /\ stack[t][i].pc = "queue" =>
        sysModules[HookModule[stack[t][i].hook]] = "absent"

\* What is declared and has not settled is held.
NothingLost == \A h \in Hooks : Waiting(h) => Queued(h) \/ Carried(h)

NoneLeftBehind == \A m \in Modules \ Namespaces :
    sysModules[m] = "loaded" => pending[m] = <<>>

RestInv == NothingMissed /\ QueuesInTime /\ NothingLost /\ NoneLeftBehind

\* What apply_all() was asked to settle is settled, or its module is still to be imported.
AskedInv == \A t \in Threads : \A i \in Frames(t) :
    stack[t][i].op = "apply_all" => \A h \in stack[t][i].asked :
        /\ \/ Settled(h)
           \/ Queued(h)
           \/ \E u \in Threads : \E j \in Frames(u) :
                 Imports(u, j) /\ h \in ToSet(stack[u][j].hooks)
        /\ Settled(h) \/ HookModule[h] \in ToSet(stack[t][i].todo) \cup Namespaces

\* All of it, unless another thread has declared a patch of a module that was imported.
WaitInv ==
    /\ OverlapsSeen
    /\ DeclaresElsewhere
    /\ FinderComes
    /\ Unraced => RestInv /\ AskedInv

\* Two hooks of one module patch submodules of it, so that the failure of one leaves what
\* the other patched in place.
HooksApart == \A h, g \in Hooks : h # g /\ HookModule[h] = HookModule[g] => h \in InSubmodule

\* An import has fired its last hook, and is about to return.
Finished(m) == \E t \in Threads : \E i \in Frames(t) :
    /\ Imports(t, i) /\ stack[t][i].mod = m
    /\ stack[t][i].pc = "fire" /\ stack[t][i].hooks = <<>>

\* Without overlaps, a patch in the namespace of its module is applied only by the end of
\* its import.
EffectInv == \A h \in Hooks : status[h] = "applied" =>
    /\ h \in live
    /\ h \in InSubmodule \/ sysModules[HookModule[h]] = "loaded" \/ Finished(HookModule[h])

\* Without overlaps, the hook that runs inside its decorator finds its module loaded.
RunsLoaded == \A t \in Threads : \A i \in Frames(t) :
    Declares(t, i) /\ stack[t][i].pc = "run" =>
        sysModules[HookModule[stack[t][i].hook]] = "loaded"

--------------------------------------------------------------------------------
(* Sequences.                                                              *)

LEMMA Smallest ==
    ASSUME NEW S \in SUBSET Nat, S # {}
    PROVE  \E m \in S : \A n \in S : m <= n
<1>1. PICK m \in S : \A n \in S : ~(<<n, m>> \in OpToRel(<, Nat))
  BY NatLessThanWellFounded, WFMin
<1>2. \A n \in S : n \in Nat /\ ~(n < m)
  BY <1>1 DEF OpToRel
<1> QED
  BY <1>2

LEMMA AppendElements ==
    ASSUME NEW S, NEW s \in Seq(S), NEW x \in S
    PROVE  /\ Append(s, x) \in Seq(S)
           /\ ToSet(Append(s, x)) = ToSet(s) \cup {x}
           /\ Distinct(s) /\ x \notin ToSet(s) => Distinct(Append(s, x))
           /\ Append(s, x) # <<>>
<1>1. /\ Append(s, x) \in Seq(S) /\ Len(Append(s, x)) = Len(s) + 1
      /\ \A i \in 1 .. Len(s) : Append(s, x)[i] = s[i]
      /\ Append(s, x)[Len(s) + 1] = x
      /\ Len(s) \in Nat
  BY AppendProperties
<1>2. DOMAIN s = 1 .. Len(s) /\ DOMAIN Append(s, x) = 1 .. Len(s) + 1
  BY <1>1
<1>3. ToSet(Append(s, x)) = ToSet(s) \cup {x}
  <2>1. \A i \in DOMAIN Append(s, x) : i = Len(s) + 1 \/ (i \in DOMAIN s /\ Append(s, x)[i] = s[i])
    BY <1>1, <1>2
  <2>2. \A i \in DOMAIN s : i \in DOMAIN Append(s, x) /\ Append(s, x)[i] = s[i]
    BY <1>1, <1>2
  <2>3. Len(s) + 1 \in DOMAIN Append(s, x)
    BY <1>1, <1>2
  <2> QED
    BY <1>1, <2>1, <2>2, <2>3 DEF ToSet
<1>4. ASSUME Distinct(s), x \notin ToSet(s) PROVE Distinct(Append(s, x))
  BY <1>1, <1>2, <1>4 DEF Distinct, ToSet
<1> QED
  BY <1>1, <1>2, <1>3, <1>4

LEMMA TailElements ==
    ASSUME NEW S, NEW s \in Seq(S), s # <<>>
    PROVE  /\ Tail(s) \in Seq(S)
           /\ Head(s) \in ToSet(s) /\ Head(s) \in S
           /\ ToSet(s) = {Head(s)} \cup ToSet(Tail(s))
           /\ Distinct(s) => Distinct(Tail(s)) /\ Head(s) \notin ToSet(Tail(s))
<1>1. /\ Tail(s) \in Seq(S) /\ Len(Tail(s)) = Len(s) - 1
      /\ Len(s) \in Nat \ {0}
      /\ \A i \in 1 .. Len(Tail(s)) : Tail(s)[i] = s[i + 1]
      /\ Head(s) = s[1] /\ Head(s) \in S
  OBVIOUS
<1>2. DOMAIN s = 1 .. Len(s) /\ DOMAIN Tail(s) = 1 .. Len(Tail(s))
  BY <1>1
<1>3. ToSet(s) = {Head(s)} \cup ToSet(Tail(s))
  <2>1. \A i \in DOMAIN s : i = 1 \/ (i - 1 \in DOMAIN Tail(s) /\ s[i] = Tail(s)[i - 1])
    BY <1>1, <1>2
  <2>2. \A i \in DOMAIN Tail(s) : i + 1 \in DOMAIN s /\ Tail(s)[i] = s[i + 1]
    BY <1>1, <1>2
  <2>3. 1 \in DOMAIN s /\ s[1] = Head(s)
    BY <1>1, <1>2
  <2>4. \A e \in ToSet(s) : e = Head(s) \/ e \in ToSet(Tail(s))
    <3> SUFFICES ASSUME NEW i \in DOMAIN s PROVE s[i] = Head(s) \/ s[i] \in ToSet(Tail(s))
      BY DEF ToSet
    <3>1. CASE i = 1
      BY <3>1, <1>1
    <3>2. CASE i - 1 \in DOMAIN Tail(s) /\ s[i] = Tail(s)[i - 1]
      BY <3>2 DEF ToSet
    <3> QED
      BY <2>1, <3>1, <3>2
  <2>5. Head(s) \in ToSet(s) /\ ToSet(Tail(s)) \subseteq ToSet(s)
    BY <2>2, <2>3 DEF ToSet
  <2> QED
    BY <2>4, <2>5
<1>4. ASSUME Distinct(s) PROVE Distinct(Tail(s)) /\ Head(s) \notin ToSet(Tail(s))
  BY <1>1, <1>2, <1>4 DEF Distinct, ToSet
<1> QED
  BY <1>1, <1>3, <1>4

LEMMA FrontElements ==
    ASSUME NEW S, NEW s \in Seq(S), s # <<>>
    PROVE  /\ Front(s) \in Seq(S) /\ Len(Front(s)) = Len(s) - 1
           /\ \A i \in 1 .. Len(s) - 1 : Front(s)[i] = s[i]
           /\ Last(s) = s[Len(s)] /\ Last(s) \in S
           /\ Len(s) \in Nat \ {0}
<1>1. Len(s) \in Nat \ {0} /\ DOMAIN s = 1 .. Len(s)
  BY EmptySeq
<1>2. SubSeq(s, 1, Len(s) - 1) \in Seq(S)
      /\ Len(SubSeq(s, 1, Len(s) - 1)) = Len(s) - 1
      /\ \A i \in 1 .. Len(s) - 1 : SubSeq(s, 1, Len(s) - 1)[i] = s[i]
  BY <1>1
<1> QED
  BY <1>1, <1>2 DEF Front, Last

\* RemoveFirst takes a key out of the keys, each of which occurs once.
LEMMA RemoveElement ==
    ASSUME NEW S, NEW s \in Seq(S), NEW x
    PROVE  /\ RemoveFirst(s, x) \in Seq(S)
           /\ Distinct(s) => Distinct(RemoveFirst(s, x))
           /\ Distinct(s) => ToSet(RemoveFirst(s, x)) = ToSet(s) \ {x}
<1>1. CASE \E i \in 1 .. Len(s) : s[i] = x
  <2> DEFINE I == {i \in 1 .. Len(s) : s[i] = x}
             k == Min(I)
  <2>1. k \in I
    <3>1. I \in SUBSET Nat /\ I # {}
      BY <1>1
    <3> QED
      BY <3>1, Smallest DEF Min
  <2>2. RemoveFirst(s, x) = SubSeq(s, 1, k - 1) \o SubSeq(s, k + 1, Len(s))
    BY <1>1, <2>1 DEF RemoveFirst, RemoveAt, SelectInSeq
  <2> DEFINE r == SubSeq(s, 1, k - 1) \o SubSeq(s, k + 1, Len(s))
  <2>3. k \in 1 .. Len(s) /\ s[k] = x /\ Len(s) \in Nat
    BY <2>1
  <2> HIDE DEF k
  <2>4. /\ r \in Seq(S) /\ Len(r) = Len(s) - 1
        /\ \A i \in 1 .. Len(r) : r[i] = IF i < k THEN s[i] ELSE s[i + 1]
    <3> DEFINE a == SubSeq(s, 1, k - 1)
               b == SubSeq(s, k + 1, Len(s))
    <3>1. a \in Seq(S) /\ Len(a) = k - 1 /\ \A i \in 1 .. k - 1 : a[i] = s[i]
      BY <2>3
    <3>2. /\ b \in Seq(S) /\ Len(b) = Len(s) - k
          /\ \A i \in 1 .. Len(s) - k : b[i] = s[i + k]
      BY <2>3
    <3> HIDE DEF a, b
    <3>3. /\ a \o b \in Seq(S) /\ Len(a \o b) = Len(a) + Len(b)
          /\ \A i \in 1 .. Len(a) + Len(b) :
                (a \o b)[i] = IF i <= Len(a) THEN a[i] ELSE b[i - Len(a)]
      BY <3>1, <3>2, ConcatProperties
    <3>4. \A i \in 1 .. Len(s) - 1 : (a \o b)[i] = IF i < k THEN s[i] ELSE s[i + 1]
      BY <2>3, <3>1, <3>2, <3>3
    <3>5. r = a \o b
      BY DEF a, b
    <3> HIDE DEF r
    <3>6. Len(r) = (k - 1) + (Len(s) - k)
      BY <3>1, <3>2, <3>3, <3>5
    <3>7. Len(r) = Len(s) - 1
      BY <2>3, <3>6
    <3> QED
      BY <3>3, <3>4, <3>5, <3>7
  <2> HIDE DEF r
  <2>5. DOMAIN r = 1 .. Len(s) - 1 /\ DOMAIN s = 1 .. Len(s)
    BY <2>4
  <2>6. Distinct(s) => Distinct(r)
    <3> SUFFICES ASSUME Distinct(s), NEW i \in DOMAIN r, NEW j \in DOMAIN r, r[i] = r[j]
                 PROVE  i = j
      BY DEF Distinct
    <3> DEFINE Old(n) == IF n < k THEN n ELSE n + 1
    <3>1. \A n \in DOMAIN r : Old(n) \in DOMAIN s /\ r[n] = s[Old(n)]
      BY <2>3, <2>4, <2>5
    <3>2. Old(i) = Old(j)
      BY <3>1 DEF Distinct
    <3> QED
      BY <2>3, <2>5, <3>2
  <2>7. Distinct(s) => ToSet(r) = ToSet(s) \ {x}
    <3> HAVE Distinct(s)
    <3>1. \A i \in DOMAIN r : \E j \in DOMAIN s : j # k /\ r[i] = s[j]
      BY <2>3, <2>4, <2>5
    <3>2. \A j \in DOMAIN s : j # k => \E i \in DOMAIN r : r[i] = s[j]
      <4> TAKE j \in DOMAIN s
      <4>1. CASE j < k
        BY <4>1, <2>3, <2>4, <2>5
      <4>2. CASE j > k
        <5>1. j - 1 \in DOMAIN r /\ r[j - 1] = s[j]
          BY <4>2, <2>3, <2>4, <2>5
        <5> QED
          BY <5>1
      <4> QED
        BY <4>1, <4>2, <2>3, <2>5
    <3>3. ToSet(r) \subseteq ToSet(s) \ {x}
      BY <3>1, <2>3, <2>5 DEF ToSet, Distinct
    <3>4. ToSet(s) \ {x} \subseteq ToSet(r)
      BY <3>2, <2>3 DEF ToSet
    <3> QED
      BY <3>3, <3>4
  <2> QED
    BY <2>2, <2>4, <2>6, <2>7 DEF r
<1>2. CASE ~ \E i \in 1 .. Len(s) : s[i] = x
  BY <1>2 DEF RemoveFirst, ToSet
<1> QED
  BY <1>1, <1>2

--------------------------------------------------------------------------------
(* Frames and stacks.                                                      *)

LEMMA FrameTypes ==
    ASSUME NEW f \in Frame
    PROVE  /\ f.op \in {"declare", "import", "apply_all"}
           /\ f.op = "declare" =>
                 /\ f.hook \in Hooks /\ f.pc \in {"queue", "install", "run"}
                 /\ f = DeclareFrame(f.hook, f.pc)
           /\ f.op = "import" =>
                 /\ f.mod \in Modules /\ f.pc \in {"find", "exec", "fire"}
                 /\ f.claimed \in BOOLEAN /\ f.hooks \in Seq(Hooks)
                 /\ f = ImportFrame(f.mod, f.pc, f.claimed, f.hooks)
           /\ f.op = "apply_all" =>
                 /\ f.todo \in Seq(Modules) /\ f.asked \in SUBSET Hooks
                 /\ f = ApplyFrame(f.todo, f.asked)
BY DEF Frame, DeclareFrame, ImportFrame, ApplyFrame

LEMMA FramesTyped ==
    /\ \A h \in Hooks, pc \in {"queue", "install", "run"} : DeclareFrame(h, pc) \in Frame
    /\ \A m \in Modules, pc \in {"find", "exec", "fire"}, c \in BOOLEAN, q \in Seq(Hooks) :
          ImportFrame(m, pc, c, q) \in Frame
    /\ \A todo \in Seq(Modules), asked \in SUBSET Hooks : ApplyFrame(todo, asked) \in Frame
BY DEF Frame, DeclareFrame, ImportFrame, ApplyFrame

LEMMA FrameFields ==
    /\ \A h, pc : /\ DeclareFrame(h, pc).op = "declare"
                  /\ DeclareFrame(h, pc).hook = h /\ DeclareFrame(h, pc).pc = pc
    /\ \A m, pc, c, q : /\ ImportFrame(m, pc, c, q).op = "import"
                        /\ ImportFrame(m, pc, c, q).mod = m /\ ImportFrame(m, pc, c, q).pc = pc
                        /\ ImportFrame(m, pc, c, q).claimed = c
                        /\ ImportFrame(m, pc, c, q).hooks = q
    /\ \A todo, asked : /\ ApplyFrame(todo, asked).op = "apply_all"
                        /\ ApplyFrame(todo, asked).todo = todo
                        /\ ApplyFrame(todo, asked).asked = asked
BY DEF DeclareFrame, ImportFrame, ApplyFrame

StackOK == stack \in [Threads -> Seq(Frame)]

\* What a step does to the stacks: frame f is pushed, or takes the place of the innermost
\* one, or the innermost one is popped, with an apply_all() below it perhaps.
Pushed(t, f) ==
    /\ Depth(t)' = Depth(t) + 1
    /\ \A u \in Threads \ {t} : stack'[u] = stack[u]
    /\ \A i \in Frames(t) : stack'[t][i] = stack[t][i]
    /\ stack'[t][Depth(t) + 1] = f

Replaced(t, f) ==
    /\ Depth(t)' = Depth(t) /\ Depth(t) > 0
    /\ \A u \in Threads \ {t} : stack'[u] = stack[u]
    /\ \A i \in 1 .. Depth(t) - 1 : stack'[t][i] = stack[t][i]
    /\ stack'[t][Depth(t)] = f

Popped(t) ==
    /\ \A u \in Threads \ {t} : stack'[u] = stack[u]
    /\ Depth(t)' \in 0 .. Depth(t) - 1
    /\ \A i \in 1 .. Depth(t)' : stack'[t][i] = stack[t][i]
    /\ \A i \in (Depth(t)' + 1) .. (Depth(t) - 1) : stack[t][i].op = "apply_all"

LEMMA TopFrame ==
    ASSUME StackOK, NEW t \in Threads, ~Idle(t)
    PROVE  /\ Depth(t) \in Nat \ {0} /\ Depth(t) \in Frames(t)
           /\ Top(t) = stack[t][Depth(t)] /\ Top(t) \in Frame
           /\ stack[t] \in Seq(Frame)
<1>1. stack[t] \in Seq(Frame) /\ stack[t] # <<>>
  BY DEF StackOK, Idle
<1>2. /\ Last(stack[t]) = stack[t][Len(stack[t])] /\ Last(stack[t]) \in Frame
      /\ Len(stack[t]) \in Nat \ {0}
  BY <1>1, FrontElements
<1> QED
  BY <1>1, <1>2 DEF Top, Depth, Frames

LEMMA FrameAt ==
    ASSUME StackOK, NEW t \in Threads
    PROVE  /\ Depth(t) \in Nat /\ stack[t] \in Seq(Frame) /\ DOMAIN stack[t] = Frames(t)
           /\ \A i \in Frames(t) : stack[t][i] \in Frame
BY DEF StackOK, Depth, Frames

LEMMA CallPushes ==
    ASSUME StackOK, NEW t \in Threads, NEW f \in Frame, Call(t, f)
    PROVE  StackOK' /\ Pushed(t, f)
<1>1. stack[t] \in Seq(Frame) /\ stack' = [stack EXCEPT ![t] = Append(stack[t], f)]
  BY DEF StackOK, Call
<1>2. Append(stack[t], f) \in Seq(Frame)
  BY <1>1, AppendProperties
<1>3. StackOK' /\ stack'[t] = Append(stack[t], f) /\ \A u \in Threads \ {t} : stack'[u] = stack[u]
  BY <1>1, <1>2 DEF StackOK
<1> QED
  BY <1>1, <1>3, AppendProperties DEF Pushed, Depth, Frames

LEMMA BecomeReplaces ==
    ASSUME StackOK, NEW t \in Threads, ~Idle(t), NEW f \in Frame, Become(t, f)
    PROVE  StackOK' /\ Replaced(t, f)
<1> DEFINE r == Front(stack[t])
<1>1. /\ stack[t] \in Seq(Frame) /\ stack[t] # <<>>
      /\ stack' = [stack EXCEPT ![t] = Append(r, f)]
  BY DEF StackOK, Become, Idle
<1>2. /\ r \in Seq(Frame) /\ Len(r) = Len(stack[t]) - 1
      /\ \A i \in 1 .. Len(stack[t]) - 1 : r[i] = stack[t][i]
      /\ Len(stack[t]) \in Nat \ {0}
  BY <1>1, FrontElements
<1> HIDE DEF r
<1>3. /\ Append(r, f) \in Seq(Frame) /\ Len(Append(r, f)) = Len(r) + 1
      /\ \A i \in 1 .. Len(r) : Append(r, f)[i] = r[i]
      /\ Append(r, f)[Len(r) + 1] = f
  BY <1>2, AppendProperties
<1>4. StackOK' /\ stack'[t] = Append(r, f) /\ \A u \in Threads \ {t} : stack'[u] = stack[u]
  BY <1>1, <1>3 DEF StackOK
<1> QED
  BY <1>2, <1>3, <1>4 DEF Replaced, Depth

LEMMA ReturnPops ==
    ASSUME StackOK, NEW t \in Threads, ~Idle(t), Return(t)
    PROVE  StackOK' /\ Popped(t)
<1> DEFINE r == Front(stack[t])
<1>1. /\ stack[t] \in Seq(Frame) /\ stack[t] # <<>>
      /\ stack' = [stack EXCEPT ![t] = r]
  BY DEF StackOK, Return, Idle
<1>2. /\ r \in Seq(Frame) /\ Len(r) = Len(stack[t]) - 1
      /\ \A i \in 1 .. Len(stack[t]) - 1 : r[i] = stack[t][i]
      /\ Len(stack[t]) \in Nat \ {0}
  BY <1>1, FrontElements
<1> HIDE DEF r
<1>3. StackOK' /\ stack'[t] = r /\ \A u \in Threads \ {t} : stack'[u] = stack[u]
  BY <1>1, <1>2 DEF StackOK
<1> QED
  BY <1>2, <1>3 DEF Popped, Depth

LEMMA RaisePops ==
    ASSUME StackOK, NEW t \in Threads, ~Idle(t), Raise(t)
    PROVE  StackOK' /\ Popped(t)
<1> DEFINE r == Front(stack[t])
<1>1. /\ stack[t] \in Seq(Frame) /\ stack[t] # <<>>
      /\ stack' = [stack EXCEPT ![t] =
            IF r # <<>> /\ Last(r).op = "apply_all" THEN Front(r) ELSE r]
  BY DEF StackOK, Raise, Idle
<1>2. /\ r \in Seq(Frame) /\ Len(r) = Len(stack[t]) - 1
      /\ \A i \in 1 .. Len(stack[t]) - 1 : r[i] = stack[t][i]
      /\ Len(stack[t]) \in Nat \ {0}
  BY <1>1, FrontElements
<1> HIDE DEF r
<1>3. CASE r # <<>> /\ Last(r).op = "apply_all"
  <2> DEFINE q == Front(r)
  <2>1. /\ q \in Seq(Frame) /\ Len(q) = Len(r) - 1
        /\ \A i \in 1 .. Len(r) - 1 : q[i] = r[i]
        /\ Last(r) = r[Len(r)]
        /\ Len(r) \in Nat \ {0}
    BY <1>2, <1>3, FrontElements
  <2>2. stack' = [stack EXCEPT ![t] = q]
    BY <1>1, <1>3
  <2> HIDE DEF q
  <2>3. StackOK' /\ stack'[t] = q /\ \A u \in Threads \ {t} : stack'[u] = stack[u]
    BY <2>1, <2>2 DEF StackOK
  <2>4. /\ Len(stack'[t]) = Len(stack[t]) - 2 /\ Len(stack[t]) - 2 \in Nat
        /\ \A i \in 1 .. Len(stack[t]) - 2 : stack'[t][i] = stack[t][i]
    BY <1>2, <2>1, <2>3
  <2>5. stack[t][Len(stack[t]) - 1].op = "apply_all"
    BY <1>2, <1>3, <2>1
  <2>6. \A i \in (Depth(t)' + 1) .. (Depth(t) - 1) : stack[t][i].op = "apply_all"
    BY <1>2, <2>4, <2>5 DEF Depth
  <2> QED
    BY <1>2, <2>3, <2>4, <2>6 DEF Popped, Depth
<1>4. CASE ~(r # <<>> /\ Last(r).op = "apply_all")
  <2>1. StackOK' /\ stack'[t] = r /\ \A u \in Threads \ {t} : stack'[u] = stack[u]
    BY <1>1, <1>2, <1>4 DEF StackOK
  <2> QED
    BY <1>2, <2>1 DEF Popped, Depth
<1> QED
  BY <1>3, <1>4

--------------------------------------------------------------------------------
(* What each step does, in terms of frames.                                *)

HookTypes ==
    /\ sysModules \in [Modules -> {"absent", "executing", "loaded"}]
    /\ pending \in [Modules -> Seq(Hooks)]
    /\ keys \in Seq(Modules)
    /\ finder \in BOOLEAN
    /\ status \in [Hooks -> {"undeclared", "deferred", "applied", "skipped"}]
    /\ live \subseteq Hooks
    /\ reported \subseteq Hooks
    /\ StackOK

LEMMA HookOfModule == HookModule \in [Hooks -> Modules]
BY HooksAssumption

LEMMA InnermostDeclares ==
    ASSUME StackOK, NEW t \in Threads, InFrame(t, "declare")
    PROVE  /\ ~Idle(t) /\ Top(t).hook \in Hooks /\ Top(t).pc \in {"queue", "install", "run"}
           /\ Top(t) = DeclareFrame(Top(t).hook, Top(t).pc)
BY TopFrame, FrameTypes DEF InFrame

LEMMA InnermostImports ==
    ASSUME StackOK, NEW t \in Threads, InFrame(t, "import")
    PROVE  /\ ~Idle(t) /\ Top(t).mod \in Modules /\ Top(t).pc \in {"find", "exec", "fire"}
           /\ Top(t).claimed \in BOOLEAN /\ Top(t).hooks \in Seq(Hooks)
           /\ Top(t) = ImportFrame(Top(t).mod, Top(t).pc, Top(t).claimed, Top(t).hooks)
BY TopFrame, FrameTypes DEF InFrame

LEMMA InnermostApplies ==
    ASSUME StackOK, NEW t \in Threads, InFrame(t, "apply_all")
    PROVE  /\ ~Idle(t) /\ Top(t).todo \in Seq(Modules) /\ Top(t).asked \in SUBSET Hooks
           /\ Top(t) = ApplyFrame(Top(t).todo, Top(t).asked)
BY TopFrame, FrameTypes DEF InFrame

LEMMA DeclareEffect ==
    ASSUME HookTypes, NEW t \in Threads, NEW h \in Hooks, Declare(t, h)
    PROVE  /\ HookTypes'
           /\ status[h] = "undeclared" /\ status' = [status EXCEPT ![h] = "deferred"]
           /\ \E pc \in {"queue", "run"} :
                 /\ Pushed(t, DeclareFrame(h, pc))
                 /\ pc = "queue" <=> sysModules[HookModule[h]] = "absent"
           /\ UNCHANGED <<sysModules, pending, keys, finder, live, reported>>
           /\ Idle(t) \/ RunsBody(t)
<1> DEFINE pc == IF InSysModules(HookModule[h]) THEN "run" ELSE "queue"
<1>1. DeclareFrame(h, pc) \in Frame /\ Call(t, DeclareFrame(h, pc))
  BY FramesTyped DEF Declare, DeclareFrame
<1>2. StackOK' /\ Pushed(t, DeclareFrame(h, pc))
  BY <1>1, CallPushes DEF HookTypes
<1>3. pc = "queue" <=> sysModules[HookModule[h]] = "absent"
  BY DEF InSysModules
<1> QED
  BY <1>2, <1>3 DEF Declare, HookTypes, MayDeclare

LEMMA QueueHookEffect ==
    ASSUME HookTypes, NEW t \in Threads, QueueHook(t)
    PROVE  /\ HookTypes' /\ ~Idle(t)
           /\ \E h \in Hooks :
                 /\ Top(t) = DeclareFrame(h, "queue")
                 /\ Replaced(t, DeclareFrame(h, "install"))
                 /\ pending' = [pending EXCEPT ![HookModule[h]] = Append(pending[HookModule[h]], h)]
                 /\ keys' = IF pending[HookModule[h]] = <<>> THEN Append(keys, HookModule[h])
                                                             ELSE keys
           /\ UNCHANGED <<sysModules, finder, status, live, reported>>
<1> DEFINE h == Top(t).hook
           m == HookModule[h]
<1>1. /\ ~Idle(t) /\ h \in Hooks /\ Top(t) = DeclareFrame(h, "queue") /\ m \in Modules
  BY InnermostDeclares, HookOfModule DEF HookTypes, QueueHook, At
<1>2. Become(t, DeclareFrame(h, "install")) /\ DeclareFrame(h, "install") \in Frame
  BY <1>1, FramesTyped DEF QueueHook
<1>3. StackOK' /\ Replaced(t, DeclareFrame(h, "install"))
  BY <1>1, <1>2, BecomeReplaces DEF HookTypes
<1>4. /\ pending' = [pending EXCEPT ![m] = Append(pending[m], h)]
      /\ keys' = IF pending[m] = <<>> THEN Append(keys, m) ELSE keys
      /\ UNCHANGED <<sysModules, finder, status, live, reported>>
  BY DEF QueueHook, HookTypes
<1>5. pending' \in [Modules -> Seq(Hooks)] /\ keys' \in Seq(Modules)
  BY <1>1, <1>4, AppendProperties DEF HookTypes
<1> QED
  BY <1>1, <1>3, <1>4, <1>5 DEF HookTypes

LEMMA InstallFinderEffect ==
    ASSUME HookTypes, NEW t \in Threads, InstallFinder(t)
    PROVE  /\ HookTypes' /\ ~Idle(t)
           /\ Top(t).op = "declare" /\ Top(t).pc = "install"
           /\ Popped(t) /\ finder'
           /\ UNCHANGED <<sysModules, pending, keys, status, live, reported>>
BY ReturnPops DEF HookTypes, InstallFinder, At, InFrame

LEMMA RunNowEffect ==
    ASSUME HookTypes, NEW t \in Threads, RunNow(t)
    PROVE  /\ HookTypes' /\ ~Idle(t) /\ Popped(t)
           /\ \E h \in Hooks :
                 /\ Top(t) = DeclareFrame(h, "run")
                 /\ \/ HookReturns(h) /\ UNCHANGED reported
                    \/ reported' = reported \cup {h} /\ UNCHANGED <<status, live>>
           /\ UNCHANGED <<sysModules, pending, keys, finder>>
<1> DEFINE h == Top(t).hook
<1>1. ~Idle(t) /\ h \in Hooks /\ Top(t) = DeclareFrame(h, "run")
  BY InnermostDeclares DEF HookTypes, RunNow, At
<1>2. StackOK' /\ Popped(t)
  BY <1>1, ReturnPops, RaisePops DEF HookTypes, RunNow
<1>3. /\ \/ HookReturns(h) /\ UNCHANGED reported
         \/ reported' = reported \cup {h} /\ UNCHANGED <<status, live>>
      /\ UNCHANGED <<sysModules, pending, keys, finder>>
  BY DEF RunNow
<1>4. HookTypes'
  BY <1>1, <1>2, <1>3 DEF HookTypes, HookReturns
<1> QED
  BY <1>1, <1>2, <1>3, <1>4

LEMMA ImportEffect ==
    ASSUME HookTypes, NEW t \in Threads, NEW m \in Modules, Import(t, m)
    PROVE  /\ HookTypes'
           /\ sysModules[m] = "absent" /\ \A u \in Threads : ~Importing(u, m)
           /\ Pushed(t, ImportFrame(m, "find", FALSE, <<>>))
           /\ Idle(t) \/ RunsBody(t) \/ At(t, "import", "fire") \/ InFrame(t, "apply_all")
           /\ UNCHANGED <<sysModules, pending, keys, finder, status, live, reported>>
<1>1. ImportFrame(m, "find", FALSE, <<>>) \in Frame /\ Call(t, ImportFrame(m, "find", FALSE, <<>>))
  <2>1. <<>> \in Seq(Hooks)
    OBVIOUS
  <2> QED
    BY <2>1, FramesTyped DEF Import, ImportFrame
<1>2. StackOK' /\ Pushed(t, ImportFrame(m, "find", FALSE, <<>>))
  BY <1>1, CallPushes DEF HookTypes
<1> QED
  BY <1>2 DEF Import, HookTypes, MayImport

LEMMA FindSpecEffect ==
    ASSUME HookTypes, NEW t \in Threads, FindSpec(t)
    PROVE  /\ HookTypes' /\ ~Idle(t)
           /\ \E m \in Modules, c \in BOOLEAN, q \in Seq(Hooks) :
                 /\ Top(t) = ImportFrame(m, "find", c, q)
                 /\ \/ Popped(t) /\ UNCHANGED <<sysModules, live>>
                    \/ /\ Replaced(t, ImportFrame(m, "exec", Claims(m), <<>>))
                       /\ sysModules' = [sysModules EXCEPT ![m] = "executing"]
                       /\ live' = live \ StoredIn(m)
           /\ UNCHANGED <<pending, keys, finder, status, reported>>
<1> DEFINE m == Top(t).mod
           q == Top(t).hooks
           c == Top(t).claimed
<1>1. /\ ~Idle(t) /\ m \in Modules /\ c \in BOOLEAN /\ q \in Seq(Hooks)
      /\ Top(t) = ImportFrame(m, "find", c, q)
  BY InnermostImports DEF HookTypes, FindSpec, At
<1>2. UNCHANGED <<pending, keys, finder, status, reported>>
  BY DEF FindSpec
<1>3. CASE m \in Uninstalled
  <2>1. Raise(t) /\ UNCHANGED <<sysModules, live>>
    BY <1>3 DEF FindSpec
  <2>2. StackOK' /\ Popped(t)
    BY <1>1, <2>1, RaisePops DEF HookTypes
  <2>3. HookTypes'
    BY <1>2, <2>1, <2>2 DEF HookTypes
  <2> QED
    BY <1>1, <1>2, <2>1, <2>2, <2>3
<1>4. CASE m \notin Uninstalled
  <2>1. /\ Become(t, ImportFrame(m, "exec", Claims(m), <<>>))
        /\ sysModules' = [sysModules EXCEPT ![m] = "executing"]
        /\ live' = live \ StoredIn(m)
    BY <1>4 DEF FindSpec
  <2>2. Claims(m) \in BOOLEAN /\ <<>> \in Seq(Hooks)
    BY DEF HookTypes, Claims
  <2>3. StackOK' /\ Replaced(t, ImportFrame(m, "exec", Claims(m), <<>>))
    BY <1>1, <2>1, <2>2, FramesTyped, BecomeReplaces DEF HookTypes
  <2>4. HookTypes'
    BY <1>1, <1>2, <2>1, <2>3 DEF HookTypes
  <2> QED
    BY <1>1, <1>2, <2>1, <2>3, <2>4
<1> QED
  BY <1>3, <1>4

LEMMA FinishBodyEffect ==
    ASSUME HookTypes, NEW t \in Threads, FinishBody(t)
    PROVE  /\ HookTypes' /\ ~Idle(t)
           /\ \E m \in Modules, c \in BOOLEAN, q \in Seq(Hooks) :
                 /\ Top(t) = ImportFrame(m, "exec", c, q)
                 /\ live' \subseteq live /\ live \ StoredIn(m) \subseteq live'
                 /\ \/ /\ c
                       /\ Replaced(t, ImportFrame(m, "fire", TRUE, pending[m]))
                       /\ pending' = [pending EXCEPT ![m] = <<>>]
                       /\ keys' = RemoveFirst(keys, m)
                       /\ UNCHANGED sysModules
                    \/ /\ ~c /\ Popped(t)
                       /\ sysModules' = [sysModules EXCEPT ![m] = "loaded"]
                       /\ UNCHANGED <<pending, keys>>
           /\ UNCHANGED <<finder, status, reported>>
<1> DEFINE m == Top(t).mod
           q == Top(t).hooks
           c == Top(t).claimed
<1>1. /\ ~Idle(t) /\ m \in Modules /\ c \in BOOLEAN /\ q \in Seq(Hooks)
      /\ Top(t) = ImportFrame(m, "exec", c, q)
  BY InnermostImports DEF HookTypes, FinishBody, RunsBody, At
<1>2. /\ UNCHANGED <<finder, status, reported>>
      /\ live' \subseteq live /\ live \ StoredIn(m) \subseteq live'
  BY DEF FinishBody
<1>3. CASE c
  <2>1. /\ Become(t, ImportFrame(m, "fire", TRUE, pending[m]))
        /\ pending' = [pending EXCEPT ![m] = <<>>] /\ keys' = RemoveFirst(keys, m)
        /\ UNCHANGED sysModules
    BY <1>3 DEF FinishBody, TakeQueue
  <2>2. StackOK' /\ Replaced(t, ImportFrame(m, "fire", TRUE, pending[m]))
    BY <1>1, <2>1, FramesTyped, BecomeReplaces DEF HookTypes
  <2>3. <<>> \in Seq(Hooks) /\ RemoveFirst(keys, m) \in Seq(Modules)
    BY RemoveElement DEF HookTypes
  <2>4. HookTypes'
    BY <1>2, <2>1, <2>2, <2>3 DEF HookTypes
  <2> QED
    BY <1>1, <1>2, <1>3, <2>1, <2>2, <2>4
<1>4. CASE ~c
  <2>1. /\ Return(t) /\ sysModules' = [sysModules EXCEPT ![m] = "loaded"]
        /\ UNCHANGED <<pending, keys>>
    BY <1>4 DEF FinishBody
  <2>2. StackOK' /\ Popped(t)
    BY <1>1, <2>1, ReturnPops DEF HookTypes
  <2>3. HookTypes'
    BY <1>1, <1>2, <2>1, <2>2 DEF HookTypes
  <2> QED
    BY <1>1, <1>2, <1>4, <2>1, <2>2, <2>3
<1> QED
  BY <1>3, <1>4

LEMMA BodyRaisesEffect ==
    ASSUME HookTypes, NEW t \in Threads, BodyRaises(t)
    PROVE  /\ HookTypes' /\ ~Idle(t) /\ Popped(t)
           /\ \E m \in Modules, c \in BOOLEAN, q \in Seq(Hooks) :
                 /\ Top(t) = ImportFrame(m, "exec", c, q)
                 /\ sysModules' = [sysModules EXCEPT ![m] = "absent"]
                 /\ live' = live \ StoredIn(m)
           /\ UNCHANGED <<pending, keys, finder, status, reported>>
<1> DEFINE m == Top(t).mod
<1>1. /\ ~Idle(t) /\ m \in Modules /\ Top(t).claimed \in BOOLEAN /\ Top(t).hooks \in Seq(Hooks)
      /\ Top(t) = ImportFrame(m, "exec", Top(t).claimed, Top(t).hooks)
  BY InnermostImports DEF HookTypes, BodyRaises, RunsBody, At
<1>2. StackOK' /\ Popped(t)
  BY <1>1, RaisePops DEF HookTypes, BodyRaises
<1>3. /\ sysModules' = [sysModules EXCEPT ![m] = "absent"] /\ live' = live \ StoredIn(m)
      /\ UNCHANGED <<pending, keys, finder, status, reported>>
  BY DEF BodyRaises, DropModule
<1>4. HookTypes'
  BY <1>1, <1>2, <1>3 DEF HookTypes
<1> QED
  BY <1>1, <1>2, <1>3, <1>4

LEMMA FireNextEffect ==
    ASSUME HookTypes, NEW t \in Threads, FireNext(t)
    PROVE  /\ HookTypes' /\ ~Idle(t)
           /\ \E m \in Modules, c \in BOOLEAN, q \in Seq(Hooks) :
                 /\ Top(t) = ImportFrame(m, "fire", c, q) /\ q # <<>>
                 /\ HookReturns(Head(q))
                 /\ Replaced(t, ImportFrame(m, "fire", TRUE, Tail(q)))
           /\ UNCHANGED <<sysModules, pending, keys, finder, reported>>
<1> DEFINE m == Top(t).mod
           q == Top(t).hooks
           c == Top(t).claimed
<1>1. /\ ~Idle(t) /\ m \in Modules /\ c \in BOOLEAN /\ q \in Seq(Hooks)
      /\ Top(t) = ImportFrame(m, "fire", c, q) /\ q # <<>>
  BY InnermostImports DEF HookTypes, FireNext, At
<1>2. Become(t, ImportFrame(m, "fire", TRUE, Tail(q)))
  BY DEF FireNext
<1>3. Tail(q) \in Seq(Hooks) /\ Head(q) \in Hooks
  BY <1>1, TailElements
<1>4. StackOK' /\ Replaced(t, ImportFrame(m, "fire", TRUE, Tail(q)))
  BY <1>1, <1>2, <1>3, FramesTyped, BecomeReplaces DEF HookTypes
<1>5. HookReturns(Head(q)) /\ UNCHANGED <<sysModules, pending, keys, finder, reported>>
  BY DEF FireNext
<1>6. HookTypes'
  BY <1>3, <1>4, <1>5 DEF HookTypes, HookReturns
<1> QED
  BY <1>1, <1>4, <1>5, <1>6

LEMMA FireRaisesEffect ==
    ASSUME HookTypes, NEW t \in Threads, FireRaises(t)
    PROVE  /\ HookTypes' /\ ~Idle(t) /\ Popped(t)
           /\ \E m \in Modules, c \in BOOLEAN, q \in Seq(Hooks) :
                 /\ Top(t) = ImportFrame(m, "fire", c, q) /\ q # <<>>
                 /\ pending' = [pending EXCEPT ![m] = q]
                 /\ keys' = IF pending[m] = <<>> THEN Append(keys, m) ELSE keys
                 /\ sysModules' = [sysModules EXCEPT ![m] = "absent"]
                 /\ live' = live \ StoredIn(m)
           /\ UNCHANGED <<finder, status, reported>>
<1> DEFINE m == Top(t).mod
           q == Top(t).hooks
<1>1. /\ ~Idle(t) /\ m \in Modules /\ Top(t).claimed \in BOOLEAN /\ q \in Seq(Hooks)
      /\ Top(t) = ImportFrame(m, "fire", Top(t).claimed, q) /\ q # <<>>
  BY InnermostImports DEF HookTypes, FireRaises, At
<1>2. StackOK' /\ Popped(t)
  BY <1>1, RaisePops DEF HookTypes, FireRaises
<1>3. /\ pending' = [pending EXCEPT ![m] = q]
      /\ keys' = IF pending[m] = <<>> THEN Append(keys, m) ELSE keys
      /\ sysModules' = [sysModules EXCEPT ![m] = "absent"] /\ live' = live \ StoredIn(m)
      /\ UNCHANGED <<finder, status, reported>>
  BY DEF FireRaises, PutBack, DropModule
<1>4. HookTypes'
  <2>1. keys' \in Seq(Modules)
    BY <1>1, <1>3, AppendProperties DEF HookTypes
  <2> QED
    BY <1>1, <1>2, <1>3, <2>1 DEF HookTypes
<1> QED
  BY <1>1, <1>2, <1>3, <1>4

LEMMA FireDoneEffect ==
    ASSUME HookTypes, NEW t \in Threads, FireDone(t)
    PROVE  /\ HookTypes' /\ ~Idle(t) /\ Popped(t)
           /\ \E m \in Modules, c \in BOOLEAN :
                 /\ Top(t) = ImportFrame(m, "fire", c, <<>>)
                 /\ sysModules' = [sysModules EXCEPT ![m] = "loaded"]
           /\ UNCHANGED <<pending, keys, finder, status, live, reported>>
<1> DEFINE m == Top(t).mod
<1>1. /\ ~Idle(t) /\ m \in Modules /\ Top(t).claimed \in BOOLEAN
      /\ Top(t) = ImportFrame(m, "fire", Top(t).claimed, <<>>)
  BY InnermostImports DEF HookTypes, FireDone, At
<1>2. StackOK' /\ Popped(t)
  BY <1>1, ReturnPops DEF HookTypes, FireDone
<1>3. /\ sysModules' = [sysModules EXCEPT ![m] = "loaded"]
      /\ UNCHANGED <<pending, keys, finder, status, live, reported>>
  BY DEF FireDone
<1>4. HookTypes'
  BY <1>1, <1>2, <1>3 DEF HookTypes
<1> QED
  BY <1>1, <1>2, <1>3, <1>4

LEMMA ApplyAllEffect ==
    ASSUME HookTypes, NEW t \in Threads, ApplyAll(t)
    PROVE  /\ HookTypes' /\ Idle(t)
           /\ Pushed(t, ApplyFrame(keys, UNION {ToSet(pending[m]) : m \in Modules}))
           /\ UNCHANGED <<sysModules, pending, keys, finder, status, live, reported>>
<1> DEFINE asked == UNION {ToSet(pending[m]) : m \in Modules}
<1>1. asked \in SUBSET Hooks
  BY DEF HookTypes, ToSet
<1>2. Call(t, ApplyFrame(keys, asked))
  BY DEF ApplyAll, ApplyFrame
<1>3. StackOK' /\ Pushed(t, ApplyFrame(keys, asked))
  BY <1>1, <1>2, FramesTyped, CallPushes DEF HookTypes
<1> QED
  BY <1>3 DEF ApplyAll, HookTypes

LEMMA ApplyAllNextEffect ==
    ASSUME HookTypes, NEW t \in Threads, ApplyAllNext(t)
    PROVE  /\ HookTypes' /\ ~Idle(t)
           /\ \E todo \in Seq(Modules), asked \in SUBSET Hooks :
                 /\ Top(t) = ApplyFrame(todo, asked) /\ todo # <<>>
                 /\ sysModules[Head(todo)] = "loaded"
                 /\ Replaced(t, ApplyFrame(Tail(todo), asked))
           /\ UNCHANGED <<sysModules, pending, keys, finder, status, live, reported>>
<1> DEFINE todo == Top(t).todo
           asked == Top(t).asked
<1>1. /\ ~Idle(t) /\ todo \in Seq(Modules) /\ asked \in SUBSET Hooks
      /\ Top(t) = ApplyFrame(todo, asked) /\ todo # <<>> /\ sysModules[Head(todo)] = "loaded"
  BY InnermostApplies DEF HookTypes, ApplyAllNext
<1>2. Become(t, ApplyFrame(Tail(todo), asked))
  BY DEF ApplyAllNext
<1>3. StackOK' /\ Replaced(t, ApplyFrame(Tail(todo), asked))
  BY <1>1, <1>2, TailElements, FramesTyped, BecomeReplaces DEF HookTypes
<1> QED
  BY <1>1, <1>3 DEF ApplyAllNext, HookTypes

LEMMA ApplyAllDoneEffect ==
    ASSUME HookTypes, NEW t \in Threads, ApplyAllDone(t)
    PROVE  /\ HookTypes' /\ ~Idle(t) /\ Popped(t)
           /\ Top(t).op = "apply_all"
           /\ UNCHANGED <<sysModules, pending, keys, finder, status, live, reported>>
BY ReturnPops DEF HookTypes, ApplyAllDone, InFrame

--------------------------------------------------------------------------------
(* The frames before and after a step.                                     *)

\* Where frames of a given kind are after a step: those of before, less the innermost
\* frame of t (and an apply_all() below it), with f as the innermost frame of t.
LEMMA PushedFrames ==
    ASSUME StackOK, NEW t \in Threads, NEW f, Pushed(t, f)
    PROVE  /\ Depth(t)' = Depth(t) + 1 /\ Depth(t)' \in Frames(t)' /\ stack'[t][Depth(t)'] = f
           /\ \A u \in Threads : u # t => Depth(u)' = Depth(u)
           /\ \A u \in Threads : \A i \in Frames(u) :
                 i \in Frames(u)' /\ stack'[u][i] = stack[u][i]
           /\ \A u \in Threads : \A i \in Frames(u)' :
                 \/ u = t /\ i = Depth(t)' /\ stack'[u][i] = f
                 \/ i \in Frames(u) /\ stack'[u][i] = stack[u][i]
<1>1. \A u \in Threads : Depth(u) \in Nat
  BY FrameAt
<1>2. /\ Depth(t)' = Depth(t) + 1 /\ stack'[t][Depth(t) + 1] = f
      /\ \A u \in Threads : u # t => Depth(u)' = Depth(u) /\ stack'[u] = stack[u]
      /\ \A i \in Frames(t) : stack'[t][i] = stack[t][i]
  BY DEF Pushed, Depth
<1>3. /\ Frames(t)' = 1 .. Depth(t) + 1 /\ Frames(t) = 1 .. Depth(t)
      /\ \A u \in Threads : u # t => Frames(u)' = Frames(u)
  BY <1>2 DEF Frames
<1>4. /\ \A i \in Frames(t) : i \in Frames(t)'
      /\ \A i \in Frames(t)' : i = Depth(t) + 1 \/ i \in Frames(t)
      /\ Depth(t) + 1 \in Frames(t)'
  BY <1>1, <1>3
<1> QED
  BY <1>2, <1>3, <1>4

LEMMA ReplacedFrames ==
    ASSUME StackOK, NEW t \in Threads, NEW f, Replaced(t, f)
    PROVE  /\ Depth(t) \in Frames(t) /\ Depth(t) \in Frames(t)' /\ stack'[t][Depth(t)] = f
           /\ \A u \in Threads : Depth(u)' = Depth(u) /\ Frames(u)' = Frames(u)
           /\ \A u \in Threads : \A i \in Frames(u) :
                 (u = t /\ i = Depth(t)) \/ stack'[u][i] = stack[u][i]
<1>1. \A u \in Threads : Depth(u) \in Nat
  BY FrameAt
<1> QED
  BY <1>1 DEF Replaced, Frames, Depth

LEMMA PoppedFrames ==
    ASSUME StackOK, NEW t \in Threads, ~Idle(t), Popped(t)
    PROVE  /\ Depth(t)' < Depth(t)
           /\ \A u \in Threads : u # t => Depth(u)' = Depth(u)
           /\ \A u \in Threads : \A i \in Frames(u)' :
                 i \in Frames(u) /\ stack'[u][i] = stack[u][i] /\ (u # t \/ i # Depth(t))
           /\ \A u \in Threads : \A i \in Frames(u) :
                 \/ i \in Frames(u)'
                 \/ u = t /\ i = Depth(t)
                 \/ u = t /\ stack[u][i].op = "apply_all"
<1>1. \A u \in Threads : Depth(u) \in Nat
  BY FrameAt
<1> QED
  BY <1>1 DEF Popped, Frames, Depth

--------------------------------------------------------------------------------
(* The calls.                                                              *)

LEMMA ImportingFrames ==
    /\ StackOK => \A t \in Threads, m \in Modules :
          Importing(t, m) <=> \E i \in Frames(t) : Imports(t, i) /\ stack[t][i].mod = m
    /\ StackOK' => \A t \in Threads, m \in Modules :
          Importing(t, m)' <=>
             \E i \in Frames(t)' : stack'[t][i].op = "import" /\ stack'[t][i].mod = m
<1>1. StackOK => \A t \in Threads : DOMAIN stack[t] = Frames(t)
  BY DEF StackOK, Frames, Depth
<1>2. StackOK' => \A t \in Threads : DOMAIN stack'[t] = Frames(t)'
  BY DEF StackOK, Frames, Depth
<1> QED
  BY <1>1, <1>2 DEF Importing, Imports

\* The frame that calls is neither a decorator nor an import that looks for its module.
LEMMA Callers ==
    ASSUME StackOK, CallInv, NEW t \in Threads,
           Idle(t) \/ RunsBody(t) \/ At(t, "import", "fire") \/ InFrame(t, "apply_all")
    PROVE  \A i \in Frames(t) : ~(Declares(t, i) \/ (Imports(t, i) /\ stack[t][i].pc = "find"))
BY TopFrame DEF CallInv, InnermostOnly, RunsBody, At, InFrame, Idle, Frames, Depth,
                Imports, Declares

LEMMA CallsAfterPush ==
    ASSUME StackOK, StackOK', CallInv, NEW t \in Threads, NEW f \in Frame, Pushed(t, f),
           Idle(t) \/ RunsBody(t) \/ At(t, "import", "fire") \/ InFrame(t, "apply_all"),
           f.op # "import", UNCHANGED <<sysModules, finder>>
    PROVE  CallInv'
<1> USE DEF Imports, Declares
<1>1. /\ \A u \in Threads : \A i \in Frames(u) : i \in Frames(u)' /\ stack'[u][i] = stack[u][i]
      /\ \A u \in Threads : \A i \in Frames(u)' :
            \/ u = t /\ i = Depth(t)' /\ stack'[u][i] = f
            \/ i \in Frames(u) /\ stack'[u][i] = stack[u][i]
      /\ \A u \in Threads : u # t => Depth(u)' = Depth(u)
  BY PushedFrames
<1>2. InnermostOnly'
  BY <1>1, Callers DEF CallInv, InnermostOnly
<1>3. OneImport'
  BY <1>1 DEF CallInv, OneImport
<1>4. ImportProgress'
  BY <1>1 DEF CallInv, ImportProgress
<1>5. ExecutingIsImported'
  BY <1>1, ImportingFrames DEF CallInv, ExecutingIsImported
<1> QED
  BY <1>2, <1>3, <1>4, <1>5 DEF CallInv

LEMMA CallsAfterImport ==
    ASSUME HookTypes, HookTypes', CallInv, NEW t \in Threads, NEW m \in Modules, Import(t, m)
    PROVE  CallInv'
<1> USE DEF Imports, Declares
<1> DEFINE f == ImportFrame(m, "find", FALSE, <<>>)
<1>1. StackOK /\ StackOK'
  BY DEF HookTypes
<1>2. /\ sysModules[m] = "absent" /\ \A u \in Threads : ~Importing(u, m)
      /\ Pushed(t, f)
      /\ Idle(t) \/ RunsBody(t) \/ At(t, "import", "fire") \/ InFrame(t, "apply_all")
      /\ UNCHANGED <<sysModules, finder>>
  BY ImportEffect
<1>3. /\ \A u \in Threads : \A i \in Frames(u) : i \in Frames(u)' /\ stack'[u][i] = stack[u][i]
      /\ \A u \in Threads : \A i \in Frames(u)' :
            \/ u = t /\ i = Depth(t)' /\ stack'[u][i] = f
            \/ i \in Frames(u) /\ stack'[u][i] = stack[u][i]
      /\ \A u \in Threads : u # t => Depth(u)' = Depth(u)
  BY <1>1, <1>2, PushedFrames
<1>4. f.op = "import" /\ f.mod = m /\ f.pc = "find" /\ f.claimed = FALSE /\ f.hooks = <<>>
  BY DEF ImportFrame
<1> HIDE DEF f
<1>5. InnermostOnly'
  BY <1>1, <1>2, <1>3, Callers DEF CallInv, InnermostOnly
<1>6. OneImport'
  <2>1. \A u \in Threads : \A i \in Frames(u) : ~(Imports(u, i) /\ stack[u][i].mod = m)
    BY <1>1, <1>2, ImportingFrames
  <2> QED
    BY <1>3, <1>4, <2>1 DEF CallInv, OneImport
<1>7. ImportProgress'
  BY <1>2, <1>3, <1>4 DEF CallInv, ImportProgress
<1>8. ExecutingIsImported'
  BY <1>1, <1>2, <1>3, ImportingFrames DEF CallInv, ExecutingIsImported
<1> QED
  BY <1>5, <1>6, <1>7, <1>8 DEF CallInv

\* An import goes on to the next phase.
LEMMA CallsAfterProgress ==
    ASSUME HookTypes, HookTypes', CallInv, NEW t \in Threads, ~Idle(t),
           NEW m \in Modules, Top(t).op = "import", Top(t).mod = m,
           NEW f, Replaced(t, f), f.op = "import", f.mod = m, f.pc \in {"exec", "fire"},
           f.pc = "exec" => f.hooks = <<>>, f.pc = "fire" => f.claimed, f.claimed => finder /\ m \notin Namespaces,
           sysModules' = [sysModules EXCEPT ![m] = "executing"], UNCHANGED finder
    PROVE  CallInv'
<1> USE DEF Imports, Declares
<1>1. StackOK /\ StackOK'
  BY DEF HookTypes
<1>2. /\ Depth(t) \in Frames(t) /\ stack'[t][Depth(t)] = f
      /\ \A u \in Threads : Depth(u)' = Depth(u) /\ Frames(u)' = Frames(u)
      /\ \A u \in Threads : \A i \in Frames(u) :
            (u = t /\ i = Depth(t)) \/ stack'[u][i] = stack[u][i]
  BY <1>1, ReplacedFrames
<1>3. stack[t][Depth(t)].op = "import" /\ stack[t][Depth(t)].mod = m
  BY <1>1, TopFrame
<1>4. \A u \in Threads : \A i \in Frames(u) :
         /\ stack'[u][i].op = "import" <=> stack[u][i].op = "import"
         /\ stack[u][i].op = "import" => stack'[u][i].mod = stack[u][i].mod
  BY <1>2, <1>3
<1>5. InnermostOnly'
  BY <1>2 DEF CallInv, InnermostOnly
<1>6. OneImport'
  BY <1>2, <1>4 DEF CallInv, OneImport
<1>7. ImportProgress'
  <2> SUFFICES ASSUME NEW u \in Threads, NEW i \in Frames(u), stack'[u][i].op = "import"
               PROVE  LET g == stack'[u][i]
                      IN  /\ sysModules'[g.mod] = IF g.pc = "find" THEN "absent" ELSE "executing"
                          /\ g.pc # "fire" => g.hooks = <<>>
                          /\ g.pc = "find" => ~g.claimed
                          /\ g.pc = "fire" => g.claimed
                          /\ g.claimed => finder' /\ g.mod \notin Namespaces
    BY <1>2 DEF ImportProgress
  <2>1. CASE u = t /\ i = Depth(t)
    BY <1>2, <2>1 DEF HookTypes
  <2>2. CASE ~(u = t /\ i = Depth(t))
    <3>1. stack'[u][i] = stack[u][i] /\ stack[u][i].mod # m
      BY <1>2, <1>3, <2>2 DEF CallInv, OneImport
    <3>2. stack[u][i].mod \in Modules
      BY <1>1, <3>1, FrameAt, FrameTypes
    <3> QED
      BY <3>1, <3>2 DEF CallInv, ImportProgress, HookTypes
  <2> QED
    BY <2>1, <2>2
<1>8. ExecutingIsImported'
  <2>1. \A u \in Threads, n \in Modules : Importing(u, n)' <=> Importing(u, n)
    BY <1>1, <1>2, <1>4, ImportingFrames
  <2>2. Importing(t, m)
    BY <1>1, <1>2, <1>3, ImportingFrames
  <2> QED
    BY <2>1, <2>2 DEF CallInv, ExecutingIsImported, HookTypes
<1> QED
  BY <1>5, <1>6, <1>7, <1>8 DEF CallInv

\* A call goes on that is no import.
LEMMA CallsAfterReplace ==
    ASSUME StackOK, StackOK', CallInv, NEW t \in Threads, ~Idle(t), Top(t).op # "import",
           NEW f, Replaced(t, f), f.op = Top(t).op, UNCHANGED <<sysModules, finder>>
    PROVE  CallInv'
<1> USE DEF Imports, Declares
<1>1. /\ Depth(t) \in Frames(t) /\ stack'[t][Depth(t)] = f
      /\ \A u \in Threads : Depth(u)' = Depth(u) /\ Frames(u)' = Frames(u)
      /\ \A u \in Threads : \A i \in Frames(u) :
            (u = t /\ i = Depth(t)) \/ stack'[u][i] = stack[u][i]
      /\ stack[t][Depth(t)].op # "import" /\ f.op # "import"
  BY ReplacedFrames, TopFrame
<1>2. \A u \in Threads : \A i \in Frames(u) :
         /\ stack'[u][i].op = "import" => stack'[u][i] = stack[u][i]
         /\ stack[u][i].op = "import" => stack'[u][i] = stack[u][i]
  BY <1>1
<1>3. InnermostOnly'
  BY <1>1 DEF CallInv, InnermostOnly
<1>4. OneImport'
  BY <1>1, <1>2 DEF CallInv, OneImport
<1>5. ImportProgress'
  BY <1>1, <1>2 DEF CallInv, ImportProgress
<1>6. ExecutingIsImported'
  BY <1>1, <1>2, ImportingFrames DEF CallInv, ExecutingIsImported
<1> QED
  BY <1>3, <1>4, <1>5, <1>6 DEF CallInv

\* An import ends, one way or the other.
LEMMA CallsAfterImportEnds ==
    ASSUME HookTypes, HookTypes', CallInv, NEW t \in Threads, ~Idle(t),
           NEW m \in Modules, Top(t).op = "import", Top(t).mod = m,
           Popped(t), NEW end \in {"absent", "loaded"},
           sysModules' = [sysModules EXCEPT ![m] = end], UNCHANGED finder
    PROVE  CallInv'
<1> USE DEF Imports, Declares
<1>1. StackOK /\ StackOK'
  BY DEF HookTypes
<1>2. /\ \A u \in Threads : u # t => Depth(u)' = Depth(u)
      /\ Depth(t)' < Depth(t)
      /\ \A u \in Threads : \A i \in Frames(u)' :
            i \in Frames(u) /\ stack'[u][i] = stack[u][i] /\ (u # t \/ i # Depth(t))
      /\ \A u \in Threads : \A i \in Frames(u) :
            \/ i \in Frames(u)'
            \/ u = t /\ i = Depth(t)
            \/ u = t /\ stack[u][i].op = "apply_all"
  BY <1>1, PoppedFrames
<1>3. Depth(t) \in Frames(t) /\ stack[t][Depth(t)].op = "import" /\ stack[t][Depth(t)].mod = m
  BY <1>1, TopFrame
<1>4. InnermostOnly'
  BY <1>2 DEF CallInv, InnermostOnly
<1>5. OneImport'
  BY <1>2 DEF CallInv, OneImport
<1>6. ImportProgress'
  <2> SUFFICES ASSUME NEW u \in Threads, NEW i \in Frames(u)', stack'[u][i].op = "import"
               PROVE  LET g == stack'[u][i]
                      IN  /\ sysModules'[g.mod] = IF g.pc = "find" THEN "absent" ELSE "executing"
                          /\ g.pc # "fire" => g.hooks = <<>>
                          /\ g.pc = "find" => ~g.claimed
                          /\ g.pc = "fire" => g.claimed
                          /\ g.claimed => finder' /\ g.mod \notin Namespaces
    BY DEF ImportProgress
  <2>1. i \in Frames(u) /\ stack'[u][i] = stack[u][i] /\ stack[u][i].mod # m
    BY <1>2, <1>3 DEF CallInv, OneImport
  <2>2. stack[u][i].mod \in Modules
    BY <1>1, <2>1, FrameAt, FrameTypes
  <2> QED
    BY <2>1, <2>2 DEF CallInv, ImportProgress, HookTypes
<1>7. ExecutingIsImported'
  <2> SUFFICES ASSUME NEW n \in Modules, sysModules'[n] = "executing"
               PROVE  \E u \in Threads : Importing(u, n)'
    BY DEF ExecutingIsImported
  <2>1. n # m /\ sysModules[n] = "executing"
    BY DEF HookTypes
  <2>2. PICK u \in Threads :
            \E i \in Frames(u) : stack[u][i].op = "import" /\ stack[u][i].mod = n
    BY <1>1, <2>1, ImportingFrames DEF CallInv, ExecutingIsImported
  <2>3. \E i \in Frames(u)' : stack'[u][i].op = "import" /\ stack'[u][i].mod = n
    BY <1>2, <1>3, <2>1, <2>2
  <2> QED
    BY <1>1, <2>3, ImportingFrames
<1> QED
  BY <1>4, <1>5, <1>6, <1>7 DEF CallInv

\* A call returns that is no import.
LEMMA CallsAfterReturn ==
    ASSUME StackOK, StackOK', CallInv, NEW t \in Threads, ~Idle(t), Top(t).op # "import",
           Popped(t), UNCHANGED sysModules, finder => finder'
    PROVE  CallInv'
<1> USE DEF Imports, Declares
<1>1. /\ \A u \in Threads : u # t => Depth(u)' = Depth(u)
      /\ Depth(t)' < Depth(t)
      /\ \A u \in Threads : \A i \in Frames(u)' :
            i \in Frames(u) /\ stack'[u][i] = stack[u][i] /\ (u # t \/ i # Depth(t))
      /\ \A u \in Threads : \A i \in Frames(u) :
            \/ i \in Frames(u)'
            \/ u = t /\ i = Depth(t)
            \/ u = t /\ stack[u][i].op = "apply_all"
  BY PoppedFrames
<1>2. stack[t][Depth(t)].op # "import"
  BY TopFrame
<1>3. InnermostOnly'
  BY <1>1 DEF CallInv, InnermostOnly
<1>4. OneImport'
  BY <1>1 DEF CallInv, OneImport
<1>5. ImportProgress'
  BY <1>1 DEF CallInv, ImportProgress
<1>6. ExecutingIsImported'
  BY <1>1, <1>2, ImportingFrames DEF CallInv, ExecutingIsImported
<1> QED
  BY <1>3, <1>4, <1>5, <1>6 DEF CallInv

\* What the innermost import knows.
LEMMA InnermostProgress ==
    ASSUME HookTypes, CallInv, NEW t \in Threads, ~Idle(t), Top(t).op = "import"
    PROVE  /\ Depth(t) \in Frames(t) /\ stack[t][Depth(t)] = Top(t)
           /\ Top(t).mod \in Modules
           /\ sysModules[Top(t).mod] = IF Top(t).pc = "find" THEN "absent" ELSE "executing"
           /\ Top(t).pc # "fire" => Top(t).hooks = <<>>
           /\ Top(t).pc = "find" => ~Top(t).claimed
           /\ Top(t).pc = "fire" => Top(t).claimed
           /\ Top(t).claimed => finder /\ Top(t).mod \notin Namespaces
           /\ \A u \in Threads : \A i \in Frames(u) :
                 Imports(u, i) /\ stack[u][i].mod = Top(t).mod => u = t /\ i = Depth(t)
<1>1. Depth(t) \in Frames(t) /\ stack[t][Depth(t)] = Top(t) /\ Top(t).mod \in Modules
  BY TopFrame, FrameTypes DEF HookTypes
<1>2. \A u \in Threads : \A i \in Frames(u) :
         Imports(u, i) /\ stack[u][i].mod = Top(t).mod => u = t /\ i = Depth(t)
  BY <1>1 DEF CallInv, OneImport, Imports
<1> QED
  BY <1>1, <1>2 DEF CallInv, ImportProgress, Imports

LEMMA CallStep ==
    ASSUME HookTypes, CallInv, NEW t \in Threads, Step(t)
    PROVE  HookTypes' /\ CallInv'
<1>1. StackOK
  BY DEF HookTypes
<1>2. ASSUME NEW h \in Hooks, Declare(t, h) PROVE HookTypes' /\ CallInv'
  <2>1. PICK pc \in {"queue", "run"} : Pushed(t, DeclareFrame(h, pc))
    BY <1>2, DeclareEffect
  <2>2. DeclareFrame(h, pc) \in Frame /\ DeclareFrame(h, pc).op = "declare"
    BY FramesTyped, FrameFields
  <2> QED
    BY <1>1, <1>2, <2>1, <2>2, DeclareEffect, CallsAfterPush DEF HookTypes
<1>3. ASSUME NEW m \in Modules, Import(t, m) PROVE HookTypes' /\ CallInv'
  BY <1>3, ImportEffect, CallsAfterImport
<1>4. CASE QueueHook(t)
  <2>1. PICK h \in Hooks : Top(t) = DeclareFrame(h, "queue") /\ Replaced(t, DeclareFrame(h, "install"))
    BY <1>4, QueueHookEffect
  <2>2. Top(t).op = "declare" /\ DeclareFrame(h, "install").op = "declare"
    BY <2>1, FrameFields
  <2> QED
    BY <1>1, <1>4, <2>1, <2>2, QueueHookEffect, CallsAfterReplace DEF HookTypes
<1>5. CASE InstallFinder(t)
  BY <1>1, <1>5, InstallFinderEffect, CallsAfterReturn DEF HookTypes
<1>6. CASE RunNow(t)
  <2>1. PICK h \in Hooks : Top(t) = DeclareFrame(h, "run")
    BY <1>6, RunNowEffect
  <2>2. Top(t).op # "import"
    BY <2>1, FrameFields
  <2> QED
    BY <1>1, <1>6, <2>2, RunNowEffect, CallsAfterReturn DEF HookTypes
<1>7. CASE FindSpec(t)
  <2>1. PICK m \in Modules, c \in BOOLEAN, q \in Seq(Hooks) :
            /\ Top(t) = ImportFrame(m, "find", c, q)
            /\ \/ Popped(t) /\ UNCHANGED <<sysModules, live>>
               \/ /\ Replaced(t, ImportFrame(m, "exec", Claims(m), <<>>))
                  /\ sysModules' = [sysModules EXCEPT ![m] = "executing"]
    BY <1>7, FindSpecEffect
  <2>2. /\ HookTypes' /\ ~Idle(t) /\ UNCHANGED finder
        /\ Top(t).op = "import" /\ Top(t).mod = m
    BY <1>7, <2>1, FindSpecEffect DEF ImportFrame
  <2>3. CASE Popped(t) /\ UNCHANGED sysModules
    <3>1. sysModules[m] = "absent"
      BY <2>1, <2>2, InnermostProgress DEF ImportFrame
    <3>2. sysModules' = [sysModules EXCEPT ![m] = "absent"]
      BY <2>3, <3>1 DEF HookTypes
    <3> QED
      BY <2>2, <2>3, <3>2, CallsAfterImportEnds
  <2>4. CASE /\ Replaced(t, ImportFrame(m, "exec", Claims(m), <<>>))
             /\ sysModules' = [sysModules EXCEPT ![m] = "executing"]
    <3> DEFINE f == ImportFrame(m, "exec", Claims(m), <<>>)
    <3>1. /\ f.op = "import" /\ f.mod = m /\ f.pc = "exec" /\ f.claimed = Claims(m)
          /\ f.hooks = <<>> /\ Replaced(t, f)
      BY <2>4 DEF ImportFrame
    <3> HIDE DEF f
    <3>2. f.claimed => finder /\ m \notin Namespaces
      BY <3>1 DEF Claims
    <3> QED
      BY <2>2, <2>4, <3>1, <3>2, CallsAfterProgress
  <2> QED
    BY <2>1, <2>3, <2>4
<1>8. CASE FinishBody(t)
  <2>1. PICK m \in Modules, c \in BOOLEAN, q \in Seq(Hooks) :
            /\ Top(t) = ImportFrame(m, "exec", c, q)
            /\ \/ /\ c /\ Replaced(t, ImportFrame(m, "fire", TRUE, pending[m]))
                  /\ UNCHANGED sysModules
               \/ /\ Popped(t) /\ sysModules' = [sysModules EXCEPT ![m] = "loaded"]
    BY <1>8, FinishBodyEffect
  <2>2. /\ HookTypes' /\ ~Idle(t) /\ UNCHANGED finder
        /\ Top(t).op = "import" /\ Top(t).mod = m
    BY <1>8, <2>1, FinishBodyEffect DEF ImportFrame
  <2>3. CASE c /\ Replaced(t, ImportFrame(m, "fire", TRUE, pending[m])) /\ UNCHANGED sysModules
    <3> DEFINE f == ImportFrame(m, "fire", TRUE, pending[m])
    <3>1. /\ f.op = "import" /\ f.mod = m /\ f.pc = "fire" /\ f.claimed = TRUE
          /\ Replaced(t, f)
      BY <2>3 DEF ImportFrame
    <3>2. finder /\ m \notin Namespaces /\ sysModules[m] = "executing"
      <4>1. Top(t).pc = "exec" /\ Top(t).claimed = c
        BY <2>1 DEF ImportFrame
      <4> QED
        BY <2>2, <2>3, <4>1, InnermostProgress
    <3>3. sysModules' = [sysModules EXCEPT ![m] = "executing"]
      BY <2>3, <3>2 DEF HookTypes
    <3> HIDE DEF f
    <3> QED
      BY <2>2, <3>1, <3>2, <3>3, CallsAfterProgress
  <2>4. CASE Popped(t) /\ sysModules' = [sysModules EXCEPT ![m] = "loaded"]
    BY <2>1, <2>2, <2>4, CallsAfterImportEnds
  <2> QED
    BY <2>1, <2>3, <2>4
<1>9. CASE BodyRaises(t)
  <2>1. PICK m \in Modules, c \in BOOLEAN, q \in Seq(Hooks) :
            /\ Top(t) = ImportFrame(m, "exec", c, q)
            /\ sysModules' = [sysModules EXCEPT ![m] = "absent"]
    BY <1>9, BodyRaisesEffect
  <2>2. Top(t).op = "import" /\ Top(t).mod = m
    BY <2>1 DEF ImportFrame
  <2> QED
    BY <1>9, <2>1, <2>2, BodyRaisesEffect, CallsAfterImportEnds
<1>10. CASE FireNext(t)
  <2>1. PICK m \in Modules, c \in BOOLEAN, q \in Seq(Hooks) :
            /\ Top(t) = ImportFrame(m, "fire", c, q)
            /\ Replaced(t, ImportFrame(m, "fire", TRUE, Tail(q)))
    BY <1>10, FireNextEffect
  <2>2. /\ HookTypes' /\ ~Idle(t) /\ UNCHANGED <<finder, sysModules>>
        /\ Top(t).op = "import" /\ Top(t).mod = m
    BY <1>10, <2>1, FireNextEffect DEF ImportFrame
  <2> DEFINE f == ImportFrame(m, "fire", TRUE, Tail(q))
  <2>3. /\ f.op = "import" /\ f.mod = m /\ f.pc = "fire" /\ f.claimed = TRUE
        /\ Replaced(t, f)
    BY <2>1 DEF ImportFrame
  <2>4. finder /\ m \notin Namespaces /\ sysModules[m] = "executing"
    BY <2>1, <2>2, InnermostProgress DEF ImportFrame
  <2>5. sysModules' = [sysModules EXCEPT ![m] = "executing"]
    BY <2>2, <2>4 DEF HookTypes
  <2> HIDE DEF f
  <2> QED
    BY <2>2, <2>3, <2>4, <2>5, CallsAfterProgress
<1>11. CASE FireRaises(t)
  <2>1. PICK m \in Modules, c \in BOOLEAN, q \in Seq(Hooks) :
            /\ Top(t) = ImportFrame(m, "fire", c, q)
            /\ sysModules' = [sysModules EXCEPT ![m] = "absent"]
    BY <1>11, FireRaisesEffect
  <2>2. Top(t).op = "import" /\ Top(t).mod = m
    BY <2>1 DEF ImportFrame
  <2> QED
    BY <1>11, <2>1, <2>2, FireRaisesEffect, CallsAfterImportEnds
<1>12. CASE FireDone(t)
  <2>1. PICK m \in Modules, c \in BOOLEAN :
            /\ Top(t) = ImportFrame(m, "fire", c, <<>>)
            /\ sysModules' = [sysModules EXCEPT ![m] = "loaded"]
    BY <1>12, FireDoneEffect
  <2>2. Top(t).op = "import" /\ Top(t).mod = m
    BY <2>1 DEF ImportFrame
  <2> QED
    BY <1>12, <2>1, <2>2, FireDoneEffect, CallsAfterImportEnds
<1>13. CASE ApplyAll(t)
  <2> DEFINE f == ApplyFrame(keys, UNION {ToSet(pending[m]) : m \in Modules})
  <2>1. HookTypes' /\ Idle(t) /\ Pushed(t, f) /\ UNCHANGED <<sysModules, finder>>
    BY <1>13, ApplyAllEffect
  <2>2. f \in Frame /\ f.op = "apply_all"
    BY FramesTyped DEF ApplyFrame, HookTypes, ToSet
  <2> HIDE DEF f
  <2> QED
    BY <1>1, <2>1, <2>2, CallsAfterPush DEF HookTypes
<1>14. CASE ApplyAllNext(t)
  <2>1. PICK todo \in Seq(Modules), asked \in SUBSET Hooks :
            /\ Top(t) = ApplyFrame(todo, asked)
            /\ Replaced(t, ApplyFrame(Tail(todo), asked))
    BY <1>14, ApplyAllNextEffect
  <2>2. Top(t).op = "apply_all" /\ ApplyFrame(Tail(todo), asked).op = "apply_all"
    BY <2>1 DEF ApplyFrame
  <2> QED
    BY <1>1, <1>14, <2>1, <2>2, ApplyAllNextEffect, CallsAfterReplace DEF HookTypes
<1>15. CASE ApplyAllDone(t)
  BY <1>1, <1>15, ApplyAllDoneEffect, CallsAfterReturn DEF HookTypes
<1> QED
  BY <1>2, <1>3, <1>4, <1>5, <1>6, <1>7, <1>8, <1>9, <1>10, <1>11, <1>12, <1>13, <1>14, <1>15
     DEF Step, Deferral, Loading, Fire, Pending

--------------------------------------------------------------------------------
(* Custody of the hooks.                                                   *)

LEMMA NoElements == ToSet(<<>>) = {} /\ Distinct(<<>>)
BY DEF ToSet, Distinct

LEMMA Elements ==
    ASSUME NEW S, NEW s \in Seq(S)
    PROVE  ToSet(s) \subseteq S /\ (s # <<>> => ToSet(s) # {})
<1>1. DOMAIN s = 1 .. Len(s) /\ \A i \in 1 .. Len(s) : s[i] \in S
  OBVIOUS
<1>2. s # <<>> => 1 \in DOMAIN s
  OBVIOUS
<1> QED
  BY <1>1, <1>2 DEF ToSet

InQueue(queues, h) == h \in ToSet(queues[HookModule[h]])

LEMMA Returns ==
    ASSUME HookTypes, NEW h \in Hooks, HookReturns(h)
    PROVE  /\ status'[h] \in {"applied", "skipped"}
           /\ \A g \in Hooks : g # h => status'[g] = status[g]
BY DEF HookTypes, HookReturns

\* Hooks stay where they are.
LEMMA CustodyKept ==
    ASSUME CustodyInv, UNCHANGED <<pending, keys, status, reported>>,
           \A u \in Threads : \A i \in Frames(u)' : stack'[u][i].op = "import" =>
              \/ stack'[u][i].hooks = <<>>
              \/ /\ i \in Frames(u) /\ stack[u][i].op = "import"
                 /\ stack'[u][i].hooks = stack[u][i].hooks /\ stack'[u][i].mod = stack[u][i].mod,
           \A u \in Threads : \A i \in Frames(u)' :
              stack'[u][i].op = "declare" /\ stack'[u][i].pc # "install" =>
                 i \in Frames(u) /\ stack'[u][i] = stack[u][i]
    PROVE  CustodyInv'
<1> USE DEF Imports, Declares
<1>1. QueueInv' /\ KeysInv' /\ ReportedInv'
  BY DEF CustodyInv, QueueInv, KeysInv, ReportedInv
<1>2. FiringInv'
  BY NoElements DEF CustodyInv, FiringInv, Queued
<1>3. DeclareInv'
  BY NoElements DEF CustodyInv, DeclareInv, Queued
<1> QED
  BY <1>1, <1>2, <1>3 DEF CustodyInv

LEMMA CustodyDeclare ==
    ASSUME HookTypes, CustodyInv, NEW t \in Threads, NEW h \in Hooks, Declare(t, h)
    PROVE  CustodyInv'
<1> USE DEF Imports, Declares
<1>1. PICK pc \in {"queue", "run"} : Pushed(t, DeclareFrame(h, pc))
  BY DeclareEffect
<1>2. /\ UNCHANGED <<pending, keys, reported>> /\ status[h] = "undeclared"
      /\ \A g \in Hooks : status'[g] = IF g = h THEN "deferred" ELSE status[g]
      /\ StackOK
  BY DeclareEffect DEF HookTypes
<1>3. \A u \in Threads : \A i \in Frames(u)' :
         \/ u = t /\ i = Depth(t)' /\ stack'[u][i] = DeclareFrame(h, pc)
         \/ i \in Frames(u) /\ stack'[u][i] = stack[u][i]
  BY <1>1, <1>2, PushedFrames
<1>4. QueueInv'
  <2> SUFFICES ASSUME NEW m \in Modules, NEW g \in ToSet(pending[m])
               PROVE  status'[g] = "deferred"
    BY <1>2 DEF CustodyInv, QueueInv
  <2>1. g \in Hooks /\ status[g] = "deferred"
    BY Elements DEF HookTypes, CustodyInv, QueueInv
  <2> QED
    BY <1>2, <2>1
<1>5. FiringInv'
  <2> SUFFICES ASSUME NEW u \in Threads, NEW i \in Frames(u)', stack'[u][i].op = "import"
               PROVE  /\ Distinct(stack'[u][i].hooks)
                      /\ \A g \in ToSet(stack'[u][i].hooks) :
                            /\ HookModule[g] = stack'[u][i].mod /\ status'[g] = "deferred"
                            /\ g \notin reported' /\ ~InQueue(pending', g)
    BY DEF FiringInv, Queued, InQueue
  <2>1. i \in Frames(u) /\ stack'[u][i] = stack[u][i]
    BY <1>3 DEF DeclareFrame
  <2>2. ToSet(stack[u][i].hooks) \subseteq Hooks
    BY <1>2, <2>1, FrameAt, FrameTypes, Elements
  <2> QED
    BY <1>2, <2>1, <2>2 DEF CustodyInv, FiringInv, Queued, InQueue
<1>6. DeclareInv'
  <2>1. /\ h \notin reported /\ ~Queued(h)
        /\ \A u \in Threads : \A j \in Frames(u) :
              /\ Imports(u, j) => h \notin ToSet(stack[u][j].hooks)
              /\ Declares(u, j) /\ stack[u][j].pc # "install" => stack[u][j].hook # h
    BY <1>2, HookOfModule DEF CustodyInv, ReportedInv, QueueInv, FiringInv, DeclareInv, Queued
  <2>2. \A g : InQueue(pending', g) <=> Queued(g)
    BY <1>2 DEF Queued, InQueue
  <2>3. \A u \in Threads : \A j \in Frames(u)' : stack'[u][j].op = "import" =>
           j \in Frames(u) /\ stack'[u][j] = stack[u][j]
    BY <1>3 DEF DeclareFrame
  <2>4. DeclareFrame(h, pc).hook = h
    BY DEF DeclareFrame
  <2>5. \A u \in Threads : \A j \in Frames(u) : Declares(u, j) => stack[u][j].hook \in Hooks
    BY <1>2, FrameAt, FrameTypes
  <2>6. /\ \A u \in Threads : \A i \in Frames(u)' :
              stack'[u][i].op = "declare" /\ stack'[u][i].pc # "install" =>
                 /\ status'[stack'[u][i].hook] = "deferred" /\ stack'[u][i].hook \notin reported'
                 /\ ~InQueue(pending', stack'[u][i].hook)
    BY <1>2, <1>3, <2>1, <2>2, <2>4, <2>5 DEF CustodyInv, DeclareInv
  <2>7. \A u \in Threads : \A i \in Frames(u)' :
           stack'[u][i].op = "declare" /\ stack'[u][i].pc # "install" =>
              \A v \in Threads : \A j \in Frames(v)' : stack'[v][j].op = "import" =>
                 stack'[u][i].hook \notin ToSet(stack'[v][j].hooks)
    BY <1>3, <2>1, <2>3, <2>4 DEF CustodyInv, DeclareInv
  <2>8. \A u \in Threads : \A i \in Frames(u)' :
           stack'[u][i].op = "declare" /\ stack'[u][i].pc # "install" =>
              \A v \in Threads : \A j \in Frames(v)' :
                 stack'[v][j].op = "declare" /\ stack'[v][j].pc # "install"
                    /\ stack'[v][j].hook = stack'[u][i].hook => u = v /\ i = j
    BY <1>3, <2>1, <2>4 DEF CustodyInv, DeclareInv
  <2> QED
    BY <2>6, <2>7, <2>8 DEF DeclareInv, InQueue, Queued
<1>7. KeysInv' /\ ReportedInv'
  BY <1>2 DEF CustodyInv, KeysInv, ReportedInv, HookTypes
<1> QED
  BY <1>4, <1>5, <1>6, <1>7 DEF CustodyInv

\* The decorator has queued its hook.
LEMMA CustodyQueue ==
    ASSUME HookTypes, CustodyInv, NEW t \in Threads, QueueHook(t)
    PROVE  CustodyInv'
<1> USE DEF Imports, Declares
<1>1. PICK h \in Hooks :
         /\ Top(t) = DeclareFrame(h, "queue")
         /\ Replaced(t, DeclareFrame(h, "install"))
         /\ pending' = [pending EXCEPT ![HookModule[h]] = Append(pending[HookModule[h]], h)]
         /\ keys' = IF pending[HookModule[h]] = <<>> THEN Append(keys, HookModule[h]) ELSE keys
  BY QueueHookEffect
<1> DEFINE m == HookModule[h]
<1>2. UNCHANGED <<status, reported>> /\ ~Idle(t) /\ StackOK /\ m \in Modules
  BY QueueHookEffect, HookOfModule DEF HookTypes
<1>3. /\ Depth(t) \in Frames(t) /\ stack'[t][Depth(t)] = DeclareFrame(h, "install")
      /\ \A u \in Threads : Frames(u)' = Frames(u)
      /\ \A u \in Threads : \A i \in Frames(u) :
            (u = t /\ i = Depth(t)) \/ stack'[u][i] = stack[u][i]
      /\ stack[t][Depth(t)] = DeclareFrame(h, "queue")
  BY <1>1, <1>2, ReplacedFrames, TopFrame
<1>4. /\ \A u \in Threads : \A i \in Frames(u) : stack'[u][i].op = "import" =>
            stack[u][i].op = "import" /\ stack'[u][i] = stack[u][i]
      /\ \A u \in Threads : \A i \in Frames(u) :
            stack'[u][i].op = "declare" /\ stack'[u][i].pc # "install" =>
               /\ stack[u][i].op = "declare" /\ stack[u][i].pc # "install"
               /\ stack'[u][i] = stack[u][i] /\ (u # t \/ i # Depth(t))
  BY <1>3 DEF DeclareFrame
<1>5. /\ stack[t][Depth(t)].op = "declare" /\ stack[t][Depth(t)].pc # "install"
      /\ stack[t][Depth(t)].hook = h
  BY <1>3 DEF DeclareFrame
<1>6. /\ status[h] = "deferred" /\ h \notin reported /\ h \notin ToSet(pending[m])
      /\ \A u \in Threads : \A i \in Frames(u) : stack[u][i].op = "import" =>
            h \notin ToSet(stack[u][i].hooks)
      /\ \A u \in Threads : \A i \in Frames(u) :
            stack[u][i].op = "declare" /\ stack[u][i].pc # "install" /\ stack[u][i].hook = h =>
               u = t /\ i = Depth(t)
  BY <1>3, <1>5 DEF CustodyInv, DeclareInv, Queued
<1>7. /\ ToSet(pending'[m]) = ToSet(pending[m]) \cup {h} /\ Distinct(pending'[m])
      /\ pending'[m] # <<>>
      /\ \A n \in Modules : n # m => pending'[n] = pending[n]
  <2>1. /\ pending[m] \in Seq(Hooks) /\ pending'[m] = Append(pending[m], h)
        /\ \A n \in Modules : n # m => pending'[n] = pending[n]
    BY <1>1, <1>2 DEF HookTypes
  <2>2. Distinct(pending[m])
    BY <1>2 DEF CustodyInv, QueueInv
  <2> QED
    BY <1>6, <2>1, <2>2, AppendElements
<1>8. \A g : InQueue(pending', g) /\ HookModule[g] \in Modules => g = h \/ Queued(g)
  BY <1>7 DEF InQueue, Queued
<1>9. QueueInv'
  BY <1>2, <1>6, <1>7 DEF CustodyInv, QueueInv
<1>10. FiringInv'
  <2> SUFFICES ASSUME NEW u \in Threads, NEW i \in Frames(u)', stack'[u][i].op = "import"
               PROVE  /\ Distinct(stack'[u][i].hooks)
                      /\ \A g \in ToSet(stack'[u][i].hooks) :
                            /\ HookModule[g] = stack'[u][i].mod /\ status'[g] = "deferred"
                            /\ g \notin reported' /\ ~InQueue(pending', g)
    BY DEF FiringInv, Queued, InQueue
  <2>1. i \in Frames(u) /\ stack[u][i].op = "import" /\ stack'[u][i] = stack[u][i]
    BY <1>3, <1>4
  <2>2. stack[u][i].mod \in Modules
    BY <1>2, <2>1, FrameAt, FrameTypes
  <2> QED
    BY <1>2, <1>6, <1>8, <2>1, <2>2 DEF CustodyInv, FiringInv
<1>11. DeclareInv'
  <2>1. \A u \in Threads : \A i \in Frames(u) : Declares(u, i) => HookModule[stack[u][i].hook] \in Modules
    BY <1>2, FrameAt, FrameTypes, HookOfModule
  <2>2. \A u \in Threads : \A i \in Frames(u)' :
           stack'[u][i].op = "declare" /\ stack'[u][i].pc # "install" =>
              /\ status'[stack'[u][i].hook] = "deferred" /\ stack'[u][i].hook \notin reported'
              /\ ~InQueue(pending', stack'[u][i].hook)
    BY <1>2, <1>3, <1>4, <1>6, <1>8, <2>1 DEF CustodyInv, DeclareInv
  <2>3. \A u \in Threads : \A i \in Frames(u)' :
           stack'[u][i].op = "declare" /\ stack'[u][i].pc # "install" =>
              \A v \in Threads : \A j \in Frames(v)' : stack'[v][j].op = "import" =>
                 stack'[u][i].hook \notin ToSet(stack'[v][j].hooks)
    BY <1>3, <1>4 DEF CustodyInv, DeclareInv
  <2>4. \A u \in Threads : \A i \in Frames(u)' :
           stack'[u][i].op = "declare" /\ stack'[u][i].pc # "install" =>
              \A v \in Threads : \A j \in Frames(v)' :
                 stack'[v][j].op = "declare" /\ stack'[v][j].pc # "install"
                    /\ stack'[v][j].hook = stack'[u][i].hook => u = v /\ i = j
    BY <1>3, <1>4 DEF CustodyInv, DeclareInv
  <2> QED
    BY <2>2, <2>3, <2>4 DEF DeclareInv, InQueue, Queued
<1>12. KeysInv'
  <2>1. CASE pending[m] = <<>>
    <3>1. m \notin ToSet(keys) /\ keys' = Append(keys, m)
      BY <1>1, <1>2, <2>1 DEF CustodyInv, KeysInv
    <3>2. ToSet(keys') = ToSet(keys) \cup {m} /\ Distinct(keys')
      BY <1>2, <3>1, AppendElements DEF HookTypes, CustodyInv, KeysInv
    <3> QED
      BY <1>7, <3>2 DEF CustodyInv, KeysInv
  <2>2. CASE pending[m] # <<>>
    BY <1>1, <1>2, <1>7, <2>2 DEF CustodyInv, KeysInv
  <2> QED
    BY <2>1, <2>2
<1>13. ReportedInv'
  BY <1>2 DEF CustodyInv, ReportedInv
<1> QED
  BY <1>9, <1>10, <1>11, <1>12, <1>13 DEF CustodyInv

\* The decorator has run its hook.
LEMMA CustodyRun ==
    ASSUME HookTypes, CustodyInv, NEW t \in Threads, RunNow(t)
    PROVE  CustodyInv'
<1> USE DEF Imports, Declares
<1>1. PICK h \in Hooks :
         /\ Top(t) = DeclareFrame(h, "run")
         /\ \/ HookReturns(h) /\ UNCHANGED reported
            \/ reported' = reported \cup {h} /\ UNCHANGED <<status, live>>
  BY RunNowEffect
<1>2. /\ UNCHANGED <<pending, keys>> /\ ~Idle(t) /\ StackOK /\ Popped(t)
  BY RunNowEffect DEF HookTypes
<1>3. /\ Depth(t) \in Frames(t)
      /\ \A u \in Threads : \A i \in Frames(u)' :
            i \in Frames(u) /\ stack'[u][i] = stack[u][i] /\ (u # t \/ i # Depth(t))
      /\ stack[t][Depth(t)] = DeclareFrame(h, "run")
  BY <1>1, <1>2, PoppedFrames, TopFrame
<1>4. /\ stack[t][Depth(t)].op = "declare" /\ stack[t][Depth(t)].pc # "install"
      /\ stack[t][Depth(t)].hook = h
  BY <1>3 DEF DeclareFrame
<1>5. /\ status[h] = "deferred" /\ h \notin reported /\ h \notin ToSet(pending[HookModule[h]])
      /\ \A u \in Threads : \A i \in Frames(u) : stack[u][i].op = "import" =>
            h \notin ToSet(stack[u][i].hooks)
      /\ \A u \in Threads : \A i \in Frames(u) :
            stack[u][i].op = "declare" /\ stack[u][i].pc # "install" /\ stack[u][i].hook = h =>
               u = t /\ i = Depth(t)
  BY <1>3, <1>4 DEF CustodyInv, DeclareInv, Queued
<1>6. /\ \A g \in Hooks : g # h =>
            status'[g] = status[g] /\ (g \in reported' <=> g \in reported)
      /\ status'[h] # "undeclared"
      /\ reported' \subseteq Hooks
  BY <1>1, <1>5, Returns DEF HookTypes
<1>7. QueueInv'
  <2> SUFFICES ASSUME NEW m \in Modules, NEW g \in ToSet(pending[m])
               PROVE  status'[g] = "deferred" /\ g \notin reported'
    BY <1>2 DEF CustodyInv, QueueInv
  <2>1. g \in Hooks /\ HookModule[g] = m /\ status[g] = "deferred" /\ g \notin reported
    BY Elements DEF HookTypes, CustodyInv, QueueInv
  <2> QED
    BY <1>5, <1>6, <2>1
<1>8. FiringInv'
  <2> SUFFICES ASSUME NEW u \in Threads, NEW i \in Frames(u)', stack'[u][i].op = "import"
               PROVE  /\ Distinct(stack'[u][i].hooks)
                      /\ \A g \in ToSet(stack'[u][i].hooks) :
                            /\ HookModule[g] = stack'[u][i].mod /\ status'[g] = "deferred"
                            /\ g \notin reported' /\ ~InQueue(pending', g)
    BY DEF FiringInv, Queued, InQueue
  <2>1. i \in Frames(u) /\ stack'[u][i] = stack[u][i]
    BY <1>3
  <2>2. ToSet(stack[u][i].hooks) \subseteq Hooks
    BY <1>2, <2>1, FrameAt, FrameTypes, Elements
  <2> QED
    BY <1>2, <1>5, <1>6, <2>1, <2>2 DEF CustodyInv, FiringInv, Queued, InQueue
<1>9. DeclareInv'
  <2>1. \A u \in Threads : \A i \in Frames(u) : Declares(u, i) => stack[u][i].hook \in Hooks
    BY <1>2, FrameAt, FrameTypes
  <2>2. \A u \in Threads : \A i \in Frames(u)' :
           stack'[u][i].op = "declare" /\ stack'[u][i].pc # "install" =>
              /\ status'[stack'[u][i].hook] = "deferred" /\ stack'[u][i].hook \notin reported'
              /\ ~InQueue(pending', stack'[u][i].hook)
    BY <1>2, <1>3, <1>5, <1>6, <2>1 DEF CustodyInv, DeclareInv, InQueue, Queued
  <2>3. \A u \in Threads : \A i \in Frames(u)' :
           stack'[u][i].op = "declare" /\ stack'[u][i].pc # "install" =>
              \A v \in Threads : \A j \in Frames(v)' :
                 /\ stack'[v][j].op = "import" =>
                       stack'[u][i].hook \notin ToSet(stack'[v][j].hooks)
                 /\ stack'[v][j].op = "declare" /\ stack'[v][j].pc # "install"
                       /\ stack'[v][j].hook = stack'[u][i].hook => u = v /\ i = j
    BY <1>3 DEF CustodyInv, DeclareInv
  <2> QED
    BY <2>2, <2>3 DEF DeclareInv, InQueue, Queued
<1>10. KeysInv' /\ ReportedInv'
  BY <1>1, <1>2, <1>6 DEF CustodyInv, KeysInv, ReportedInv, HookTypes
<1> QED
  BY <1>7, <1>8, <1>9, <1>10 DEF CustodyInv

\* fire() takes the queue of the module.
LEMMA CustodyTake ==
    ASSUME HookTypes, CallInv, CustodyInv, NEW t \in Threads, ~Idle(t),
           NEW m \in Modules, Top(t).op = "import", Top(t).mod = m,
           Replaced(t, ImportFrame(m, "fire", TRUE, pending[m])),
           pending' = [pending EXCEPT ![m] = <<>>], keys' = RemoveFirst(keys, m),
           UNCHANGED <<status, reported>>
    PROVE  CustodyInv'
<1> USE DEF Imports, Declares
<1> DEFINE f == ImportFrame(m, "fire", TRUE, pending[m])
<1>1. StackOK
  BY DEF HookTypes
<1>2. /\ Depth(t) \in Frames(t) /\ stack'[t][Depth(t)] = f
      /\ \A u \in Threads : Frames(u)' = Frames(u)
      /\ \A u \in Threads : \A i \in Frames(u) :
            (u = t /\ i = Depth(t)) \/ stack'[u][i] = stack[u][i]
  BY <1>1, ReplacedFrames
<1>3. f.op = "import" /\ f.mod = m /\ f.hooks = pending[m]
  BY DEF ImportFrame
<1> HIDE DEF f
<1>4. pending'[m] = <<>> /\ \A n \in Modules : n # m => pending'[n] = pending[n]
  BY DEF HookTypes
<1>5. \A g : HookModule[g] \in Modules /\ InQueue(pending', g) =>
         HookModule[g] # m /\ Queued(g)
  BY <1>4, NoElements DEF InQueue, Queued
<1>6. QueueInv'
  BY <1>4, NoElements DEF CustodyInv, QueueInv
<1>7. FiringInv'
  <2> SUFFICES ASSUME NEW u \in Threads, NEW i \in Frames(u)', stack'[u][i].op = "import"
               PROVE  /\ Distinct(stack'[u][i].hooks)
                      /\ \A g \in ToSet(stack'[u][i].hooks) :
                            /\ HookModule[g] = stack'[u][i].mod /\ status'[g] = "deferred"
                            /\ g \notin reported' /\ ~InQueue(pending', g)
    BY DEF FiringInv, Queued, InQueue
  <2>1. CASE u = t /\ i = Depth(t)
    <3>1. /\ Distinct(pending[m])
          /\ \A g \in ToSet(pending[m]) :
                HookModule[g] = m /\ status[g] = "deferred" /\ g \notin reported
      BY DEF CustodyInv, QueueInv
    <3>2. \A g \in ToSet(pending[m]) : ~InQueue(pending', g)
      BY <1>5, <3>1
    <3> QED
      BY <1>2, <1>3, <2>1, <3>1, <3>2
  <2>2. CASE ~(u = t /\ i = Depth(t))
    <3>1. i \in Frames(u) /\ stack'[u][i] = stack[u][i]
      BY <1>2, <2>2
    <3>2. stack[u][i].mod \in Modules
      BY <1>1, <3>1, FrameAt, FrameTypes
    <3>3. /\ Distinct(stack[u][i].hooks)
          /\ \A g \in ToSet(stack[u][i].hooks) :
                /\ HookModule[g] = stack[u][i].mod /\ status[g] = "deferred"
                /\ g \notin reported /\ ~Queued(g)
      BY <3>1 DEF CustodyInv, FiringInv
    <3>4. \A g \in ToSet(stack[u][i].hooks) : ~InQueue(pending', g)
      BY <1>5, <3>2, <3>3
    <3> QED
      BY <3>1, <3>3, <3>4
  <2> QED
    BY <2>1, <2>2
<1>8. DeclareInv'
  <2>1. \A u \in Threads : \A i \in Frames(u) :
           /\ stack'[u][i].op = "declare" =>
                 stack'[u][i] = stack[u][i] /\ HookModule[stack[u][i].hook] \in Modules
           /\ stack'[u][i].op = "import" =>
                 (u = t /\ i = Depth(t)) \/ stack'[u][i] = stack[u][i]
    BY <1>1, <1>2, <1>3, FrameAt, FrameTypes, HookOfModule
  <2>2. \A u \in Threads : \A i \in Frames(u)' :
           stack'[u][i].op = "declare" /\ stack'[u][i].pc # "install" =>
              /\ status'[stack'[u][i].hook] = "deferred" /\ stack'[u][i].hook \notin reported'
              /\ ~InQueue(pending', stack'[u][i].hook)
    <3> SUFFICES ASSUME NEW u \in Threads, NEW i \in Frames(u),
                        stack'[u][i].op = "declare", stack'[u][i].pc # "install"
                 PROVE  /\ status'[stack'[u][i].hook] = "deferred"
                        /\ stack'[u][i].hook \notin reported'
                        /\ ~InQueue(pending', stack'[u][i].hook)
      BY <1>2
    <3>1. stack'[u][i] = stack[u][i] /\ HookModule[stack[u][i].hook] \in Modules
      BY <2>1
    <3>2. /\ status[stack[u][i].hook] = "deferred" /\ stack[u][i].hook \notin reported
          /\ ~Queued(stack[u][i].hook)
      BY <3>1 DEF CustodyInv, DeclareInv
    <3>3. ~InQueue(pending', stack[u][i].hook)
      BY <1>5, <3>1, <3>2
    <3> QED
      BY <3>1, <3>2, <3>3
  <2>3. \A u \in Threads : \A i \in Frames(u)' :
           stack'[u][i].op = "declare" /\ stack'[u][i].pc # "install" =>
              \A v \in Threads : \A j \in Frames(v)' : stack'[v][j].op = "import" =>
                 stack'[u][i].hook \notin ToSet(stack'[v][j].hooks)
    <3> SUFFICES ASSUME NEW u \in Threads, NEW i \in Frames(u), NEW v \in Threads,
                        NEW j \in Frames(v),
                        stack'[u][i].op = "declare", stack'[u][i].pc # "install",
                        stack'[v][j].op = "import"
                 PROVE  stack'[u][i].hook \notin ToSet(stack'[v][j].hooks)
      BY <1>2
    <3>1. /\ stack[u][i].op = "declare" /\ stack[u][i].pc # "install"
          /\ stack'[u][i].hook = stack[u][i].hook
      BY <2>1
    <3>2. CASE v = t /\ j = Depth(t)
      BY <1>2, <1>3, <3>1, <3>2 DEF CustodyInv, DeclareInv, QueueInv, Queued
    <3>3. CASE stack'[v][j] = stack[v][j]
      BY <3>1, <3>3 DEF CustodyInv, DeclareInv
    <3> QED
      BY <2>1, <3>2, <3>3
  <2>4. \A u \in Threads : \A i \in Frames(u)' :
           stack'[u][i].op = "declare" /\ stack'[u][i].pc # "install" =>
              \A v \in Threads : \A j \in Frames(v)' :
                 stack'[v][j].op = "declare" /\ stack'[v][j].pc # "install"
                    /\ stack'[v][j].hook = stack'[u][i].hook => u = v /\ i = j
    BY <1>2, <2>1 DEF CustodyInv, DeclareInv
  <2> QED
    BY <2>2, <2>3, <2>4 DEF DeclareInv, InQueue, Queued
<1>9. KeysInv' /\ ReportedInv'
  <2>1. Distinct(keys') /\ ToSet(keys') = ToSet(keys) \ {m}
    BY RemoveElement DEF CustodyInv, KeysInv, HookTypes
  <2> QED
    BY <1>4, <2>1 DEF CustodyInv, KeysInv, ReportedInv
<1> QED
  BY <1>6, <1>7, <1>8, <1>9 DEF CustodyInv

\* A hook has run and is popped.
LEMMA CustodyFireNext ==
    ASSUME HookTypes, CallInv, CustodyInv, NEW t \in Threads, FireNext(t)
    PROVE  CustodyInv'
<1> USE DEF Imports, Declares
<1>1. PICK m \in Modules, c \in BOOLEAN, q \in Seq(Hooks) :
         /\ Top(t) = ImportFrame(m, "fire", c, q) /\ q # <<>>
         /\ HookReturns(Head(q))
         /\ Replaced(t, ImportFrame(m, "fire", TRUE, Tail(q)))
  BY FireNextEffect
<1>2. UNCHANGED <<pending, keys, reported>> /\ ~Idle(t) /\ StackOK
  BY FireNextEffect DEF HookTypes
<1> DEFINE f == ImportFrame(m, "fire", TRUE, Tail(q))
<1>3. /\ Depth(t) \in Frames(t) /\ stack'[t][Depth(t)] = f
      /\ \A u \in Threads : Frames(u)' = Frames(u)
      /\ \A u \in Threads : \A i \in Frames(u) :
            (u = t /\ i = Depth(t)) \/ stack'[u][i] = stack[u][i]
  BY <1>1, <1>2, ReplacedFrames
<1>4. /\ f.op = "import" /\ f.mod = m /\ f.hooks = Tail(q)
      /\ Top(t).op = "import" /\ Top(t).mod = m /\ Top(t).hooks = q
  BY <1>1 DEF ImportFrame
<1> HIDE DEF f
<1>5. /\ stack[t][Depth(t)] = Top(t)
      /\ \A u \in Threads : \A i \in Frames(u) :
            stack[u][i].op = "import" /\ stack[u][i].mod = m => u = t /\ i = Depth(t)
  BY <1>2, <1>4, InnermostProgress
<1> DEFINE h == Head(q)
           r == Tail(q)
<1>6. /\ h \in Hooks /\ r \in Seq(Hooks) /\ ToSet(q) = {h} \cup ToSet(r)
      /\ Distinct(q) => Distinct(r) /\ h \notin ToSet(r)
  BY <1>1, TailElements
<1>7. f.hooks = r /\ HookReturns(h)
  BY <1>1, <1>4
<1> HIDE DEF h, r
<1>8. /\ Distinct(r) /\ h \notin ToSet(r)
      /\ \A g \in ToSet(q) : /\ HookModule[g] = m /\ status[g] = "deferred"
                             /\ g \notin reported /\ ~Queued(g)
  BY <1>3, <1>4, <1>5, <1>6 DEF CustodyInv, FiringInv
<1>9. \A u \in Threads : \A i \in Frames(u) :
         /\ stack[u][i].op = "import" /\ h \in ToSet(stack[u][i].hooks) => u = t /\ i = Depth(t)
         /\ stack[u][i].op = "declare" /\ stack[u][i].pc # "install" => stack[u][i].hook \notin ToSet(q)
  <2>1. \A u \in Threads : \A i \in Frames(u) :
           stack[u][i].op = "import" /\ h \in ToSet(stack[u][i].hooks) => stack[u][i].mod = m
    BY <1>6, <1>8 DEF CustodyInv, FiringInv
  <2>2. \A u \in Threads : \A i \in Frames(u) :
           stack[u][i].op = "declare" /\ stack[u][i].pc # "install" => stack[u][i].hook \notin ToSet(q)
    BY <1>3, <1>4, <1>5 DEF CustodyInv, DeclareInv
  <2> QED
    BY <1>5, <2>1, <2>2
<1>10. status'[h] \in {"applied", "skipped"} /\ \A g \in Hooks : g # h => status'[g] = status[g]
  BY <1>6, <1>7, Returns
<1>11. QueueInv'
  <2> SUFFICES ASSUME NEW n \in Modules, NEW g \in ToSet(pending[n])
               PROVE  status'[g] = "deferred"
    BY <1>2 DEF CustodyInv, QueueInv
  <2>1. g \in Hooks /\ status[g] = "deferred" /\ Queued(g)
    BY Elements DEF HookTypes, CustodyInv, QueueInv, Queued
  <2> QED
    BY <1>6, <1>8, <1>10, <2>1
<1>12. FiringInv'
  <2> SUFFICES ASSUME NEW u \in Threads, NEW i \in Frames(u)', stack'[u][i].op = "import"
               PROVE  /\ Distinct(stack'[u][i].hooks)
                      /\ \A g \in ToSet(stack'[u][i].hooks) :
                            /\ HookModule[g] = stack'[u][i].mod /\ status'[g] = "deferred"
                            /\ g \notin reported' /\ ~InQueue(pending', g)
    BY DEF FiringInv, Queued, InQueue
  <2>1. CASE u = t /\ i = Depth(t)
    <3>1. ToSet(r) \subseteq Hooks
      BY <1>6, Elements
    <3> QED
      BY <1>2, <1>3, <1>4, <1>6, <1>7, <1>8, <1>10, <2>1, <3>1 DEF InQueue, Queued
  <2>2. CASE ~(u = t /\ i = Depth(t))
    <3>1. i \in Frames(u) /\ stack'[u][i] = stack[u][i]
      BY <1>3, <2>2
    <3>2. ToSet(stack[u][i].hooks) \subseteq Hooks /\ h \notin ToSet(stack[u][i].hooks)
      BY <1>2, <1>9, <2>2, <3>1, FrameAt, FrameTypes, Elements
    <3> QED
      BY <1>2, <1>10, <3>1, <3>2 DEF CustodyInv, FiringInv, Queued, InQueue
  <2> QED
    BY <2>1, <2>2
<1>13. DeclareInv'
  <2>1. \A u \in Threads : \A i \in Frames(u) :
           stack'[u][i].op = "declare" /\ stack'[u][i].pc # "install" =>
              /\ stack'[u][i] = stack[u][i] /\ stack[u][i].hook \in Hooks
              /\ stack[u][i].hook \notin ToSet(q)
    BY <1>2, <1>3, <1>4, <1>9, FrameAt, FrameTypes
  <2>2. \A u \in Threads : \A i \in Frames(u)' :
           stack'[u][i].op = "declare" /\ stack'[u][i].pc # "install" =>
              /\ status'[stack'[u][i].hook] = "deferred" /\ stack'[u][i].hook \notin reported'
              /\ ~InQueue(pending', stack'[u][i].hook)
    BY <1>2, <1>3, <1>6, <1>10, <2>1 DEF CustodyInv, DeclareInv, InQueue, Queued
  <2>3. \A u \in Threads : \A i \in Frames(u)' :
           stack'[u][i].op = "declare" /\ stack'[u][i].pc # "install" =>
              \A v \in Threads : \A j \in Frames(v)' : stack'[v][j].op = "import" =>
                 stack'[u][i].hook \notin ToSet(stack'[v][j].hooks)
    <3> SUFFICES ASSUME NEW u \in Threads, NEW i \in Frames(u), NEW v \in Threads,
                        NEW j \in Frames(v),
                        stack'[u][i].op = "declare", stack'[u][i].pc # "install",
                        stack'[v][j].op = "import"
                 PROVE  stack'[u][i].hook \notin ToSet(stack'[v][j].hooks)
      BY <1>3
    <3>1. CASE v = t /\ j = Depth(t)
      BY <1>3, <1>6, <1>7, <2>1, <3>1
    <3>2. CASE stack'[v][j] = stack[v][j]
      BY <2>1, <3>2 DEF CustodyInv, DeclareInv
    <3> QED
      BY <1>3, <3>1, <3>2
  <2>4. \A u \in Threads : \A i \in Frames(u)' :
           stack'[u][i].op = "declare" /\ stack'[u][i].pc # "install" =>
              \A v \in Threads : \A j \in Frames(v)' :
                 stack'[v][j].op = "declare" /\ stack'[v][j].pc # "install"
                    /\ stack'[v][j].hook = stack'[u][i].hook => u = v /\ i = j
    BY <1>3, <2>1 DEF CustodyInv, DeclareInv
  <2> QED
    BY <2>2, <2>3, <2>4 DEF DeclareInv, InQueue, Queued
<1>14. KeysInv' /\ ReportedInv'
  BY <1>2, <1>6, <1>10 DEF CustodyInv, KeysInv, ReportedInv, HookTypes
<1> QED
  BY <1>11, <1>12, <1>13, <1>14 DEF CustodyInv

\* A hook has raised: it and the hooks behind it are queued again.
LEMMA CustodyPutBack ==
    ASSUME HookTypes, CallInv, CustodyInv, NEW t \in Threads, FireRaises(t)
    PROVE  CustodyInv'
<1> USE DEF Imports, Declares
<1>1. PICK m \in Modules, c \in BOOLEAN, q \in Seq(Hooks) :
         /\ Top(t) = ImportFrame(m, "fire", c, q) /\ q # <<>>
         /\ pending' = [pending EXCEPT ![m] = q]
         /\ keys' = IF pending[m] = <<>> THEN Append(keys, m) ELSE keys
  BY FireRaisesEffect
<1>2. UNCHANGED <<status, reported>> /\ ~Idle(t) /\ StackOK /\ Popped(t)
  BY FireRaisesEffect DEF HookTypes
<1>3. Top(t).op = "import" /\ Top(t).mod = m /\ Top(t).hooks = q
  BY <1>1 DEF ImportFrame
<1>4. \A u \in Threads : \A i \in Frames(u)' :
         i \in Frames(u) /\ stack'[u][i] = stack[u][i] /\ (u # t \/ i # Depth(t))
  BY <1>2, PoppedFrames
<1>5. /\ Depth(t) \in Frames(t) /\ stack[t][Depth(t)] = Top(t)
      /\ \A u \in Threads : \A i \in Frames(u) :
            stack[u][i].op = "import" /\ stack[u][i].mod = m => u = t /\ i = Depth(t)
  BY <1>2, <1>3, InnermostProgress
<1>6. /\ Distinct(q)
      /\ \A g \in ToSet(q) : HookModule[g] = m /\ status[g] = "deferred" /\ g \notin reported
  BY <1>3, <1>5 DEF CustodyInv, FiringInv
<1>7. pending'[m] = q /\ \A n \in Modules : n # m => pending'[n] = pending[n]
  BY <1>1 DEF HookTypes
<1>8. \A g : HookModule[g] \in Modules /\ InQueue(pending', g) =>
         (HookModule[g] = m /\ g \in ToSet(q)) \/ (HookModule[g] # m /\ Queued(g))
  BY <1>7 DEF InQueue, Queued
<1>9. QueueInv'
  <2> SUFFICES ASSUME NEW n \in Modules
               PROVE  /\ Distinct(pending'[n])
                      /\ \A g \in ToSet(pending'[n]) :
                            HookModule[g] = n /\ status[g] = "deferred" /\ g \notin reported
    BY <1>2 DEF QueueInv
  <2>1. CASE n = m
    BY <1>6, <1>7, <2>1
  <2>2. CASE n # m
    BY <1>7, <2>2 DEF CustodyInv, QueueInv
  <2> QED
    BY <2>1, <2>2
<1>10. FiringInv'
  <2> SUFFICES ASSUME NEW u \in Threads, NEW i \in Frames(u)', stack'[u][i].op = "import"
               PROVE  /\ Distinct(stack'[u][i].hooks)
                      /\ \A g \in ToSet(stack'[u][i].hooks) :
                            /\ HookModule[g] = stack'[u][i].mod /\ status'[g] = "deferred"
                            /\ g \notin reported' /\ ~InQueue(pending', g)
    BY DEF FiringInv, Queued, InQueue
  <2>1. i \in Frames(u) /\ stack'[u][i] = stack[u][i] /\ stack[u][i].mod # m
    BY <1>4, <1>5
  <2>2. stack[u][i].mod \in Modules
    BY <1>2, <2>1, FrameAt, FrameTypes
  <2>3. /\ Distinct(stack[u][i].hooks)
        /\ \A g \in ToSet(stack[u][i].hooks) :
              /\ HookModule[g] = stack[u][i].mod /\ status[g] = "deferred"
              /\ g \notin reported /\ ~Queued(g)
    BY <2>1 DEF CustodyInv, FiringInv
  <2>4. \A g \in ToSet(stack[u][i].hooks) : ~InQueue(pending', g)
    BY <1>8, <2>1, <2>2, <2>3
  <2> QED
    BY <1>2, <2>1, <2>3, <2>4
<1>11. DeclareInv'
  <2>1. \A u \in Threads : \A i \in Frames(u)' :
           stack'[u][i].op = "declare" /\ stack'[u][i].pc # "install" =>
              /\ status'[stack'[u][i].hook] = "deferred" /\ stack'[u][i].hook \notin reported'
              /\ ~InQueue(pending', stack'[u][i].hook)
    <3> SUFFICES ASSUME NEW u \in Threads, NEW i \in Frames(u)',
                        stack'[u][i].op = "declare", stack'[u][i].pc # "install"
                 PROVE  /\ status'[stack'[u][i].hook] = "deferred"
                        /\ stack'[u][i].hook \notin reported'
                        /\ ~InQueue(pending', stack'[u][i].hook)
      OBVIOUS
    <3>1. i \in Frames(u) /\ stack'[u][i] = stack[u][i]
      BY <1>4
    <3>2. HookModule[stack[u][i].hook] \in Modules
      BY <1>2, <3>1, FrameAt, FrameTypes, HookOfModule
    <3>3. /\ status[stack[u][i].hook] = "deferred" /\ stack[u][i].hook \notin reported
          /\ ~Queued(stack[u][i].hook) /\ stack[u][i].hook \notin ToSet(q)
      BY <1>3, <1>5, <3>1 DEF CustodyInv, DeclareInv
    <3>4. ~InQueue(pending', stack[u][i].hook)
      BY <1>8, <3>2, <3>3
    <3> QED
      BY <1>2, <3>1, <3>3, <3>4
  <2>2. \A u \in Threads : \A i \in Frames(u)' :
           stack'[u][i].op = "declare" /\ stack'[u][i].pc # "install" =>
              \A v \in Threads : \A j \in Frames(v)' :
                 /\ stack'[v][j].op = "import" =>
                       stack'[u][i].hook \notin ToSet(stack'[v][j].hooks)
                 /\ stack'[v][j].op = "declare" /\ stack'[v][j].pc # "install"
                       /\ stack'[v][j].hook = stack'[u][i].hook => u = v /\ i = j
    BY <1>4 DEF CustodyInv, DeclareInv
  <2> QED
    BY <2>1, <2>2 DEF DeclareInv, InQueue, Queued
<1>12. KeysInv'
  <2>1. CASE pending[m] = <<>>
    <3>1. m \notin ToSet(keys) /\ keys' = Append(keys, m)
      BY <1>1, <2>1 DEF CustodyInv, KeysInv
    <3>2. ToSet(keys') = ToSet(keys) \cup {m} /\ Distinct(keys')
      BY <3>1, AppendElements DEF HookTypes, CustodyInv, KeysInv
    <3> QED
      BY <1>1, <1>7, <3>2 DEF CustodyInv, KeysInv
  <2>2. CASE pending[m] # <<>>
    BY <1>1, <1>7, <2>2 DEF CustodyInv, KeysInv
  <2> QED
    BY <2>1, <2>2
<1>13. ReportedInv'
  BY <1>2 DEF CustodyInv, ReportedInv
<1> QED
  BY <1>9, <1>10, <1>11, <1>12, <1>13 DEF CustodyInv

LEMMA CustodyStep ==
    ASSUME HookTypes, CallInv, CustodyInv, NEW t \in Threads, Step(t)
    PROVE  CustodyInv'
<1>1. StackOK
  BY DEF HookTypes
<1>2. ASSUME NEW h \in Hooks, Declare(t, h) PROVE CustodyInv'
  BY <1>2, CustodyDeclare
<1>3. ASSUME NEW m \in Modules, Import(t, m) PROVE CustodyInv'
  <2> DEFINE f == ImportFrame(m, "find", FALSE, <<>>)
  <2>1. /\ Pushed(t, f) /\ f.op = "import" /\ f.hooks = <<>>
        /\ UNCHANGED <<pending, keys, status, reported>>
    BY <1>3, ImportEffect DEF ImportFrame
  <2> HIDE DEF f
  <2>2. \A u \in Threads : \A i \in Frames(u)' :
           stack'[u][i] = f \/ (i \in Frames(u) /\ stack'[u][i] = stack[u][i])
    BY <1>1, <2>1, PushedFrames
  <2> QED
    BY <2>1, <2>2, CustodyKept
<1>4. CASE QueueHook(t)
  BY <1>4, CustodyQueue
<1>5. CASE RunNow(t)
  BY <1>5, CustodyRun
<1>6. ASSUME ~Idle(t), Popped(t), UNCHANGED <<pending, keys, status, reported>>
      PROVE  CustodyInv'
  <2>1. \A u \in Threads : \A i \in Frames(u)' : i \in Frames(u) /\ stack'[u][i] = stack[u][i]
    BY <1>1, <1>6, PoppedFrames
  <2> QED
    BY <1>6, <2>1, CustodyKept
<1>7. CASE FindSpec(t)
  <2>1. PICK m \in Modules, c \in BOOLEAN, q \in Seq(Hooks) :
            /\ Top(t) = ImportFrame(m, "find", c, q)
            /\ Popped(t) \/ Replaced(t, ImportFrame(m, "exec", Claims(m), <<>>))
    BY <1>7, FindSpecEffect
  <2>2. ~Idle(t) /\ UNCHANGED <<pending, keys, status, reported>>
    BY <1>7, FindSpecEffect
  <2> DEFINE f == ImportFrame(m, "exec", Claims(m), <<>>)
  <2>3. CASE Replaced(t, f)
    <3>1. /\ \A u \in Threads : Frames(u)' = Frames(u)
          /\ \A u \in Threads : \A i \in Frames(u) :
                stack'[u][i] = f \/ stack'[u][i] = stack[u][i]
      BY <1>1, <2>3, ReplacedFrames
    <3>2. f.op = "import" /\ f.hooks = <<>>
      BY DEF ImportFrame
    <3> HIDE DEF f
    <3> QED
      BY <2>2, <3>1, <3>2, CustodyKept
  <2> QED
    BY <1>6, <2>1, <2>2, <2>3
<1>8. CASE FinishBody(t)
  <2>1. PICK m \in Modules, c \in BOOLEAN, q \in Seq(Hooks) :
            /\ Top(t) = ImportFrame(m, "exec", c, q)
            /\ \/ /\ Replaced(t, ImportFrame(m, "fire", TRUE, pending[m]))
                  /\ pending' = [pending EXCEPT ![m] = <<>>]
                  /\ keys' = RemoveFirst(keys, m)
               \/ Popped(t) /\ UNCHANGED <<pending, keys>>
    BY <1>8, FinishBodyEffect
  <2>2. /\ ~Idle(t) /\ UNCHANGED <<status, reported>>
        /\ Top(t).op = "import" /\ Top(t).mod = m
    BY <1>8, <2>1, FinishBodyEffect DEF ImportFrame
  <2>3. CASE Popped(t) /\ UNCHANGED <<pending, keys>>
    BY <1>6, <2>2, <2>3
  <2> QED
    BY <2>1, <2>2, <2>3, CustodyTake
<1>9. CASE FireNext(t)
  BY <1>9, CustodyFireNext
<1>10. CASE FireRaises(t)
  BY <1>10, CustodyPutBack
<1>11. CASE InstallFinder(t) \/ BodyRaises(t) \/ FireDone(t) \/ ApplyAllDone(t)
  BY <1>6, <1>11, InstallFinderEffect, BodyRaisesEffect, FireDoneEffect, ApplyAllDoneEffect
<1>12. CASE ApplyAll(t)
  <2> DEFINE f == ApplyFrame(keys, UNION {ToSet(pending[m]) : m \in Modules})
  <2>1. Pushed(t, f) /\ UNCHANGED <<pending, keys, status, reported>> /\ f.op = "apply_all"
    BY <1>12, ApplyAllEffect DEF ApplyFrame
  <2>2. \A u \in Threads : \A i \in Frames(u)' :
           stack'[u][i] = f \/ (i \in Frames(u) /\ stack'[u][i] = stack[u][i])
    BY <1>1, <2>1, PushedFrames
  <2> HIDE DEF f
  <2> QED
    BY <2>1, <2>2, CustodyKept
<1>13. CASE ApplyAllNext(t)
  <2>1. PICK todo \in Seq(Modules), asked \in SUBSET Hooks :
            Replaced(t, ApplyFrame(Tail(todo), asked))
    BY <1>13, ApplyAllNextEffect
  <2> DEFINE f == ApplyFrame(Tail(todo), asked)
  <2>2. /\ Replaced(t, f) /\ f.op = "apply_all"
        /\ UNCHANGED <<pending, keys, status, reported>>
    BY <1>13, <2>1, ApplyAllNextEffect DEF ApplyFrame
  <2> HIDE DEF f
  <2>3. /\ \A u \in Threads : Frames(u)' = Frames(u)
        /\ \A u \in Threads : \A i \in Frames(u) :
              stack'[u][i] = f \/ stack'[u][i] = stack[u][i]
    BY <1>1, <2>2, ReplacedFrames
  <2> QED
    BY <2>2, <2>3, CustodyKept
<1> QED
  BY <1>2, <1>3, <1>4, <1>5, <1>7, <1>8, <1>9, <1>10, <1>11, <1>12, <1>13
     DEF Step, Deferral, Loading, Fire, Pending

--------------------------------------------------------------------------------
(* Who waits for what.                                                     *)

OverlapsKnown == Overlaps \subseteq overlaps

LEMMA OverlapsAreSeen == StackOK /\ InnermostOnly /\ OverlapsKnown => OverlapsSeen
<1> SUFFICES ASSUME StackOK, InnermostOnly, OverlapsKnown,
                    NEW t \in Threads, NEW u \in Threads, NEW i \in Frames(t), NEW j \in Frames(u),
                    Declares(t, i), Imports(u, j),
                    stack[u][j].mod = HookModule[stack[t][i].hook]
             PROVE  (IF t = u THEN "nested" ELSE "raced") \in overlaps
  BY DEF OverlapsSeen
<1>1. i = Depth(t) /\ Depth(t) \in Nat /\ ~Idle(t)
  BY FrameAt DEF InnermostOnly, Idle, Frames, Depth
<1>2. Top(t) = stack[t][i] /\ InFrame(t, "declare")
  BY <1>1, TopFrame DEF InFrame, Declares
<1>3. stack[u][j].mod \in Modules
  BY FrameAt, FrameTypes DEF Imports
<1>4. Overlap(t, u)
  BY <1>2, <1>3, ImportingFrames DEF Overlap
<1>5. <<t, u>> \in {q \in Threads \X Threads : Overlap(q[1], q[2])}
  BY <1>4
<1> QED
  BY <1>5 DEF OverlapsKnown, Overlaps

LEMMA OverlapsAreSeenNext == StackOK' /\ InnermostOnly' /\ OverlapsKnown' => OverlapsSeen'
BY OverlapsAreSeen, PTL

LEMMA ElsewhereReplaced ==
    ASSUME StackOK, DeclaresElsewhere, NEW t \in Threads, ~Idle(t), NEW f, Replaced(t, f),
           f.op = Top(t).op,
           f.op = "declare" => f.hook = Top(t).hook /\ Top(t).pc # "run",
           f.op = "import" => f.mod = Top(t).mod
    PROVE  DeclaresElsewhere'
<1>1. /\ \A u \in Threads : Frames(u)' = Frames(u)
      /\ stack[t][Depth(t)] = Top(t) /\ stack'[t][Depth(t)] = f
      /\ \A u \in Threads : \A i \in Frames(u) :
            (u = t /\ i = Depth(t)) \/ stack'[u][i] = stack[u][i]
  BY ReplacedFrames, TopFrame
<1>2. \A u \in Threads : \A i \in Frames(u) :
         /\ stack'[u][i].op = "import" =>
               stack[u][i].op = "import" /\ stack'[u][i].mod = stack[u][i].mod
         /\ stack'[u][i].op = "declare" /\ stack'[u][i].pc # "run" =>
               stack[u][i].op = "declare" /\ stack[u][i].pc # "run"
                 /\ stack'[u][i].hook = stack[u][i].hook
  BY <1>1
<1> QED
  BY <1>1, <1>2 DEF DeclaresElsewhere, Imports, Declares

LEMMA ElsewherePopped ==
    ASSUME StackOK, DeclaresElsewhere, NEW t \in Threads, ~Idle(t), Popped(t)
    PROVE  DeclaresElsewhere'
<1>1. \A u \in Threads : \A i \in Frames(u)' : i \in Frames(u) /\ stack'[u][i] = stack[u][i]
  BY PoppedFrames
<1> QED
  BY <1>1 DEF DeclaresElsewhere, Imports, Declares

LEMMA ElsewherePushed ==
    ASSUME StackOK, CallInv, DeclaresElsewhere, NEW t \in Threads, NEW f, Pushed(t, f),
           Idle(t) \/ RunsBody(t) \/ At(t, "import", "fire") \/ InFrame(t, "apply_all"),
           f.op = "declare" /\ f.pc # "run" =>
              \A i \in Frames(t) : Imports(t, i) => stack[t][i].mod # HookModule[f.hook]
    PROVE  DeclaresElsewhere'
<1>1. \A u \in Threads : \A i \in Frames(u)' :
         \/ u = t /\ i = Depth(t)' /\ stack'[u][i] = f
         \/ i \in Frames(u) /\ stack'[u][i] = stack[u][i]
  BY PushedFrames
<1>2. \A i \in Frames(t) : ~Declares(t, i)
  BY Callers
<1> QED
  BY <1>1, <1>2 DEF DeclaresElsewhere, Imports, Declares

LEMMA ElsewhereStep ==
    ASSUME HookTypes, CallInv, DeclaresElsewhere, NEW t \in Threads, Step(t)
    PROVE  DeclaresElsewhere'
<1>1. StackOK
  BY DEF HookTypes
<1>2. ASSUME NEW h \in Hooks, Declare(t, h) PROVE DeclaresElsewhere'
  <2>1. PICK pc \in {"queue", "run"} :
           /\ Pushed(t, DeclareFrame(h, pc))
           /\ pc = "queue" <=> sysModules[HookModule[h]] = "absent"
    BY <1>2, DeclareEffect
  <2> DEFINE f == DeclareFrame(h, pc)
  <2>2. Pushed(t, f) /\ f.op = "declare" /\ f.pc = pc /\ f.hook = h
    BY <2>1 DEF DeclareFrame
  <2> HIDE DEF f
  <2>3. Idle(t) \/ RunsBody(t)
    BY <1>2, DeclareEffect
  <2>4. pc # "run" => \A i \in Frames(t) : Imports(t, i) => stack[t][i].mod # HookModule[h]
    BY <1>1, <2>1, <2>3, Callers DEF CallInv, ImportProgress
  <2> QED
    BY <1>1, <2>2, <2>3, <2>4, ElsewherePushed
<1>3. ASSUME NEW m \in Modules, Import(t, m) PROVE DeclaresElsewhere'
  <2> DEFINE f == ImportFrame(m, "find", FALSE, <<>>)
  <2>1. /\ Pushed(t, f) /\ f.op = "import"
        /\ Idle(t) \/ RunsBody(t) \/ At(t, "import", "fire") \/ InFrame(t, "apply_all")
    BY <1>3, ImportEffect DEF ImportFrame
  <2> HIDE DEF f
  <2> QED
    BY <1>1, <2>1, ElsewherePushed
<1>4. CASE QueueHook(t)
  <2>1. PICK h \in Hooks : /\ Top(t) = DeclareFrame(h, "queue")
                           /\ Replaced(t, DeclareFrame(h, "install"))
    BY <1>4, QueueHookEffect
  <2> DEFINE f == DeclareFrame(h, "install")
  <2>2. /\ Replaced(t, f) /\ f.op = "declare" /\ f.hook = h
        /\ Top(t).op = "declare" /\ Top(t).pc = "queue" /\ Top(t).hook = h
    BY <2>1 DEF DeclareFrame
  <2>3. ~Idle(t)
    BY <1>4, QueueHookEffect
  <2> HIDE DEF f
  <2> QED
    BY <1>1, <2>2, <2>3, ElsewhereReplaced
<1>5. CASE InstallFinder(t) \/ RunNow(t) \/ BodyRaises(t) \/ FireRaises(t) \/ FireDone(t)
           \/ ApplyAllDone(t)
  <2>1. ~Idle(t) /\ Popped(t)
    BY <1>5, InstallFinderEffect, RunNowEffect, BodyRaisesEffect, FireRaisesEffect,
       FireDoneEffect, ApplyAllDoneEffect
  <2> QED
    BY <1>1, <2>1, ElsewherePopped
<1>6. ASSUME NEW m \in Modules, NEW f, Top(t).op = "import", Top(t).mod = m, ~Idle(t),
             Popped(t) \/ (Replaced(t, f) /\ f.op = "import" /\ f.mod = m)
      PROVE  DeclaresElsewhere'
  BY <1>1, <1>6, ElsewhereReplaced, ElsewherePopped
<1>7. CASE FindSpec(t)
  <2>1. PICK m \in Modules, c \in BOOLEAN, q \in Seq(Hooks) :
           /\ Top(t) = ImportFrame(m, "find", c, q)
           /\ Popped(t) \/ Replaced(t, ImportFrame(m, "exec", Claims(m), <<>>))
    BY <1>7, FindSpecEffect
  <2> DEFINE f == ImportFrame(m, "exec", Claims(m), <<>>)
  <2>2. /\ Top(t).op = "import" /\ Top(t).mod = m /\ f.op = "import" /\ f.mod = m
        /\ Popped(t) \/ Replaced(t, f)
    BY <2>1 DEF ImportFrame
  <2>3. ~Idle(t)
    BY <1>7, FindSpecEffect
  <2> HIDE DEF f
  <2> QED
    BY <1>6, <2>2, <2>3
<1>8. CASE FinishBody(t)
  <2>1. PICK m \in Modules, c \in BOOLEAN, q \in Seq(Hooks) :
           /\ Top(t) = ImportFrame(m, "exec", c, q)
           /\ Popped(t) \/ Replaced(t, ImportFrame(m, "fire", TRUE, pending[m]))
    BY <1>8, FinishBodyEffect
  <2> DEFINE f == ImportFrame(m, "fire", TRUE, pending[m])
  <2>2. /\ Top(t).op = "import" /\ Top(t).mod = m /\ f.op = "import" /\ f.mod = m
        /\ Popped(t) \/ Replaced(t, f)
    BY <2>1 DEF ImportFrame
  <2>3. ~Idle(t)
    BY <1>8, FinishBodyEffect
  <2> HIDE DEF f
  <2> QED
    BY <1>6, <2>2, <2>3
<1>9. CASE FireNext(t)
  <2>1. PICK m \in Modules, c \in BOOLEAN, q \in Seq(Hooks) :
           /\ Top(t) = ImportFrame(m, "fire", c, q)
           /\ Replaced(t, ImportFrame(m, "fire", TRUE, Tail(q)))
    BY <1>9, FireNextEffect
  <2> DEFINE f == ImportFrame(m, "fire", TRUE, Tail(q))
  <2>2. /\ Top(t).op = "import" /\ Top(t).mod = m /\ f.op = "import" /\ f.mod = m
        /\ Replaced(t, f)
    BY <2>1 DEF ImportFrame
  <2>3. ~Idle(t)
    BY <1>9, FireNextEffect
  <2> HIDE DEF f
  <2> QED
    BY <1>6, <2>2, <2>3
<1>10. CASE ApplyAll(t)
  <2> DEFINE f == ApplyFrame(keys, UNION {ToSet(pending[m]) : m \in Modules})
  <2>1. Pushed(t, f) /\ Idle(t) /\ f.op = "apply_all"
    BY <1>10, ApplyAllEffect DEF ApplyFrame
  <2> HIDE DEF f
  <2> QED
    BY <1>1, <2>1, ElsewherePushed
<1>11. CASE ApplyAllNext(t)
  <2>1. PICK todo \in Seq(Modules), asked \in SUBSET Hooks :
            Top(t) = ApplyFrame(todo, asked) /\ Replaced(t, ApplyFrame(Tail(todo), asked))
    BY <1>11, ApplyAllNextEffect
  <2> DEFINE f == ApplyFrame(Tail(todo), asked)
  <2>2. Replaced(t, f) /\ f.op = "apply_all" /\ Top(t).op = "apply_all"
    BY <2>1 DEF ApplyFrame
  <2>3. ~Idle(t)
    BY <1>11, ApplyAllNextEffect
  <2> HIDE DEF f
  <2> QED
    BY <1>1, <2>2, <2>3, ElsewhereReplaced
<1> QED
  BY <1>2, <1>3, <1>4, <1>5, <1>7, <1>8, <1>9, <1>10, <1>11
     DEF Step, Deferral, Loading, Fire, Pending

\* A step pushes a frame, or replaces or pops the innermost one.
Pushes(t) == \E f : Pushed(t, f)
Replaces(t) == \E f : Replaced(t, f)

LEMMA StepShape ==
    ASSUME HookTypes, NEW t \in Threads, Step(t)
    PROVE  Pushes(t) \/ (~Idle(t) /\ (Replaces(t) \/ Popped(t)))
<1> DEFINE Shape == Pushes(t) \/ (~Idle(t) /\ (Replaces(t) \/ Popped(t)))
<1>1. ASSUME NEW h \in Hooks, Declare(t, h) PROVE Shape
  BY <1>1, DeclareEffect DEF Pushes
<1>2. ASSUME NEW m \in Modules, Import(t, m) PROVE Shape
  BY <1>2, ImportEffect DEF Pushes
<1>3. CASE QueueHook(t)
  BY <1>3, QueueHookEffect DEF Replaces
<1>4. CASE InstallFinder(t)
  BY <1>4, InstallFinderEffect
<1>5. CASE RunNow(t)
  BY <1>5, RunNowEffect
<1>6. CASE FindSpec(t)
  BY <1>6, FindSpecEffect DEF Replaces
<1>7. CASE FinishBody(t)
  BY <1>7, FinishBodyEffect DEF Replaces
<1>8. CASE BodyRaises(t)
  BY <1>8, BodyRaisesEffect
<1>9. CASE FireNext(t)
  BY <1>9, FireNextEffect DEF Replaces
<1>10. CASE FireRaises(t)
  BY <1>10, FireRaisesEffect
<1>11. CASE FireDone(t)
  BY <1>11, FireDoneEffect
<1>12. CASE ApplyAll(t)
  BY <1>12, ApplyAllEffect DEF Pushes
<1>13. CASE ApplyAllNext(t)
  BY <1>13, ApplyAllNextEffect DEF Replaces
<1>14. CASE ApplyAllDone(t)
  BY <1>14, ApplyAllDoneEffect
<1> QED
  BY <1>1, <1>2, <1>3, <1>4, <1>5, <1>6, <1>7, <1>8, <1>9, <1>10, <1>11, <1>12, <1>13, <1>14
     DEF Step, Deferral, Loading, Fire, Pending

LEMMA StepFrames ==
    ASSUME HookTypes, NEW t \in Threads, Step(t)
    PROVE  /\ \A u \in Threads : \A i \in Frames(u) :
                 \/ stack[u][i].op = "apply_all"
                 \/ u = t /\ i = Depth(t) /\ stack[u][i] = Top(t) /\ ~Idle(t) /\ ~Pushes(t)
                 \/ i \in Frames(u)' /\ stack'[u][i] = stack[u][i]
           /\ \A u \in Threads : \A i \in Frames(u)' :
                 \/ u = t /\ i = Depth(t)'
                 \/ i \in Frames(u) /\ stack'[u][i] = stack[u][i]
<1>1. StackOK
  BY DEF HookTypes
<1>2. CASE Pushes(t)
  BY <1>1, <1>2, PushedFrames DEF Pushes
<1>3. CASE ~Idle(t) /\ Replaces(t) /\ ~Pushes(t)
  BY <1>1, <1>3, ReplacedFrames, TopFrame DEF Replaces
<1>4. CASE ~Idle(t) /\ Popped(t) /\ ~Pushes(t)
  BY <1>1, <1>4, PoppedFrames, TopFrame
<1> QED
  BY <1>2, <1>3, <1>4, StepShape

\* A finder is there, or comes, for every hook that is queued.
LEMMA FinderStep ==
    ASSUME HookTypes, CallInv, FinderComes, NEW t \in Threads, Step(t)
    PROVE  FinderComes'
<1>1. /\ StackOK
      /\ \A u \in Threads : \A i \in Frames(u) :
            \/ stack[u][i].op = "apply_all"
            \/ u = t /\ i = Depth(t) /\ stack[u][i] = Top(t) /\ ~Idle(t) /\ ~Pushes(t)
            \/ i \in Frames(u)' /\ stack'[u][i] = stack[u][i]
  BY StepFrames DEF HookTypes
<1>2. ASSUME \A m \in Modules : ToSet(pending'[m]) \subseteq ToSet(pending[m]), UNCHANGED finder,
             Pushes(t) \/ ~(Top(t).op = "declare" /\ Top(t).pc = "install")
      PROVE  FinderComes'
  <2>1. \A u \in Threads : \A i \in Frames(u) :
           Declares(u, i) /\ stack[u][i].pc = "install" =>
              i \in Frames(u)' /\ stack'[u][i] = stack[u][i]
    BY <1>1, <1>2 DEF Declares
  <2> QED
    BY <1>2, <2>1 DEF FinderComes, Declares
<1>3. ASSUME UNCHANGED <<finder, pending>>,
             Pushes(t) \/ ~(Top(t).op = "declare" /\ Top(t).pc = "install")
      PROVE  FinderComes'
  BY <1>2, <1>3
<1>4. ASSUME NEW h \in Hooks, Declare(t, h) PROVE FinderComes'
  BY <1>3, <1>4, DeclareEffect DEF Pushes
<1>5. ASSUME NEW m \in Modules, Import(t, m) PROVE FinderComes'
  BY <1>3, <1>5, ImportEffect DEF Pushes
<1>6. CASE QueueHook(t)
  <2>1. PICK h \in Hooks :
           /\ Top(t) = DeclareFrame(h, "queue")
           /\ Replaced(t, DeclareFrame(h, "install"))
           /\ pending' = [pending EXCEPT ![HookModule[h]] = Append(pending[HookModule[h]], h)]
    BY <1>6, QueueHookEffect
  <2>2. ~Idle(t) /\ UNCHANGED finder
    BY <1>6, QueueHookEffect
  <2>3. /\ Depth(t) \in Frames(t)' /\ stack'[t][Depth(t)] = DeclareFrame(h, "install")
        /\ Top(t).pc # "install"
    BY <1>1, <2>1, ReplacedFrames DEF DeclareFrame
  <2>4. stack'[t][Depth(t)].op = "declare" /\ stack'[t][Depth(t)].pc = "install"
        /\ stack'[t][Depth(t)].hook = h
    BY <2>3 DEF DeclareFrame
  <2>5. \A m \in Modules : ToSet(pending'[m]) \subseteq ToSet(pending[m]) \cup {h}
    <3>1. ToSet(Append(pending[HookModule[h]], h)) = ToSet(pending[HookModule[h]]) \cup {h}
      BY HookOfModule, AppendElements DEF HookTypes
    <3> QED
      BY <2>1, <3>1, HookOfModule DEF HookTypes
  <2>6. \A u \in Threads : \A i \in Frames(u) :
           Declares(u, i) /\ stack[u][i].pc = "install" =>
              i \in Frames(u)' /\ stack'[u][i] = stack[u][i]
    BY <1>1, <2>3 DEF Declares
  <2> SUFFICES ASSUME NEW m \in Modules, NEW g \in ToSet(pending'[m]), ~finder
               PROVE  \E u \in Threads : \E i \in Frames(u)' :
                         /\ stack'[u][i].op = "declare" /\ stack'[u][i].pc = "install"
                         /\ stack'[u][i].hook = g
    BY <2>2 DEF FinderComes, Declares
  <2>7. CASE g = h
    BY <2>3, <2>4, <2>7
  <2>8. CASE g # h
    <3>1. g \in ToSet(pending[m])
      BY <2>5, <2>8
    <3> QED
      BY <2>6, <3>1 DEF FinderComes, Declares
  <2> QED
    BY <2>7, <2>8
<1>7. CASE InstallFinder(t)
  BY <1>7, InstallFinderEffect DEF FinderComes
<1>8. CASE RunNow(t)
  <2>1. Top(t).pc # "install" /\ UNCHANGED <<finder, pending>>
    BY <1>8, RunNowEffect DEF DeclareFrame
  <2> QED
    BY <1>3, <2>1
<1>9. CASE FindSpec(t) \/ BodyRaises(t) \/ FireNext(t) \/ FireDone(t)
  <2>1. Top(t).op = "import"
    BY <1>9 DEF FindSpec, BodyRaises, FireNext, FireDone, RunsBody, At, InFrame
  <2>2. UNCHANGED <<finder, pending>>
    BY <1>9 DEF FindSpec, BodyRaises, FireNext, FireDone
  <2> QED
    BY <1>3, <2>1, <2>2
<1>10. CASE FinishBody(t)
  <2>1. PICK m \in Modules, c \in BOOLEAN, q \in Seq(Hooks) :
           /\ Top(t) = ImportFrame(m, "exec", c, q)
           /\ pending' = [pending EXCEPT ![m] = <<>>] \/ UNCHANGED pending
    BY <1>10, FinishBodyEffect
  <2>2. Top(t).op = "import" /\ UNCHANGED finder
    BY <1>10, <2>1, FinishBodyEffect DEF ImportFrame
  <2>3. \A n \in Modules : ToSet(pending'[n]) \subseteq ToSet(pending[n])
    BY <2>1, NoElements DEF HookTypes
  <2> QED
    BY <1>2, <2>2, <2>3
<1>11. CASE FireRaises(t)
  <2>1. PICK m \in Modules, c \in BOOLEAN, q \in Seq(Hooks) : Top(t) = ImportFrame(m, "fire", c, q)
    BY <1>11, FireRaisesEffect
  <2>2. /\ Top(t).op = "import" /\ Top(t).pc = "fire" /\ ~Idle(t) /\ UNCHANGED finder
    BY <1>11, <2>1, FireRaisesEffect DEF ImportFrame
  <2>3. finder
    BY <2>2, InnermostProgress
  <2> QED
    BY <2>2, <2>3 DEF FinderComes
<1>12. CASE ApplyAll(t)
  BY <1>3, <1>12, ApplyAllEffect DEF Pushes
<1>13. CASE ApplyAllNext(t) \/ ApplyAllDone(t)
  <2>1. Top(t).op = "apply_all"
    BY <1>13 DEF ApplyAllNext, ApplyAllDone, InFrame
  <2>2. UNCHANGED <<finder, pending>>
    BY <1>13 DEF ApplyAllNext, ApplyAllDone
  <2> QED
    BY <1>3, <2>1, <2>2
<1> QED
  BY <1>4, <1>5, <1>6, <1>7, <1>8, <1>9, <1>10, <1>11, <1>12, <1>13
     DEF Step, Deferral, Loading, Fire, Pending

\* A frame that is to run or to queue hook h.
LEMMA CarriedFrames ==
    /\ StackOK => \A h \in Hooks :
          Carried(h) <=> \E t \in Threads : \E i \in Frames(t) : HeldBy(stack[t][i], h)
    /\ StackOK' => \A h \in Hooks :
          Carried(h)' <=> \E t \in Threads : \E i \in Frames(t)' : HeldBy(stack'[t][i], h)
<1>1. StackOK => \A t \in Threads : DOMAIN stack[t] = Frames(t)
  BY DEF StackOK, Frames, Depth
<1>2. StackOK' => \A t \in Threads : DOMAIN stack'[t] = Frames(t)'
  BY DEF StackOK, Frames, Depth
<1> QED
  BY <1>1, <1>2 DEF Carried, HeldBy

\* Without a race, no thread imports the module that a patch is queued for.
LEMMA Apart ==
    ASSUME OverlapsSeen, DeclaresElsewhere, Unraced
    PROVE  \A t, u \in Threads : \A i \in Frames(t), j \in Frames(u) :
              Declares(t, i) /\ stack[t][i].pc # "run" /\ Imports(u, j) =>
                 stack[u][j].mod # HookModule[stack[t][i].hook]
BY DEF OverlapsSeen, DeclaresElsewhere, Unraced

LEMMA RestKept ==
    ASSUME StackOK, StackOK', RestInv, UNCHANGED <<pending, status, reported>>,
           \A u \in Threads : \A i \in Frames(u)' :
              LET f == stack'[u][i]
              IN  /\ f.op = "import" /\ (f.pc = "fire" \/ (f.pc = "exec" /\ ~f.claimed)) =>
                        i \in Frames(u) /\ f = stack[u][i]
                  /\ f.op = "declare" /\ f.pc = "queue" =>
                        /\ i \in Frames(u) /\ f = stack[u][i]
                        /\ sysModules'[HookModule[f.hook]] = sysModules[HookModule[f.hook]],
           \A u \in Threads : \A i \in Frames(u) : \A h \in Hooks :
              HeldBy(stack[u][i], h) => i \in Frames(u)' /\ stack'[u][i] = stack[u][i],
           \A m \in Modules \ Namespaces :
              sysModules'[m] = "loaded" => sysModules[m] = "loaded" \/ pending[m] = <<>>
    PROVE  RestInv'
<1> USE DEF Imports, Declares
<1>1. NothingMissed'
  BY DEF RestInv, NothingMissed
<1>2. QueuesInTime'
  BY DEF RestInv, QueuesInTime
<1>3. NothingLost'
  BY CarriedFrames DEF RestInv, NothingLost, Waiting, Queued
<1>4. NoneLeftBehind'
  BY DEF RestInv, NoneLeftBehind
<1> QED
  BY <1>1, <1>2, <1>3, <1>4 DEF RestInv

\* A call returns with no hook in hand.
LEMMA RestReturn ==
    ASSUME StackOK, StackOK', RestInv, NEW t \in Threads, ~Idle(t), Popped(t),
           \A h \in Hooks : ~HeldBy(Top(t), h),
           UNCHANGED <<sysModules, pending, status, reported>>
    PROVE  RestInv'
<1>1. /\ \A u \in Threads : \A i \in Frames(u)' : i \in Frames(u) /\ stack'[u][i] = stack[u][i]
      /\ \A u \in Threads : \A i \in Frames(u) :
            \/ i \in Frames(u)'
            \/ u = t /\ i = Depth(t)
            \/ u = t /\ stack[u][i].op = "apply_all"
      /\ stack[t][Depth(t)] = Top(t)
  BY PoppedFrames, TopFrame
<1>2. \A u \in Threads : \A i \in Frames(u) : \A h \in Hooks :
         HeldBy(stack[u][i], h) => i \in Frames(u)' /\ stack'[u][i] = stack[u][i]
  BY <1>1 DEF HeldBy
<1> QED
  BY <1>1, <1>2, RestKept

\* An import ends with no hook in hand.
LEMMA RestImportEnds ==
    ASSUME HookTypes, HookTypes', CallInv, OverlapsSeen, DeclaresElsewhere, Unraced, RestInv,
           NEW t \in Threads, ~Idle(t), Popped(t),
           NEW m \in Modules, Top(t).op = "import", Top(t).mod = m, Top(t).hooks = <<>>,
           NEW end, end = "loaded" => m \in Namespaces \/ pending[m] = <<>>,
           sysModules' = [sysModules EXCEPT ![m] = end],
           UNCHANGED <<pending, status, reported>>
    PROVE  RestInv'
<1> USE DEF Imports, Declares
<1>1. StackOK /\ StackOK'
  BY DEF HookTypes
<1>2. /\ \A u \in Threads : \A i \in Frames(u)' : i \in Frames(u) /\ stack'[u][i] = stack[u][i]
      /\ \A u \in Threads : \A i \in Frames(u) :
            \/ i \in Frames(u)'
            \/ u = t /\ i = Depth(t)
            \/ u = t /\ stack[u][i].op = "apply_all"
      /\ Depth(t) \in Frames(t) /\ stack[t][Depth(t)] = Top(t)
  BY <1>1, PoppedFrames, TopFrame
<1>3. \A u \in Threads : \A i \in Frames(u) : \A h \in Hooks :
         HeldBy(stack[u][i], h) => i \in Frames(u)' /\ stack'[u][i] = stack[u][i]
  BY <1>2, NoElements DEF HeldBy
<1>4. \A u \in Threads : \A i \in Frames(u)' :
         stack'[u][i].op = "declare" /\ stack'[u][i].pc = "queue" =>
            sysModules'[HookModule[stack'[u][i].hook]] = sysModules[HookModule[stack'[u][i].hook]]
  <2> SUFFICES ASSUME NEW u \in Threads, NEW i \in Frames(u)',
                      stack'[u][i].op = "declare", stack'[u][i].pc = "queue"
               PROVE  sysModules'[HookModule[stack'[u][i].hook]]
                         = sysModules[HookModule[stack'[u][i].hook]]
    OBVIOUS
  <2>1. i \in Frames(u) /\ stack'[u][i] = stack[u][i]
    BY <1>2
  <2>2. HookModule[stack[u][i].hook] # m
    BY <1>2, <2>1, Apart
  <2>3. HookModule[stack[u][i].hook] \in Modules
    BY <1>1, <2>1, FrameAt, FrameTypes, HookOfModule
  <2> QED
    BY <2>1, <2>2, <2>3 DEF HookTypes
<1>5. \A n \in Modules \ Namespaces :
         sysModules'[n] = "loaded" => sysModules[n] = "loaded" \/ pending[n] = <<>>
  BY DEF HookTypes
<1> QED
  BY <1>1, <1>2, <1>3, <1>4, <1>5, RestKept

\* A call that holds no hook calls.
LEMMA RestCall ==
    ASSUME StackOK, StackOK', RestInv, NEW t \in Threads, NEW f, Pushed(t, f),
           f.op = "apply_all" \/ (f.op = "import" /\ f.pc = "find"),
           UNCHANGED <<sysModules, pending, status, reported>>
    PROVE  RestInv'
<1>1. /\ \A u \in Threads : \A i \in Frames(u) : i \in Frames(u)' /\ stack'[u][i] = stack[u][i]
      /\ \A u \in Threads : \A i \in Frames(u)' :
            \/ u = t /\ i = Depth(t)' /\ stack'[u][i] = f
            \/ i \in Frames(u) /\ stack'[u][i] = stack[u][i]
  BY PushedFrames
<1> QED
  BY <1>1, RestKept

LEMMA RestDeclare ==
    ASSUME HookTypes, HookTypes', RestInv, NEW t \in Threads, NEW h \in Hooks, Declare(t, h)
    PROVE  RestInv'
<1> USE DEF Imports, Declares
<1>1. PICK pc \in {"queue", "run"} :
         /\ Pushed(t, DeclareFrame(h, pc))
         /\ pc = "queue" <=> sysModules[HookModule[h]] = "absent"
  BY DeclareEffect
<1> DEFINE f == DeclareFrame(h, pc)
<1>2. /\ UNCHANGED <<sysModules, pending, reported>>
      /\ \A g \in Hooks : g # h => status'[g] = status[g]
      /\ StackOK /\ StackOK' /\ Pushed(t, f)
  BY <1>1, DeclareEffect DEF HookTypes
<1>3. f.op = "declare" /\ f.hook = h /\ f.pc = pc
  BY DEF DeclareFrame
<1> HIDE DEF f
<1>4. /\ \A u \in Threads : \A i \in Frames(u) : i \in Frames(u)' /\ stack'[u][i] = stack[u][i]
      /\ \A u \in Threads : \A i \in Frames(u)' :
            \/ u = t /\ i = Depth(t)' /\ stack'[u][i] = f
            \/ i \in Frames(u) /\ stack'[u][i] = stack[u][i]
      /\ Depth(t)' \in Frames(t)' /\ stack'[t][Depth(t)'] = f
  BY <1>2, PushedFrames
<1>5. NothingMissed'
  BY <1>2, <1>3, <1>4 DEF RestInv, NothingMissed
<1>6. QueuesInTime'
  BY <1>1, <1>2, <1>3, <1>4 DEF RestInv, QueuesInTime
<1>7. NothingLost'
  <2> SUFFICES ASSUME NEW g \in Hooks, Waiting(g)' PROVE Queued(g)' \/ Carried(g)'
    BY DEF NothingLost
  <2>1. CASE g = h
    <3>1. HeldBy(stack'[t][Depth(t)'], h)
      BY <1>1, <1>3, <1>4 DEF HeldBy
    <3> QED
      BY <1>2, <1>4, <2>1, <3>1, CarriedFrames
  <2>2. CASE g # h
    <3>1. Queued(g) \/ \E u \in Threads : \E i \in Frames(u) : HeldBy(stack[u][i], g)
      BY <1>2, <2>2, CarriedFrames DEF RestInv, NothingLost, Waiting
    <3> QED
      BY <1>2, <1>4, <3>1, CarriedFrames DEF Queued
  <2> QED
    BY <2>1, <2>2
<1>8. NoneLeftBehind'
  BY <1>2 DEF RestInv, NoneLeftBehind
<1> QED
  BY <1>5, <1>6, <1>7, <1>8 DEF RestInv

LEMMA RestQueue ==
    ASSUME HookTypes, HookTypes', OverlapsSeen, DeclaresElsewhere, Unraced, RestInv,
           NEW t \in Threads, QueueHook(t)
    PROVE  RestInv'
<1> USE DEF Imports, Declares
<1>1. PICK h \in Hooks :
         /\ Top(t) = DeclareFrame(h, "queue")
         /\ Replaced(t, DeclareFrame(h, "install"))
         /\ pending' = [pending EXCEPT ![HookModule[h]] = Append(pending[HookModule[h]], h)]
  BY QueueHookEffect
<1> DEFINE m == HookModule[h]
<1>2. /\ UNCHANGED <<sysModules, status, reported>> /\ ~Idle(t)
      /\ StackOK /\ StackOK' /\ m \in Modules
  BY QueueHookEffect, HookOfModule DEF HookTypes
<1>3. /\ \A u \in Threads : Frames(u)' = Frames(u)
      /\ \A u \in Threads : \A i \in Frames(u) :
            (u = t /\ i = Depth(t)) \/ stack'[u][i] = stack[u][i]
      /\ Depth(t) \in Frames(t) /\ stack[t][Depth(t)] = Top(t)
      /\ stack'[t][Depth(t)] = DeclareFrame(h, "install")
  BY <1>1, <1>2, ReplacedFrames, TopFrame
<1>4. /\ stack[t][Depth(t)].op = "declare" /\ stack[t][Depth(t)].pc = "queue"
      /\ stack[t][Depth(t)].hook = h
      /\ stack'[t][Depth(t)].op = "declare" /\ stack'[t][Depth(t)].pc = "install"
  BY <1>1, <1>3 DEF DeclareFrame
<1>5. /\ \A n \in Modules : n # m => pending'[n] = pending[n]
      /\ ToSet(pending'[m]) = ToSet(pending[m]) \cup {h}
  <2>1. /\ pending'[m] = Append(pending[m], h) /\ pending[m] \in Seq(Hooks)
        /\ \A n \in Modules : n # m => pending'[n] = pending[n]
    BY <1>1, <1>2 DEF HookTypes
  <2> QED
    BY <2>1, AppendElements
<1>6. NothingMissed'
  <2>1. \A u \in Threads : \A i \in Frames(u) :
           Imports(u, i) => stack[u][i].mod \in Modules /\ stack[u][i].mod # m
    BY <1>2, <1>3, <1>4, Apart, FrameAt, FrameTypes
  <2> QED
    BY <1>3, <1>4, <1>5, <2>1 DEF RestInv, NothingMissed
<1>7. QueuesInTime'
  BY <1>2, <1>3, <1>4 DEF RestInv, QueuesInTime
<1>8. NothingLost'
  <2> SUFFICES ASSUME NEW g \in Hooks, Waiting(g)' PROVE Queued(g)' \/ Carried(g)'
    BY DEF NothingLost
  <2>1. CASE g = h
    BY <1>5, <2>1 DEF Queued
  <2>2. CASE g # h
    <3>1. Waiting(g)
      BY <1>2 DEF Waiting
    <3>2. CASE Queued(g)
      BY <1>5, <3>2, HookOfModule DEF Queued
    <3>3. CASE \E u \in Threads : \E i \in Frames(u) : HeldBy(stack[u][i], g)
      <4>1. \E u \in Threads : \E i \in Frames(u)' : HeldBy(stack'[u][i], g)
        BY <1>3, <1>4, <2>2, <3>3 DEF HeldBy
      <4> QED
        BY <1>2, <4>1, CarriedFrames
    <3> QED
      BY <1>2, <3>1, <3>2, <3>3, CarriedFrames DEF RestInv, NothingLost
  <2> QED
    BY <2>1, <2>2
<1>9. NoneLeftBehind'
  BY <1>2, <1>3, <1>4, <1>5 DEF RestInv, NoneLeftBehind, QueuesInTime
<1> QED
  BY <1>6, <1>7, <1>8, <1>9 DEF RestInv

LEMMA RestRun ==
    ASSUME HookTypes, HookTypes', RestInv, NEW t \in Threads, RunNow(t)
    PROVE  RestInv'
<1> USE DEF Imports, Declares
<1>1. PICK h \in Hooks :
         /\ Top(t) = DeclareFrame(h, "run")
         /\ \/ HookReturns(h) /\ UNCHANGED reported
            \/ reported' = reported \cup {h} /\ UNCHANGED <<status, live>>
  BY RunNowEffect
<1>2. /\ UNCHANGED <<sysModules, pending>> /\ ~Idle(t) /\ Popped(t)
      /\ StackOK /\ StackOK'
  BY RunNowEffect DEF HookTypes
<1>3. \A g \in Hooks : Waiting(g)' => g # h /\ Waiting(g)
  BY <1>1, Returns DEF Waiting
<1>4. /\ \A u \in Threads : \A i \in Frames(u)' : i \in Frames(u) /\ stack'[u][i] = stack[u][i]
      /\ \A u \in Threads : \A i \in Frames(u) :
            \/ i \in Frames(u)'
            \/ u = t /\ i = Depth(t)
            \/ u = t /\ stack[u][i].op = "apply_all"
      /\ stack[t][Depth(t)] = Top(t)
      /\ Top(t).op = "declare" /\ Top(t).hook = h
  BY <1>1, <1>2, PoppedFrames, TopFrame DEF DeclareFrame
<1>5. NothingMissed' /\ QueuesInTime' /\ NoneLeftBehind'
  BY <1>2, <1>4 DEF RestInv, NothingMissed, QueuesInTime, NoneLeftBehind
<1>6. NothingLost'
  <2> SUFFICES ASSUME NEW g \in Hooks, Waiting(g)' PROVE Queued(g)' \/ Carried(g)'
    BY DEF NothingLost
  <2>1. g # h /\ Waiting(g)
    BY <1>3
  <2>2. Queued(g) \/ \E u \in Threads : \E i \in Frames(u) : HeldBy(stack[u][i], g)
    BY <1>2, <2>1, CarriedFrames DEF RestInv, NothingLost
  <2>3. \A u \in Threads : \A i \in Frames(u) : HeldBy(stack[u][i], g) =>
           i \in Frames(u)' /\ stack'[u][i] = stack[u][i]
    BY <1>4, <2>1 DEF HeldBy
  <2> QED
    BY <1>2, <2>2, <2>3, CarriedFrames DEF Queued
<1> QED
  BY <1>5, <1>6 DEF RestInv

\* The module is found: whether its import fires the hooks is decided.
LEMMA RestFind ==
    ASSUME HookTypes, HookTypes', CallInv, CustodyInv, OverlapsSeen, DeclaresElsewhere,
           FinderComes, Unraced, RestInv,
           NEW t \in Threads, ~Idle(t),
           NEW m \in Modules, Top(t).op = "import", Top(t).mod = m, Top(t).hooks = <<>>,
           NEW f, Replaced(t, f), f.op = "import", f.mod = m, f.pc = "exec",
           f.claimed = Claims(m), f.hooks = <<>>,
           sysModules' = [sysModules EXCEPT ![m] = "executing"],
           UNCHANGED <<pending, status, reported>>
    PROVE  RestInv'
<1> USE DEF Imports, Declares
<1>1. /\ StackOK /\ StackOK'
      /\ sysModules'[m] = "executing" /\ \A n \in Modules : n # m => sysModules'[n] = sysModules[n]
  BY DEF HookTypes
<1>2. /\ \A u \in Threads : Frames(u)' = Frames(u)
      /\ \A u \in Threads : \A i \in Frames(u) :
            (u = t /\ i = Depth(t)) \/ stack'[u][i] = stack[u][i]
      /\ Depth(t) \in Frames(t) /\ stack[t][Depth(t)] = Top(t)
      /\ stack'[t][Depth(t)] = f
  BY <1>1, ReplacedFrames, TopFrame
<1>3. m \notin Namespaces /\ ~Claims(m) => pending[m] = <<>>
  <2> SUFFICES ASSUME ~finder, pending[m] # <<>> PROVE FALSE
    BY DEF Claims
  <2>1. PICK h \in ToSet(pending[m]) : h \in Hooks /\ HookModule[h] = m
    BY Elements DEF HookTypes, CustodyInv, QueueInv
  <2>2. PICK u \in Threads : \E i \in Frames(u) :
           Declares(u, i) /\ stack[u][i].pc = "install" /\ stack[u][i].hook = h
    BY <2>1 DEF FinderComes
  <2> QED
    BY <1>2, <2>1, <2>2, Apart
<1>4. NothingMissed'
  BY <1>2, <1>3 DEF RestInv, NothingMissed
<1>5. QueuesInTime'
  <2> SUFFICES ASSUME NEW u \in Threads, NEW i \in Frames(u)',
                      stack'[u][i].op = "declare", stack'[u][i].pc = "queue"
               PROVE  sysModules'[HookModule[stack'[u][i].hook]] = "absent"
    BY DEF QueuesInTime
  <2>1. i \in Frames(u) /\ stack'[u][i] = stack[u][i]
    BY <1>2
  <2>2. HookModule[stack[u][i].hook] # m /\ HookModule[stack[u][i].hook] \in Modules
    BY <1>1, <1>2, <2>1, Apart, FrameAt, FrameTypes, HookOfModule
  <2> QED
    BY <1>1, <2>1, <2>2 DEF RestInv, QueuesInTime
<1>6. NothingLost'
  <2> SUFFICES ASSUME NEW g \in Hooks, Waiting(g)' PROVE Queued(g)' \/ Carried(g)'
    BY DEF NothingLost
  <2>1. Queued(g) \/ \E u \in Threads : \E i \in Frames(u) : HeldBy(stack[u][i], g)
    BY <1>1, CarriedFrames DEF RestInv, NothingLost, Waiting
  <2>2. \A u \in Threads : \A i \in Frames(u) : HeldBy(stack[u][i], g) =>
           stack'[u][i] = stack[u][i]
    BY <1>2, NoElements DEF HeldBy
  <2> QED
    BY <1>1, <1>2, <2>1, <2>2, CarriedFrames DEF Queued
<1>7. NoneLeftBehind'
  BY <1>1 DEF RestInv, NoneLeftBehind
<1> QED
  BY <1>4, <1>5, <1>6, <1>7 DEF RestInv

\* fire() takes the queue of the module.
LEMMA RestTake ==
    ASSUME HookTypes, HookTypes', CallInv, CustodyInv, RestInv,
           NEW t \in Threads, ~Idle(t),
           NEW m \in Modules, Top(t).op = "import", Top(t).mod = m, Top(t).hooks = <<>>,
           NEW f, Replaced(t, f), f.op = "import", f.mod = m, f.pc = "fire",
           f.hooks = pending[m], pending' = [pending EXCEPT ![m] = <<>>],
           UNCHANGED <<sysModules, status, reported>>
    PROVE  RestInv'
<1> USE DEF Imports, Declares
<1>1. /\ StackOK /\ StackOK'
      /\ pending'[m] = <<>> /\ \A n \in Modules : n # m => pending'[n] = pending[n]
  BY DEF HookTypes
<1>2. /\ \A u \in Threads : Frames(u)' = Frames(u)
      /\ \A u \in Threads : \A i \in Frames(u) :
            (u = t /\ i = Depth(t)) \/ stack'[u][i] = stack[u][i]
      /\ Depth(t) \in Frames(t) /\ stack[t][Depth(t)] = Top(t)
      /\ stack'[t][Depth(t)] = f
  BY <1>1, ReplacedFrames, TopFrame
<1>3. \A n \in Modules : pending[n] = <<>> => pending'[n] = <<>>
  BY <1>1
<1>4. NothingMissed'
  <2>1. \A u \in Threads : \A i \in Frames(u) : Imports(u, i) => stack[u][i].mod \in Modules
    BY <1>1, FrameAt, FrameTypes
  <2> QED
    BY <1>1, <1>2, <1>3, <2>1 DEF RestInv, NothingMissed
<1>5. QueuesInTime'
  BY <1>2 DEF RestInv, QueuesInTime
<1>6. NothingLost'
  <2> SUFFICES ASSUME NEW g \in Hooks, Waiting(g)' PROVE Queued(g)' \/ Carried(g)'
    BY DEF NothingLost
  <2>1. Queued(g) \/ \E u \in Threads : \E i \in Frames(u) : HeldBy(stack[u][i], g)
    BY <1>1, CarriedFrames DEF RestInv, NothingLost, Waiting
  <2>2. \A u \in Threads : \A i \in Frames(u) : HeldBy(stack[u][i], g) =>
           stack'[u][i] = stack[u][i]
    BY <1>2, NoElements DEF HeldBy
  <2>3. CASE Queued(g) /\ HookModule[g] = m
    <3>1. HeldBy(stack'[t][Depth(t)], g)
      BY <1>2, <2>3 DEF HeldBy, Queued
    <3> QED
      BY <1>1, <1>2, <3>1, CarriedFrames
  <2>4. CASE Queued(g) /\ HookModule[g] # m
    BY <1>1, <2>4, HookOfModule DEF Queued
  <2> QED
    BY <1>1, <1>2, <2>1, <2>2, <2>3, <2>4, CarriedFrames
<1>7. NoneLeftBehind'
  BY <1>3 DEF RestInv, NoneLeftBehind
<1> QED
  BY <1>4, <1>5, <1>6, <1>7 DEF RestInv

LEMMA RestFireNext ==
    ASSUME HookTypes, HookTypes', RestInv, NEW t \in Threads, FireNext(t)
    PROVE  RestInv'
<1> USE DEF Imports, Declares
<1>1. PICK m \in Modules, c \in BOOLEAN, q \in Seq(Hooks) :
         /\ Top(t) = ImportFrame(m, "fire", c, q) /\ q # <<>>
         /\ HookReturns(Head(q))
         /\ Replaced(t, ImportFrame(m, "fire", TRUE, Tail(q)))
  BY FireNextEffect
<1> DEFINE f == ImportFrame(m, "fire", TRUE, Tail(q))
           h == Head(q)
<1>2. /\ UNCHANGED <<sysModules, pending, reported>> /\ ~Idle(t)
      /\ StackOK /\ StackOK'
  BY FireNextEffect DEF HookTypes
<1>3. /\ Top(t).op = "import" /\ Top(t).mod = m /\ Top(t).pc = "fire" /\ Top(t).hooks = q
      /\ f.op = "import" /\ f.mod = m /\ f.pc = "fire" /\ f.hooks = Tail(q)
  BY <1>1 DEF ImportFrame
<1>4. ToSet(q) = {h} \cup ToSet(Tail(q)) /\ h \in Hooks
  BY <1>1, TailElements
<1>5. /\ \A u \in Threads : Frames(u)' = Frames(u)
      /\ \A u \in Threads : \A i \in Frames(u) :
            (u = t /\ i = Depth(t)) \/ stack'[u][i] = stack[u][i]
      /\ Depth(t) \in Frames(t) /\ stack[t][Depth(t)] = Top(t)
      /\ stack'[t][Depth(t)] = f
  BY <1>1, <1>2, ReplacedFrames, TopFrame
<1>6. \A g \in Hooks : Waiting(g)' => g # h /\ Waiting(g)
  BY <1>1, <1>2, <1>4, Returns DEF Waiting
<1>7. \A g \in Hooks : \A u \in Threads : \A i \in Frames(u) :
         g # h /\ HeldBy(stack[u][i], g) => HeldBy(stack'[u][i], g)
  BY <1>3, <1>4, <1>5 DEF HeldBy
<1> HIDE DEF f, h
<1>8. NothingMissed'
  BY <1>2, <1>3, <1>5 DEF RestInv, NothingMissed
<1>9. QueuesInTime'
  BY <1>2, <1>3, <1>5 DEF RestInv, QueuesInTime
<1>10. NothingLost'
  BY <1>2, <1>5, <1>6, <1>7, CarriedFrames DEF RestInv, NothingLost, Queued
<1>11. NoneLeftBehind'
  BY <1>2 DEF RestInv, NoneLeftBehind
<1> QED
  BY <1>8, <1>9, <1>10, <1>11 DEF RestInv

\* A hook has raised: what is put back overwrites a queue that is empty.
LEMMA RestPutBack ==
    ASSUME HookTypes, HookTypes', CallInv, CustodyInv, RestInv, NEW t \in Threads, FireRaises(t)
    PROVE  RestInv'
<1> USE DEF Imports, Declares
<1>1. PICK m \in Modules, c \in BOOLEAN, q \in Seq(Hooks) :
         /\ Top(t) = ImportFrame(m, "fire", c, q)
         /\ pending' = [pending EXCEPT ![m] = q]
         /\ sysModules' = [sysModules EXCEPT ![m] = "absent"]
  BY FireRaisesEffect
<1>2. /\ UNCHANGED <<status, reported>> /\ ~Idle(t) /\ Popped(t)
      /\ StackOK /\ StackOK'
  BY FireRaisesEffect DEF HookTypes
<1>3. Top(t).op = "import" /\ Top(t).mod = m /\ Top(t).pc = "fire" /\ Top(t).hooks = q
  BY <1>1 DEF ImportFrame
<1>4. /\ \A u \in Threads : \A i \in Frames(u)' :
            i \in Frames(u) /\ stack'[u][i] = stack[u][i] /\ (u # t \/ i # Depth(t))
      /\ \A u \in Threads : \A i \in Frames(u) :
            \/ i \in Frames(u)'
            \/ u = t /\ i = Depth(t)
            \/ u = t /\ stack[u][i].op = "apply_all"
      /\ Depth(t) \in Frames(t) /\ stack[t][Depth(t)] = Top(t)
  BY <1>2, PoppedFrames, TopFrame
<1>5. /\ \A u \in Threads : \A i \in Frames(u) :
            Imports(u, i) /\ stack[u][i].mod = m => u = t /\ i = Depth(t)
      /\ m \notin Namespaces
  BY <1>2, <1>3, InnermostProgress
<1>6. pending[m] = <<>>
  BY <1>3, <1>4, <1>5 DEF RestInv, NothingMissed
<1>7. /\ pending'[m] = q /\ \A n \in Modules : n # m => pending'[n] = pending[n]
      /\ sysModules'[m] = "absent"
      /\ \A n \in Modules : n # m => sysModules'[n] = sysModules[n]
  BY <1>1 DEF HookTypes
<1>8. NothingMissed'
  <2>1. \A u \in Threads : \A i \in Frames(u) : Imports(u, i) => stack[u][i].mod \in Modules
    BY <1>2, FrameAt, FrameTypes
  <2> QED
    BY <1>4, <1>5, <1>7, <2>1 DEF RestInv, NothingMissed
<1>9. QueuesInTime'
  <2>1. \A u \in Threads : \A i \in Frames(u) :
           Declares(u, i) => HookModule[stack[u][i].hook] \in Modules
    BY <1>2, FrameAt, FrameTypes, HookOfModule
  <2> QED
    BY <1>4, <1>7, <2>1 DEF RestInv, QueuesInTime
<1>10. NothingLost'
  <2> SUFFICES ASSUME NEW g \in Hooks, Waiting(g)' PROVE Queued(g)' \/ Carried(g)'
    BY DEF NothingLost
  <2>1. Queued(g) \/ \E u \in Threads : \E i \in Frames(u) : HeldBy(stack[u][i], g)
    BY <1>2, CarriedFrames DEF RestInv, NothingLost, Waiting
  <2>2. CASE Queued(g)
    BY <1>6, <1>7, <2>2, HookOfModule, NoElements DEF Queued
  <2>3. CASE HeldBy(Top(t), g)
    <3>1. g \in ToSet(q)
      BY <1>3, <2>3 DEF HeldBy
    <3>2. HookModule[g] = m
      BY <1>3, <1>4, <3>1 DEF CustodyInv, FiringInv
    <3> QED
      BY <1>7, <3>1, <3>2 DEF Queued
  <2>4. CASE \E u \in Threads : \E i \in Frames(u)' : HeldBy(stack'[u][i], g)
    BY <1>2, <2>4, CarriedFrames
  <2>5. \A u \in Threads : \A i \in Frames(u) : HeldBy(stack[u][i], g) =>
           HeldBy(Top(t), g) \/ (i \in Frames(u)' /\ HeldBy(stack'[u][i], g))
    BY <1>4 DEF HeldBy
  <2> QED
    BY <2>1, <2>2, <2>3, <2>4, <2>5
<1>11. NoneLeftBehind'
  BY <1>7 DEF RestInv, NoneLeftBehind
<1> QED
  BY <1>8, <1>9, <1>10, <1>11 DEF RestInv

LEMMA RestStep ==
    ASSUME HookTypes, HookTypes', CallInv, CustodyInv, OverlapsSeen, DeclaresElsewhere,
           FinderComes, Unraced, RestInv, NEW t \in Threads, Step(t)
    PROVE  RestInv'
<1>1. StackOK /\ StackOK'
  BY DEF HookTypes
<1>2. ASSUME NEW h \in Hooks, Declare(t, h) PROVE RestInv'
  BY <1>2, RestDeclare
<1>3. ASSUME NEW m \in Modules, Import(t, m) PROVE RestInv'
  <2> DEFINE f == ImportFrame(m, "find", FALSE, <<>>)
  <2>1. /\ Pushed(t, f) /\ f.op = "import" /\ f.pc = "find"
        /\ UNCHANGED <<sysModules, pending, status, reported>>
    BY <1>3, ImportEffect DEF ImportFrame
  <2> HIDE DEF f
  <2> QED
    BY <1>1, <2>1, RestCall
<1>4. CASE QueueHook(t)
  BY <1>4, RestQueue
<1>5. CASE InstallFinder(t)
  <2>1. /\ ~Idle(t) /\ Popped(t) /\ Top(t).op = "declare" /\ Top(t).pc = "install"
        /\ UNCHANGED <<sysModules, pending, status, reported>>
    BY <1>5, InstallFinderEffect
  <2> QED
    BY <1>1, <2>1, RestReturn DEF HeldBy
<1>6. CASE RunNow(t)
  BY <1>6, RestRun
<1>7. CASE FindSpec(t)
  <2>1. PICK m \in Modules, c \in BOOLEAN, q \in Seq(Hooks) :
           /\ Top(t) = ImportFrame(m, "find", c, q)
           /\ \/ Popped(t) /\ UNCHANGED sysModules
              \/ /\ Replaced(t, ImportFrame(m, "exec", Claims(m), <<>>))
                 /\ sysModules' = [sysModules EXCEPT ![m] = "executing"]
    BY <1>7, FindSpecEffect
  <2>2. /\ ~Idle(t) /\ UNCHANGED <<pending, status, reported>>
        /\ Top(t).op = "import" /\ Top(t).mod = m /\ Top(t).pc = "find"
    BY <1>7, <2>1, FindSpecEffect DEF ImportFrame
  <2>3. Top(t).hooks = <<>>
    BY <2>2, InnermostProgress
  <2>4. CASE Popped(t) /\ UNCHANGED sysModules
    <3>1. \A h \in Hooks : ~HeldBy(Top(t), h)
      BY <2>2, <2>3, NoElements DEF HeldBy
    <3> QED
      BY <1>1, <2>2, <2>4, <3>1, RestReturn
  <2>5. CASE /\ Replaced(t, ImportFrame(m, "exec", Claims(m), <<>>))
             /\ sysModules' = [sysModules EXCEPT ![m] = "executing"]
    <3> DEFINE f == ImportFrame(m, "exec", Claims(m), <<>>)
    <3>1. /\ Replaced(t, f) /\ f.op = "import" /\ f.mod = m /\ f.pc = "exec"
          /\ f.claimed = Claims(m) /\ f.hooks = <<>>
      BY <2>5 DEF ImportFrame
    <3> HIDE DEF f
    <3> QED
      BY <2>2, <2>3, <2>5, <3>1, RestFind
  <2> QED
    BY <2>1, <2>4, <2>5
<1>8. CASE FinishBody(t)
  <2>1. PICK m \in Modules, c \in BOOLEAN, q \in Seq(Hooks) :
           /\ Top(t) = ImportFrame(m, "exec", c, q)
           /\ \/ /\ Replaced(t, ImportFrame(m, "fire", TRUE, pending[m]))
                 /\ pending' = [pending EXCEPT ![m] = <<>>]
                 /\ UNCHANGED sysModules
              \/ /\ ~c /\ Popped(t)
                 /\ sysModules' = [sysModules EXCEPT ![m] = "loaded"]
                 /\ UNCHANGED pending
    BY <1>8, FinishBodyEffect
  <2>2. /\ ~Idle(t) /\ UNCHANGED <<status, reported>>
        /\ Top(t).op = "import" /\ Top(t).mod = m /\ Top(t).pc = "exec" /\ Top(t).claimed = c
    BY <1>8, <2>1, FinishBodyEffect DEF ImportFrame
  <2>3. Top(t).hooks = <<>> /\ Depth(t) \in Frames(t) /\ stack[t][Depth(t)] = Top(t)
    BY <2>2, InnermostProgress
  <2>4. CASE /\ Replaced(t, ImportFrame(m, "fire", TRUE, pending[m]))
             /\ pending' = [pending EXCEPT ![m] = <<>>]
             /\ UNCHANGED sysModules
    <3> DEFINE f == ImportFrame(m, "fire", TRUE, pending[m])
    <3>1. Replaced(t, f) /\ f.op = "import" /\ f.mod = m /\ f.pc = "fire" /\ f.hooks = pending[m]
      BY <2>4 DEF ImportFrame
    <3> HIDE DEF f
    <3> QED
      BY <2>2, <2>3, <2>4, <3>1, RestTake
  <2>5. CASE /\ ~c /\ Popped(t)
             /\ sysModules' = [sysModules EXCEPT ![m] = "loaded"]
             /\ UNCHANGED pending
    <3>1. m \in Namespaces \/ pending[m] = <<>>
      BY <2>2, <2>3, <2>5 DEF RestInv, NothingMissed, Imports
    <3> QED
      BY <2>2, <2>3, <2>5, <3>1, RestImportEnds
  <2> QED
    BY <2>1, <2>4, <2>5
<1>9. CASE BodyRaises(t)
  <2>1. PICK m \in Modules, c \in BOOLEAN, q \in Seq(Hooks) :
           /\ Top(t) = ImportFrame(m, "exec", c, q)
           /\ sysModules' = [sysModules EXCEPT ![m] = "absent"]
    BY <1>9, BodyRaisesEffect
  <2>2. /\ ~Idle(t) /\ Popped(t) /\ UNCHANGED <<pending, status, reported>>
        /\ Top(t).op = "import" /\ Top(t).mod = m /\ Top(t).pc = "exec"
    BY <1>9, <2>1, BodyRaisesEffect DEF ImportFrame
  <2>3. Top(t).hooks = <<>>
    BY <2>2, InnermostProgress
  <2> QED
    BY <2>1, <2>2, <2>3, RestImportEnds
<1>10. CASE FireNext(t)
  BY <1>10, RestFireNext
<1>11. CASE FireRaises(t)
  BY <1>11, RestPutBack
<1>12. CASE FireDone(t)
  <2>1. PICK m \in Modules, c \in BOOLEAN :
           /\ Top(t) = ImportFrame(m, "fire", c, <<>>)
           /\ sysModules' = [sysModules EXCEPT ![m] = "loaded"]
    BY <1>12, FireDoneEffect
  <2>2. /\ ~Idle(t) /\ Popped(t) /\ UNCHANGED <<pending, status, reported>>
        /\ Top(t).op = "import" /\ Top(t).mod = m /\ Top(t).pc = "fire" /\ Top(t).hooks = <<>>
    BY <1>12, <2>1, FireDoneEffect DEF ImportFrame
  <2>3. m \in Namespaces \/ pending[m] = <<>>
    BY <2>2, InnermostProgress DEF RestInv, NothingMissed, Imports
  <2> QED
    BY <2>1, <2>2, <2>3, RestImportEnds
<1>13. CASE ApplyAll(t)
  <2> DEFINE f == ApplyFrame(keys, UNION {ToSet(pending[m]) : m \in Modules})
  <2>1. /\ Pushed(t, f) /\ f.op = "apply_all"
        /\ UNCHANGED <<sysModules, pending, status, reported>>
    BY <1>13, ApplyAllEffect DEF ApplyFrame
  <2> HIDE DEF f
  <2> QED
    BY <1>1, <2>1, RestCall
<1>14. CASE ApplyAllNext(t)
  <2>1. PICK todo \in Seq(Modules), asked \in SUBSET Hooks :
           Top(t) = ApplyFrame(todo, asked) /\ Replaced(t, ApplyFrame(Tail(todo), asked))
    BY <1>14, ApplyAllNextEffect
  <2> DEFINE f == ApplyFrame(Tail(todo), asked)
  <2>2. Replaced(t, f) /\ f.op = "apply_all" /\ Top(t).op = "apply_all"
    BY <2>1 DEF ApplyFrame
  <2>3. ~Idle(t) /\ UNCHANGED <<sysModules, pending, status, reported>>
    BY <1>14, ApplyAllNextEffect
  <2> HIDE DEF f
  <2>4. /\ \A u \in Threads : Frames(u)' = Frames(u)
        /\ \A u \in Threads : \A i \in Frames(u) :
              \/ stack'[u][i] = stack[u][i]
              \/ stack'[u][i].op = "apply_all" /\ stack[u][i].op = "apply_all"
    BY <1>1, <2>2, <2>3, ReplacedFrames, TopFrame
  <2> QED
    BY <1>1, <2>3, <2>4, RestKept DEF HeldBy
<1>15. CASE ApplyAllDone(t)
  <2>1. /\ ~Idle(t) /\ Popped(t) /\ Top(t).op = "apply_all"
        /\ UNCHANGED <<sysModules, pending, status, reported>>
    BY <1>15, ApplyAllDoneEffect
  <2> QED
    BY <1>1, <2>1, RestReturn DEF HeldBy
<1> QED
  BY <1>2, <1>3, <1>4, <1>5, <1>6, <1>7, <1>8, <1>9, <1>10, <1>11, <1>12, <1>13, <1>14, <1>15
     DEF Step, Deferral, Loading, Fire, Pending

--------------------------------------------------------------------------------
(* What apply_all() was asked for.                                         *)

Firing(h) == \E u \in Threads : \E j \in Frames(u) :
    Imports(u, j) /\ h \in ToSet(stack[u][j].hooks)

\* What has settled stays settled.
LEMMA SettledStays ==
    ASSUME HookTypes, NEW t \in Threads, Step(t), NEW g \in Hooks, Settled(g)
    PROVE  Settled(g)'
<1>1. ASSUME NEW h \in Hooks, Declare(t, h) PROVE Settled(g)'
  BY <1>1, DeclareEffect DEF Settled, HookTypes
<1>2. CASE RunNow(t)
  <2>1. PICK h \in Hooks : HookReturns(h) \/ UNCHANGED status
    BY <1>2, RunNowEffect
  <2> QED
    BY <2>1, Returns DEF Settled
<1>3. CASE FireNext(t)
  <2>1. PICK q \in Seq(Hooks) : q # <<>> /\ HookReturns(Head(q))
    BY <1>3, FireNextEffect
  <2>2. Head(q) \in Hooks
    BY <2>1, TailElements
  <2> QED
    BY <2>1, <2>2, Returns DEF Settled
<1>4. CASE UNCHANGED status
  BY <1>4 DEF Settled
<1> QED
  BY <1>1, <1>2, <1>3, <1>4
     DEF Step, Deferral, Loading, Fire, Pending, Import, QueueHook, InstallFinder, FindSpec,
         FinishBody, BodyRaises, FireRaises, FireDone, ApplyAll, ApplyAllNext, ApplyAllDone

\* What is queued or fired stays so until it settles.
LEMMA HeldUntilSettled ==
    ASSUME HookTypes, HookTypes', CallInv, CustodyInv, Unraced, RestInv,
           NEW t \in Threads, Step(t), NEW g \in Hooks, Queued(g) \/ Firing(g)
    PROVE  Settled(g)' \/ Queued(g)' \/ Firing(g)'
<1> USE DEF Imports
<1>1. /\ StackOK /\ StackOK'
      /\ \A u \in Threads : \A i \in Frames(u) :
            \/ stack[u][i].op = "apply_all"
            \/ u = t /\ i = Depth(t) /\ stack[u][i] = Top(t) /\ ~Idle(t) /\ ~Pushes(t)
            \/ i \in Frames(u)' /\ stack'[u][i] = stack[u][i]
  BY StepFrames DEF HookTypes
<1>2. ASSUME Pushes(t) \/ Top(t).op # "import" \/ g \notin ToSet(Top(t).hooks), Firing(g)
      PROVE  Firing(g)'
  BY <1>1, <1>2 DEF Firing
<1>3. ASSUME UNCHANGED pending, Pushes(t) \/ Top(t).op # "import" \/ g \notin ToSet(Top(t).hooks)
      PROVE  Queued(g)' \/ Firing(g)'
  BY <1>2, <1>3 DEF Queued
<1>4. ASSUME NEW h \in Hooks, Declare(t, h) PROVE Queued(g)' \/ Firing(g)'
  BY <1>3, <1>4, DeclareEffect DEF Pushes
<1>5. ASSUME NEW m \in Modules, Import(t, m) PROVE Queued(g)' \/ Firing(g)'
  BY <1>3, <1>5, ImportEffect DEF Pushes
<1>6. CASE QueueHook(t)
  <2>1. Top(t).op = "declare"
    BY <1>6 DEF QueueHook, At, InFrame
  <2>2. PICK h \in Hooks :
           pending' = [pending EXCEPT ![HookModule[h]] = Append(pending[HookModule[h]], h)]
    BY <1>6, QueueHookEffect
  <2>3. ToSet(Append(pending[HookModule[h]], h)) = ToSet(pending[HookModule[h]]) \cup {h}
    BY HookOfModule, AppendElements DEF HookTypes
  <2>4. Queued(g) => Queued(g)'
    BY <2>2, <2>3, HookOfModule DEF Queued, HookTypes
  <2> QED
    BY <1>2, <2>1, <2>4
<1>7. CASE InstallFinder(t) \/ RunNow(t) \/ ApplyAllNext(t) \/ ApplyAllDone(t)
  <2>1. Top(t).op # "import"
    BY <1>7 DEF InstallFinder, RunNow, ApplyAllNext, ApplyAllDone, At, InFrame
  <2>2. UNCHANGED pending
    BY <1>7 DEF InstallFinder, RunNow, ApplyAllNext, ApplyAllDone
  <2> QED
    BY <1>3, <2>1, <2>2
<1>8. CASE FindSpec(t) \/ BodyRaises(t) \/ FireDone(t)
  <2>1. /\ ~Idle(t) /\ Top(t).op = "import"
        /\ Top(t).pc # "fire" \/ Top(t).hooks = <<>>
    BY <1>8 DEF FindSpec, BodyRaises, FireDone, RunsBody, At, InFrame
  <2>2. g \notin ToSet(Top(t).hooks)
    BY <2>1, InnermostProgress, NoElements
  <2>3. UNCHANGED pending
    BY <1>8 DEF FindSpec, BodyRaises, FireDone
  <2> QED
    BY <1>3, <2>2, <2>3
<1>9. CASE FinishBody(t)
  <2>1. PICK m \in Modules, c \in BOOLEAN, q \in Seq(Hooks) :
           /\ Top(t) = ImportFrame(m, "exec", c, q)
           /\ \/ /\ Replaced(t, ImportFrame(m, "fire", TRUE, pending[m]))
                 /\ pending' = [pending EXCEPT ![m] = <<>>]
              \/ UNCHANGED pending
    BY <1>9, FinishBodyEffect
  <2>2. ~Idle(t) /\ Top(t).op = "import" /\ Top(t).pc = "exec"
    BY <1>9 DEF FinishBody, RunsBody, At, InFrame
  <2>3. g \notin ToSet(Top(t).hooks)
    BY <2>2, InnermostProgress, NoElements
  <2>4. CASE UNCHANGED pending
    BY <1>3, <2>3, <2>4
  <2>5. CASE /\ Replaced(t, ImportFrame(m, "fire", TRUE, pending[m]))
             /\ pending' = [pending EXCEPT ![m] = <<>>]
    <3>1. Depth(t) \in Frames(t)' /\ stack'[t][Depth(t)] = ImportFrame(m, "fire", TRUE, pending[m])
      BY <1>1, <2>5, ReplacedFrames
    <3>2. stack'[t][Depth(t)].op = "import" /\ stack'[t][Depth(t)].hooks = pending[m]
      BY <3>1 DEF ImportFrame
    <3>3. CASE Queued(g) /\ HookModule[g] = m
      BY <3>1, <3>2, <3>3 DEF Queued, Firing
    <3>4. CASE Queued(g) /\ HookModule[g] # m
      BY <2>5, <3>4, HookOfModule DEF Queued, HookTypes
    <3> QED
      BY <1>2, <2>3, <3>3, <3>4
  <2> QED
    BY <2>1, <2>4, <2>5
<1>10. CASE FireNext(t)
  <2>1. PICK m \in Modules, c \in BOOLEAN, q \in Seq(Hooks) :
           /\ Top(t) = ImportFrame(m, "fire", c, q) /\ q # <<>>
           /\ HookReturns(Head(q))
           /\ Replaced(t, ImportFrame(m, "fire", TRUE, Tail(q)))
    BY <1>10, FireNextEffect
  <2>2. Top(t).hooks = q /\ UNCHANGED pending
    BY <1>10, <2>1 DEF FireNext, ImportFrame
  <2>3. /\ ToSet(q) = {Head(q)} \cup ToSet(Tail(q)) /\ Head(q) \in Hooks
    BY <2>1, TailElements
  <2>4. Settled(Head(q))'
    BY <2>1, <2>3, Returns DEF Settled
  <2>5. CASE g \in ToSet(Tail(q))
    <3>1. Depth(t) \in Frames(t)' /\ stack'[t][Depth(t)] = ImportFrame(m, "fire", TRUE, Tail(q))
      BY <1>1, <2>1, ReplacedFrames
    <3>2. stack'[t][Depth(t)].op = "import" /\ stack'[t][Depth(t)].hooks = Tail(q)
      BY <3>1 DEF ImportFrame
    <3> QED
      BY <2>5, <3>1, <3>2 DEF Firing
  <2>6. CASE g = Head(q)
    BY <2>1, <2>3, <2>6, Returns DEF Settled
  <2>7. CASE g \notin ToSet(q)
    BY <1>3, <2>2, <2>7
  <2> QED
    BY <2>3, <2>5, <2>6, <2>7
<1>11. CASE FireRaises(t)
  <2>1. PICK m \in Modules, c \in BOOLEAN, q \in Seq(Hooks) :
           /\ Top(t) = ImportFrame(m, "fire", c, q)
           /\ pending' = [pending EXCEPT ![m] = q]
    BY <1>11, FireRaisesEffect
  <2>2. /\ ~Idle(t) /\ Top(t).op = "import" /\ Top(t).mod = m /\ Top(t).pc = "fire"
        /\ Top(t).hooks = q
    BY <1>11, <2>1, FireRaisesEffect DEF ImportFrame
  <2>3. m \notin Namespaces /\ Depth(t) \in Frames(t) /\ stack[t][Depth(t)] = Top(t)
    BY <2>2, InnermostProgress
  <2>4. pending[m] = <<>>
    BY <2>2, <2>3 DEF RestInv, NothingMissed
  <2>5. CASE Queued(g)
    BY <2>1, <2>4, <2>5, HookOfModule, NoElements DEF Queued, HookTypes
  <2>6. CASE g \in ToSet(q)
    <3>1. HookModule[g] = m
      BY <2>2, <2>3, <2>6 DEF CustodyInv, FiringInv
    <3> QED
      BY <2>1, <2>6, <3>1 DEF Queued, HookTypes
  <2> QED
    BY <1>2, <2>2, <2>5, <2>6
<1>12. CASE ApplyAll(t)
  BY <1>3, <1>12, ApplyAllEffect DEF Pushes
<1> QED
  BY <1>4, <1>5, <1>6, <1>7, <1>8, <1>9, <1>10, <1>11, <1>12
     DEF Step, Deferral, Loading, Fire, Pending

\* Only apply_all() itself changes what it has before it.
LEMMA OtherApplies ==
    ASSUME HookTypes, NEW t \in Threads, Step(t), ~ApplyAll(t), ~ApplyAllNext(t)
    PROVE  \A u \in Threads : \A i \in Frames(u)' : stack'[u][i].op = "apply_all" =>
              i \in Frames(u) /\ stack'[u][i] = stack[u][i]
<1> DEFINE Goal == \A u \in Threads : \A i \in Frames(u)' : stack'[u][i].op = "apply_all" =>
                      i \in Frames(u) /\ stack'[u][i] = stack[u][i]
<1>1. StackOK
  BY DEF HookTypes
<1>2. ASSUME NEW f, Pushed(t, f), f.op # "apply_all" PROVE Goal
  BY <1>1, <1>2, PushedFrames
<1>3. ASSUME NEW f, Replaced(t, f), f.op # "apply_all" PROVE Goal
  BY <1>1, <1>3, ReplacedFrames
<1>4. ASSUME ~Idle(t), Popped(t) PROVE Goal
  BY <1>1, <1>4, PoppedFrames
<1>5. ASSUME NEW h \in Hooks, Declare(t, h) PROVE Goal
  <2>1. PICK pc \in {"queue", "run"} : Pushed(t, DeclareFrame(h, pc))
    BY <1>5, DeclareEffect
  <2> DEFINE f == DeclareFrame(h, pc)
  <2>2. Pushed(t, f) /\ f.op # "apply_all"
    BY <2>1 DEF DeclareFrame
  <2> HIDE DEF f
  <2> QED
    BY <1>2, <2>2
<1>6. ASSUME NEW m \in Modules, Import(t, m) PROVE Goal
  <2> DEFINE f == ImportFrame(m, "find", FALSE, <<>>)
  <2>1. Pushed(t, f) /\ f.op # "apply_all"
    BY <1>6, ImportEffect DEF ImportFrame
  <2> HIDE DEF f
  <2> QED
    BY <1>2, <2>1
<1>7. CASE QueueHook(t)
  <2>1. PICK h \in Hooks : Replaced(t, DeclareFrame(h, "install"))
    BY <1>7, QueueHookEffect
  <2> DEFINE f == DeclareFrame(h, "install")
  <2>2. Replaced(t, f) /\ f.op # "apply_all"
    BY <2>1 DEF DeclareFrame
  <2> HIDE DEF f
  <2> QED
    BY <1>3, <2>2
<1>8. ASSUME NEW m, NEW pc, NEW c, NEW q, Replaced(t, ImportFrame(m, pc, c, q)) PROVE Goal
  <2> DEFINE f == ImportFrame(m, pc, c, q)
  <2>1. Replaced(t, f) /\ f.op # "apply_all"
    BY <1>8 DEF ImportFrame
  <2> HIDE DEF f
  <2> QED
    BY <1>3, <2>1
<1>9. CASE FindSpec(t)
  BY <1>4, <1>8, <1>9, FindSpecEffect
<1>10. CASE FinishBody(t)
  BY <1>4, <1>8, <1>10, FinishBodyEffect
<1>11. CASE FireNext(t)
  BY <1>8, <1>11, FireNextEffect
<1>12. CASE InstallFinder(t) \/ RunNow(t) \/ BodyRaises(t) \/ FireRaises(t) \/ FireDone(t)
           \/ ApplyAllDone(t)
  <2>1. ~Idle(t) /\ Popped(t)
    BY <1>12, InstallFinderEffect, RunNowEffect, BodyRaisesEffect, FireRaisesEffect,
       FireDoneEffect, ApplyAllDoneEffect
  <2> QED
    BY <1>4, <2>1
<1> QED
  BY <1>5, <1>6, <1>7, <1>9, <1>10, <1>11, <1>12 DEF Step, Deferral, Loading, Fire, Pending

\* What is being fired waits for a module that is not loaded yet.
LEMMA FiringMeansExecuting ==
    ASSUME HookTypes, CallInv, CustodyInv, NEW h \in Hooks, Firing(h)
    PROVE  sysModules[HookModule[h]] # "loaded"
<1>1. PICK u \in Threads, j \in Nat :
         j \in Frames(u) /\ Imports(u, j) /\ h \in ToSet(stack[u][j].hooks)
  BY FrameAt DEF Firing, Frames, HookTypes
<1>2. HookModule[h] = stack[u][j].mod
  BY <1>1 DEF CustodyInv, FiringInv
<1> QED
  BY <1>1, <1>2 DEF CallInv, ImportProgress

\* One thing that apply_all() was asked for.
Asked(h, todo) ==
    /\ Settled(h) \/ Queued(h) \/ Firing(h)
    /\ Settled(h) \/ HookModule[h] \in ToSet(todo) \cup Namespaces

LEMMA AskedFrames ==
    /\ AskedInv <=> \A t \in Threads : \A i \in Frames(t) :
          stack[t][i].op = "apply_all" =>
             \A h \in stack[t][i].asked : Asked(h, stack[t][i].todo)
    /\ AskedInv' <=> \A t \in Threads : \A i \in Frames(t)' :
          stack'[t][i].op = "apply_all" =>
             \A h \in stack'[t][i].asked :
                /\ Settled(h)' \/ Queued(h)' \/ Firing(h)'
                /\ Settled(h)' \/ HookModule[h] \in ToSet(stack'[t][i].todo) \cup Namespaces
BY DEF AskedInv, Asked, Firing

LEMMA AskedStep ==
    ASSUME HookTypes, HookTypes', CallInv, CustodyInv, Unraced, RestInv, AskedInv,
           NEW t \in Threads, Step(t)
    PROVE  AskedInv'
<1>1. StackOK /\ StackOK'
  BY DEF HookTypes
<1>2. ASSUME NEW h \in Hooks, NEW todo, Asked(h, todo)
      PROVE  /\ Settled(h)' \/ Queued(h)' \/ Firing(h)'
             /\ Settled(h)' \/ HookModule[h] \in ToSet(todo) \cup Namespaces
  BY <1>2, SettledStays, HeldUntilSettled DEF Asked
<1>3. \A u \in Threads : \A i \in Frames(u) :
         stack[u][i].op = "apply_all" => stack[u][i].asked \subseteq Hooks
  BY <1>1, FrameAt, FrameTypes
<1>4. ASSUME NEW u \in Threads, NEW i \in Frames(u)', i \in Frames(u), stack'[u][i] = stack[u][i],
             stack'[u][i].op = "apply_all", NEW h \in stack'[u][i].asked
      PROVE  /\ Settled(h)' \/ Queued(h)' \/ Firing(h)'
             /\ Settled(h)' \/ HookModule[h] \in ToSet(stack'[u][i].todo) \cup Namespaces
  <2>1. h \in Hooks /\ Asked(h, stack[u][i].todo)
    BY <1>3, <1>4, AskedFrames
  <2> QED
    BY <1>2, <1>4, <2>1
<1>5. CASE ~ApplyAll(t) /\ ~ApplyAllNext(t)
  BY <1>4, <1>5, OtherApplies, AskedFrames
<1>6. CASE ApplyAll(t)
  <2> DEFINE asked == UNION {ToSet(pending[m]) : m \in Modules}
             f == ApplyFrame(keys, asked)
  <2>1. Pushed(t, f) /\ f.op = "apply_all" /\ f.todo = keys /\ f.asked = asked
    BY <1>6, ApplyAllEffect DEF ApplyFrame
  <2> HIDE DEF f
  <2>2. \A u \in Threads : \A i \in Frames(u)' :
           \/ u = t /\ i = Depth(t)' /\ stack'[u][i] = f
           \/ i \in Frames(u) /\ stack'[u][i] = stack[u][i]
    BY <1>1, <2>1, PushedFrames
  <2>3. ASSUME NEW h \in asked PROVE h \in Hooks /\ Asked(h, keys)
    <3>1. PICK m \in Modules : h \in ToSet(pending[m])
      BY <2>3
    <3>2. h \in Hooks /\ HookModule[h] = m
      BY <3>1 DEF CustodyInv, QueueInv, HookTypes, ToSet
    <3>3. m \in ToSet(keys)
      BY <3>1, NoElements DEF CustodyInv, KeysInv
    <3> QED
      BY <3>1, <3>2, <3>3 DEF Asked, Queued
  <2> HIDE DEF asked
  <2> SUFFICES ASSUME NEW u \in Threads, NEW i \in Frames(u)', stack'[u][i].op = "apply_all",
                      NEW h \in stack'[u][i].asked
               PROVE  /\ Settled(h)' \/ Queued(h)' \/ Firing(h)'
                      /\ Settled(h)' \/ HookModule[h] \in ToSet(stack'[u][i].todo) \cup Namespaces
    BY AskedFrames
  <2>4. CASE stack'[u][i] = f
    BY <1>2, <2>1, <2>3, <2>4
  <2>5. CASE i \in Frames(u) /\ stack'[u][i] = stack[u][i]
    BY <1>4, <2>5
  <2> QED
    BY <2>2, <2>4, <2>5
<1>7. CASE ApplyAllNext(t)
  <2>1. PICK todo \in Seq(Modules), asked \in SUBSET Hooks :
           /\ Top(t) = ApplyFrame(todo, asked) /\ todo # <<>>
           /\ sysModules[Head(todo)] = "loaded"
           /\ Replaced(t, ApplyFrame(Tail(todo), asked))
    BY <1>7, ApplyAllNextEffect
  <2> DEFINE f == ApplyFrame(Tail(todo), asked)
  <2>2. /\ Replaced(t, f) /\ f.asked = asked /\ f.todo = Tail(todo)
        /\ Top(t).op = "apply_all" /\ Top(t).asked = asked /\ Top(t).todo = todo
    BY <2>1 DEF ApplyFrame
  <2> HIDE DEF f
  <2>3. ~Idle(t)
    BY <1>7, ApplyAllNextEffect
  <2>4. /\ Depth(t) \in Frames(t) /\ stack[t][Depth(t)] = Top(t)
        /\ \A u \in Threads : Frames(u)' = Frames(u)
        /\ \A u \in Threads : \A i \in Frames(u) :
              stack'[u][i] = IF u = t /\ i = Depth(t) THEN f ELSE stack[u][i]
    BY <1>1, <2>2, <2>3, ReplacedFrames, TopFrame
  <2>5. ASSUME NEW h \in asked PROVE h \in Hooks /\ Asked(h, Tail(todo))
    <3>1. h \in Hooks /\ Asked(h, todo)
      BY <2>2, <2>4, <2>5, AskedFrames
    <3>2. ToSet(todo) = {Head(todo)} \cup ToSet(Tail(todo)) /\ Head(todo) \in Modules
      BY <2>1, TailElements
    <3>3. CASE HookModule[h] = Head(todo) /\ HookModule[h] \notin Namespaces
      <4>1. pending[HookModule[h]] = <<>>
        BY <2>1, <3>2, <3>3 DEF RestInv, NoneLeftBehind
      <4>2. ~Queued(h)
        BY <4>1, NoElements DEF Queued
      <4>3. ~Firing(h)
        BY <2>1, <3>1, <3>3, FiringMeansExecuting
      <4> QED
        BY <3>1, <4>2, <4>3 DEF Asked
    <3> QED
      BY <3>1, <3>2, <3>3 DEF Asked
  <2> SUFFICES ASSUME NEW u \in Threads, NEW i \in Frames(u)', stack'[u][i].op = "apply_all",
                      NEW h \in stack'[u][i].asked
               PROVE  /\ Settled(h)' \/ Queued(h)' \/ Firing(h)'
                      /\ Settled(h)' \/ HookModule[h] \in ToSet(stack'[u][i].todo) \cup Namespaces
    BY AskedFrames
  <2>6. CASE u = t /\ i = Depth(t)
    BY <1>2, <2>2, <2>4, <2>5, <2>6
  <2>7. CASE ~(u = t /\ i = Depth(t))
    BY <1>4, <2>4, <2>7
  <2> QED
    BY <2>6, <2>7
<1> QED
  BY <1>5, <1>6, <1>7

--------------------------------------------------------------------------------
(* What stays in effect.                                                   *)

\* Only the decorator of a module that is there runs its hook itself.
LEMMA OtherRuns ==
    ASSUME HookTypes, NEW t \in Threads, Step(t), \A h \in Hooks : ~Declare(t, h)
    PROVE  \A u \in Threads : \A i \in Frames(u)' :
              stack'[u][i].op = "declare" /\ stack'[u][i].pc = "run" =>
                 i \in Frames(u) /\ stack'[u][i] = stack[u][i]
<1> DEFINE Goal == \A u \in Threads : \A i \in Frames(u)' :
                      stack'[u][i].op = "declare" /\ stack'[u][i].pc = "run" =>
                         i \in Frames(u) /\ stack'[u][i] = stack[u][i]
<1>1. StackOK
  BY DEF HookTypes
<1>2. ASSUME NEW f, Pushed(t, f), f.op # "declare" PROVE Goal
  BY <1>1, <1>2, PushedFrames
<1>3. ASSUME NEW f, Replaced(t, f), f.op # "declare" \/ f.pc # "run" PROVE Goal
  BY <1>1, <1>3, ReplacedFrames
<1>4. ASSUME ~Idle(t), Popped(t) PROVE Goal
  BY <1>1, <1>4, PoppedFrames
<1>5. ASSUME NEW m \in Modules, Import(t, m) PROVE Goal
  <2> DEFINE f == ImportFrame(m, "find", FALSE, <<>>)
  <2>1. Pushed(t, f) /\ f.op # "declare"
    BY <1>5, ImportEffect DEF ImportFrame
  <2> HIDE DEF f
  <2> QED
    BY <1>2, <2>1
<1>6. CASE QueueHook(t)
  <2>1. PICK h \in Hooks : Replaced(t, DeclareFrame(h, "install"))
    BY <1>6, QueueHookEffect
  <2> DEFINE f == DeclareFrame(h, "install")
  <2>2. Replaced(t, f) /\ f.pc # "run"
    BY <2>1 DEF DeclareFrame
  <2> HIDE DEF f
  <2> QED
    BY <1>3, <2>2
<1>7. ASSUME NEW m, NEW pc, NEW c, NEW q, Replaced(t, ImportFrame(m, pc, c, q)) PROVE Goal
  <2> DEFINE f == ImportFrame(m, pc, c, q)
  <2>1. Replaced(t, f) /\ f.op # "declare"
    BY <1>7 DEF ImportFrame
  <2> HIDE DEF f
  <2> QED
    BY <1>3, <2>1
<1>8. CASE FindSpec(t)
  BY <1>4, <1>7, <1>8, FindSpecEffect
<1>9. CASE FinishBody(t)
  BY <1>4, <1>7, <1>9, FinishBodyEffect
<1>10. CASE FireNext(t)
  BY <1>7, <1>10, FireNextEffect
<1>11. CASE InstallFinder(t) \/ RunNow(t) \/ BodyRaises(t) \/ FireRaises(t) \/ FireDone(t)
           \/ ApplyAllDone(t)
  <2>1. ~Idle(t) /\ Popped(t)
    BY <1>11, InstallFinderEffect, RunNowEffect, BodyRaisesEffect, FireRaisesEffect,
       FireDoneEffect, ApplyAllDoneEffect
  <2> QED
    BY <1>4, <2>1
<1>12. CASE ApplyAll(t)
  <2> DEFINE f == ApplyFrame(keys, UNION {ToSet(pending[m]) : m \in Modules})
  <2>1. Pushed(t, f) /\ f.op # "declare"
    BY <1>12, ApplyAllEffect DEF ApplyFrame
  <2> HIDE DEF f
  <2> QED
    BY <1>2, <2>1
<1>13. CASE ApplyAllNext(t)
  <2>1. PICK todo, asked : Replaced(t, ApplyFrame(Tail(todo), asked))
    BY <1>13, ApplyAllNextEffect
  <2> DEFINE f == ApplyFrame(Tail(todo), asked)
  <2>2. Replaced(t, f) /\ f.op # "declare"
    BY <2>1 DEF ApplyFrame
  <2> HIDE DEF f
  <2> QED
    BY <1>3, <2>2
<1> QED
  BY <1>5, <1>6, <1>8, <1>9, <1>10, <1>11, <1>12, <1>13
     DEF Step, Deferral, Loading, Fire, Pending

\* A module that is loaded stays loaded: only an import changes what is in sys.modules, and
\* while it runs its module is not loaded.
LEMMA LoadedStays ==
    ASSUME HookTypes, CallInv, NEW t \in Threads, Step(t),
           NEW m \in Modules, sysModules[m] = "loaded"
    PROVE  sysModules'[m] = "loaded"
<1>1. CASE UNCHANGED sysModules
  BY <1>1
<1>2. CASE FindSpec(t) \/ FinishBody(t) \/ BodyRaises(t) \/ FireRaises(t) \/ FireDone(t)
  <2>1. ~Idle(t) /\ Top(t).op = "import"
    BY <1>2 DEF FindSpec, FinishBody, BodyRaises, FireRaises, FireDone, RunsBody, At, InFrame
  <2>2. Top(t).mod # m
    BY <2>1, InnermostProgress
  <2>3. UNCHANGED sysModules \/ \E end : sysModules' = [sysModules EXCEPT ![Top(t).mod] = end]
    BY <1>2 DEF FindSpec, FinishBody, BodyRaises, FireRaises, FireDone, DropModule
  <2> QED
    BY <2>2, <2>3 DEF HookTypes
<1> QED
  BY <1>1, <1>2
     DEF Step, Deferral, Loading, Fire, Pending, Declare, Import, QueueHook, InstallFinder, RunNow,
         FireNext, ApplyAll, ApplyAllNext, ApplyAllDone

\* Without overlaps a module that is there when its patch is declared is loaded.
LEMMA RunsLoadedStep ==
    ASSUME HookTypes, HookTypes', CallInv, CallInv', OverlapsSeen', overlaps' = {}, RunsLoaded,
           NEW t \in Threads, Step(t)
    PROVE  RunsLoaded'
<1> USE DEF Declares
<1>1. StackOK /\ StackOK'
  BY DEF HookTypes
<1>2. ASSUME NEW u \in Threads, NEW i \in Frames(u)', i \in Frames(u), stack'[u][i] = stack[u][i],
             stack'[u][i].op = "declare", stack'[u][i].pc = "run"
      PROVE  sysModules'[HookModule[stack'[u][i].hook]] = "loaded"
  <2>1. HookModule[stack[u][i].hook] \in Modules
    BY <1>1, <1>2, FrameAt, FrameTypes, HookOfModule
  <2>2. sysModules[HookModule[stack[u][i].hook]] = "loaded"
    BY <1>2 DEF RunsLoaded
  <2> QED
    BY <1>2, <2>1, <2>2, LoadedStays
<1>3. CASE \A h \in Hooks : ~Declare(t, h)
  BY <1>2, <1>3, OtherRuns DEF RunsLoaded
<1>4. ASSUME NEW h \in Hooks, Declare(t, h) PROVE RunsLoaded'
  <2>1. PICK pc \in {"queue", "run"} :
           /\ Pushed(t, DeclareFrame(h, pc))
           /\ pc = "queue" <=> sysModules[HookModule[h]] = "absent"
           /\ UNCHANGED sysModules
    BY <1>4, DeclareEffect
  <2> DEFINE f == DeclareFrame(h, pc)
  <2>2. Pushed(t, f) /\ f.op = "declare" /\ f.hook = h /\ f.pc = pc
    BY <2>1 DEF DeclareFrame
  <2> HIDE DEF f
  <2>3. /\ \A u \in Threads : \A i \in Frames(u)' :
              \/ u = t /\ i = Depth(t)' /\ stack'[u][i] = f
              \/ i \in Frames(u) /\ stack'[u][i] = stack[u][i]
        /\ Depth(t)' \in Frames(t)' /\ stack'[t][Depth(t)'] = f
    BY <1>1, <2>2, PushedFrames
  <2>4. ASSUME pc = "run" PROVE sysModules'[HookModule[h]] = "loaded"
    <3>1. HookModule[h] \in Modules /\ sysModules'[HookModule[h]] \in {"executing", "loaded"}
      BY <2>1, <2>4, HookOfModule DEF HookTypes
    <3>2. ASSUME sysModules'[HookModule[h]] = "executing" PROVE FALSE
      <4>1. PICK u \in Threads : Importing(u, HookModule[h])'
        BY <3>1, <3>2 DEF CallInv, ExecutingIsImported
      <4>2. PICK j \in Frames(u)' :
               stack'[u][j].op = "import" /\ stack'[u][j].mod = HookModule[h]
        BY <1>1, <3>1, <4>1, ImportingFrames
      <4> QED
        BY <2>2, <2>3, <4>2 DEF OverlapsSeen, Imports
    <3> QED
      BY <3>1, <3>2
  <2>5. \A u \in Threads : \A i \in Frames(u)' :
           stack'[u][i].op = "declare" /\ stack'[u][i].pc = "run" =>
              sysModules'[HookModule[stack'[u][i].hook]] = "loaded"
    BY <1>2, <2>2, <2>3, <2>4
  <2> QED
    BY <2>5 DEF RunsLoaded
<1> QED
  BY <1>3, <1>4

\* While the module of a patch is imported, and until its last hook has been fired, only a
\* patch in a submodule has been applied.
LEMMA AppliedInSubmodule ==
    ASSUME HookTypes, CallInv, EffectInv, NEW t \in Threads, ~Idle(t), Top(t).op = "import",
           Top(t).pc # "fire" \/ Top(t).hooks # <<>>,
           NEW h \in Hooks, status[h] = "applied", HookModule[h] = Top(t).mod
    PROVE  h \in InSubmodule
<1>1. sysModules[Top(t).mod] # "loaded"
  BY InnermostProgress
<1>2. ASSUME Finished(Top(t).mod) PROVE FALSE
  <2>1. PICK u \in Threads : \E i \in Frames(u) :
           /\ Imports(u, i) /\ stack[u][i].mod = Top(t).mod
           /\ stack[u][i].pc = "fire" /\ stack[u][i].hooks = <<>>
    BY <1>2 DEF Finished
  <2>2. PICK i \in Frames(u) :
           /\ Imports(u, i) /\ stack[u][i].mod = Top(t).mod
           /\ stack[u][i].pc = "fire" /\ stack[u][i].hooks = <<>>
    BY <2>1
  <2>3. u = t /\ i = Depth(t) /\ stack[t][Depth(t)] = Top(t)
    BY <2>2, InnermostProgress
  <2> QED
    BY <2>2, <2>3
<1> QED
  BY <1>1, <1>2 DEF EffectInv

LEMMA LiveStays ==
    ASSUME HookTypes, CallInv, EffectInv, NEW t \in Threads, Step(t),
           NEW h \in Hooks, status[h] = "applied"
    PROVE  h \in live'
<1>1. h \in live
  BY DEF EffectInv
<1>2. CASE live \subseteq live'
  BY <1>1, <1>2
<1>3. CASE FindSpec(t) \/ FinishBody(t) \/ BodyRaises(t) \/ FireRaises(t)
  <2>1. /\ ~Idle(t) /\ Top(t).op = "import"
        /\ Top(t).pc # "fire" \/ Top(t).hooks # <<>>
    BY <1>3 DEF FindSpec, FinishBody, BodyRaises, FireRaises, RunsBody, At, InFrame
  <2>2. live \ StoredIn(Top(t).mod) \subseteq live'
    BY <1>3 DEF FindSpec, FinishBody, BodyRaises, FireRaises, DropModule
  <2> QED
    BY <1>1, <2>1, <2>2, AppliedInSubmodule DEF StoredIn
<1> QED
  BY <1>2, <1>3
     DEF Step, Deferral, Loading, Fire, Pending, Declare, Import, QueueHook, InstallFinder, RunNow,
         FireNext, FireDone, HookReturns, ApplyAll, ApplyAllNext, ApplyAllDone

LEMMA FinishedReturns ==
    ASSUME HookTypes, NEW t \in Threads, Step(t), NEW m \in Modules, Finished(m)
    PROVE  Finished(m)' \/ sysModules'[m] = "loaded"
<1> USE DEF Imports
<1>1. PICK u \in Threads : \E i \in Frames(u) :
         /\ Imports(u, i) /\ stack[u][i].mod = m
         /\ stack[u][i].pc = "fire" /\ stack[u][i].hooks = <<>>
  BY DEF Finished
<1>2. PICK i \in Frames(u) :
         /\ Imports(u, i) /\ stack[u][i].mod = m
         /\ stack[u][i].pc = "fire" /\ stack[u][i].hooks = <<>>
  BY <1>1
<1>3. CASE i \in Frames(u)' /\ stack'[u][i] = stack[u][i]
  BY <1>2, <1>3 DEF Finished
<1>4. CASE stack[u][i] = Top(t) /\ ~Idle(t) /\ ~Pushes(t)
  <2>1. Top(t).op = "import" /\ Top(t).mod = m /\ Top(t).pc = "fire" /\ Top(t).hooks = <<>>
    BY <1>2, <1>4
  <2>2. /\ \A h \in Hooks : ~Declare(t, h)
        /\ \A n \in Modules : ~Import(t, n)
        /\ ~ApplyAll(t)
    BY <1>4, DeclareEffect, ImportEffect, ApplyAllEffect DEF Pushes
  <2>3. FireDone(t)
    BY <2>1, <2>2
       DEF Step, Deferral, Loading, Fire, Pending, QueueHook, InstallFinder, RunNow, FindSpec,
           FinishBody, BodyRaises, FireNext, FireRaises, ApplyAllNext, ApplyAllDone,
           RunsBody, At, InFrame
  <2> QED
    BY <2>1, <2>3 DEF FireDone, HookTypes
<1> QED
  BY <1>2, <1>3, <1>4, StepFrames

LEMMA EffectStep ==
    ASSUME HookTypes, HookTypes', CallInv, CustodyInv, HooksApart, RunsLoaded, EffectInv,
           NEW t \in Threads, Step(t)
    PROVE  EffectInv'
<1> USE DEF Imports, Declares
<1>1. StackOK /\ StackOK'
  BY DEF HookTypes
<1>2. ASSUME NEW h \in Hooks, status[h] = "applied"
      PROVE  /\ h \in live'
             /\ h \in InSubmodule \/ sysModules'[HookModule[h]] = "loaded"
                \/ Finished(HookModule[h])'
  BY <1>2, HookOfModule, LiveStays, LoadedStays, FinishedReturns DEF EffectInv
<1>3. CASE \A h \in Hooks : status'[h] = "applied" => status[h] = "applied"
  BY <1>2, <1>3 DEF EffectInv
<1>4. ASSUME NEW h \in Hooks, Declare(t, h) PROVE EffectInv'
  <2>1. \A g \in Hooks : status'[g] = "applied" => status[g] = "applied"
    BY <1>4, DeclareEffect DEF HookTypes
  <2> QED
    BY <1>3, <2>1
<1>5. CASE RunNow(t)
  <2>1. PICK h \in Hooks : /\ Top(t) = DeclareFrame(h, "run")
                           /\ HookReturns(h) \/ UNCHANGED status
                           /\ UNCHANGED sysModules /\ ~Idle(t)
    BY <1>5, RunNowEffect
  <2>2. sysModules'[HookModule[h]] = "loaded"
    <3>1. Depth(t) \in Frames(t) /\ stack[t][Depth(t)] = Top(t)
      BY <1>1, <2>1, TopFrame
    <3>2. Top(t).op = "declare" /\ Top(t).pc = "run" /\ Top(t).hook = h
      BY <2>1 DEF DeclareFrame
    <3> QED
      BY <2>1, <3>1, <3>2 DEF RunsLoaded
  <2>3. ASSUME HookReturns(h), status'[h] = "applied" PROVE h \in live'
    BY <2>3 DEF HookReturns, HookTypes
  <2>4. CASE HookReturns(h)
    BY <1>2, <2>2, <2>3, <2>4, Returns DEF EffectInv
  <2> QED
    BY <1>3, <2>1, <2>4
<1>6. CASE FireNext(t)
  <2>1. PICK m \in Modules, c \in BOOLEAN, q \in Seq(Hooks) :
           /\ Top(t) = ImportFrame(m, "fire", c, q) /\ q # <<>>
           /\ HookReturns(Head(q))
           /\ Replaced(t, ImportFrame(m, "fire", TRUE, Tail(q)))
    BY <1>6, FireNextEffect
  <2> DEFINE f == ImportFrame(m, "fire", TRUE, Tail(q))
             h == Head(q)
  <2>2. /\ Replaced(t, f) /\ f.op = "import" /\ f.mod = m /\ f.pc = "fire" /\ f.hooks = Tail(q)
        /\ Top(t).op = "import" /\ Top(t).mod = m /\ Top(t).hooks = q
    BY <2>1 DEF ImportFrame
  <2> HIDE DEF f
  <2>3. /\ Depth(t) \in Frames(t) /\ stack[t][Depth(t)] = Top(t)
        /\ Depth(t) \in Frames(t)' /\ stack'[t][Depth(t)] = f
    BY <1>1, <1>6, <2>2, FireNextEffect, TopFrame, ReplacedFrames
  <2>4. Distinct(q) /\ \A g \in ToSet(q) : HookModule[g] = m
    BY <2>2, <2>3 DEF CustodyInv, FiringInv
  <2>5. /\ h \in Hooks /\ h \in ToSet(q) /\ h \notin ToSet(Tail(q))
        /\ ToSet(Tail(q)) \subseteq ToSet(q) /\ ToSet(Tail(q)) \subseteq Hooks
        /\ Tail(q) # <<>> => ToSet(Tail(q)) # {}
    BY <2>1, <2>4, TailElements, Elements
  <2>6. h \in InSubmodule \/ Finished(HookModule[h])'
    <3>1. CASE Tail(q) = <<>>
      BY <2>2, <2>3, <2>4, <2>5, <3>1 DEF Finished
    <3>2. CASE Tail(q) # <<>>
      <4>1. PICK g \in ToSet(Tail(q)) : TRUE
        BY <2>5, <3>2
      <4>2. g \in Hooks /\ g # h /\ HookModule[g] = HookModule[h]
        BY <2>4, <2>5, <4>1
      <4> QED
        BY <2>5, <4>2 DEF HooksApart
    <3> QED
      BY <3>1, <3>2
  <2>7. status'[h] = "applied" => h \in live'
    BY <2>1, <2>5 DEF HookReturns, HookTypes
  <2> HIDE DEF h
  <2>8. \A g \in Hooks : g # h => status'[g] = status[g]
    BY <2>1, <2>5, Returns DEF h
  <2> QED
    BY <1>2, <2>5, <2>6, <2>7, <2>8 DEF EffectInv
<1>7. CASE UNCHANGED status
  BY <1>3, <1>7
<1> QED
  BY <1>4, <1>5, <1>6, <1>7
     DEF Step, Deferral, Loading, Fire, Pending, Import, QueueHook, InstallFinder, FindSpec,
         FinishBody, BodyRaises, FireRaises, FireDone, ApplyAll, ApplyAllNext, ApplyAllDone

--------------------------------------------------------------------------------
(* The invariant is inductive.                                             *)

HookInv ==
    /\ HookTypes
    /\ overlaps \subseteq {"nested", "raced"}
    /\ CallInv
    /\ CustodyInv
    /\ WaitInv

\* What holds besides while no patch of a module has been declared during its import.
InEffect == overlaps = {} => RunsLoaded /\ EffectInv

LEMMA HookInvInit == Init => HookInv
<1> SUFFICES ASSUME Init PROVE HookInv
  OBVIOUS
<1>1. /\ \A t \in Threads : stack[t] = <<>> /\ Frames(t) = {}
      /\ \A m \in Modules : pending[m] = <<>> /\ ToSet(pending[m]) = {} /\ Distinct(pending[m])
      /\ keys = <<>> /\ ToSet(keys) = {} /\ Distinct(keys)
  BY NoElements DEF Init, Frames, Depth
<1>2. HookTypes /\ overlaps \subseteq {"nested", "raced"}
  <2>1. <<>> \in Seq(Hooks) /\ <<>> \in Seq(Modules) /\ <<>> \in Seq(Frame)
    OBVIOUS
  <2> QED
    BY <2>1 DEF Init, HookTypes, StackOK
<1>3. CallInv
  BY <1>1 DEF Init, CallInv, InnermostOnly, OneImport, ImportProgress, ExecutingIsImported
<1>4. CustodyInv
  BY <1>1 DEF Init, CustodyInv, QueueInv, FiringInv, DeclareInv, KeysInv, ReportedInv
<1>5. RestInv /\ AskedInv
  BY <1>1 DEF Init, RestInv, NothingMissed, QueuesInTime, NothingLost, NoneLeftBehind, Waiting,
              AskedInv
<1>6. OverlapsSeen /\ DeclaresElsewhere /\ FinderComes
  BY <1>1 DEF OverlapsSeen, DeclaresElsewhere, FinderComes
<1> QED
  BY <1>2, <1>3, <1>4, <1>5, <1>6 DEF HookInv, WaitInv

LEMMA InEffectInit == Init => InEffect
BY DEF Init, InEffect, RunsLoaded, EffectInv, Frames, Depth

LEMMA HistoryStep ==
    ASSUME overlaps \subseteq {"nested", "raced"}, Next
    PROVE  /\ (overlaps \subseteq {"nested", "raced"})'
           /\ overlaps \subseteq overlaps' /\ OverlapsKnown'
BY DEF Next, Overlaps, OverlapsKnown

LEMMA HookInvStep == HookInv /\ Next => HookInv'
<1> SUFFICES ASSUME HookInv, Next PROVE HookInv'
  OBVIOUS
<1>1. PICK t \in Threads : Step(t)
  BY DEF Next
<1>2. /\ HookTypes /\ CallInv /\ CustodyInv
      /\ OverlapsSeen /\ DeclaresElsewhere /\ FinderComes /\ (Unraced => RestInv /\ AskedInv)
  BY DEF HookInv, WaitInv
<1>3. HookTypes' /\ CallInv'
  BY <1>1, <1>2, CallStep
<1>4. CustodyInv'
  BY <1>1, <1>2, CustodyStep
<1>5. /\ (overlaps \subseteq {"nested", "raced"})'
      /\ overlaps \subseteq overlaps' /\ OverlapsKnown'
  BY HistoryStep DEF HookInv
<1>6. OverlapsSeen'
  BY <1>3, <1>5, OverlapsAreSeenNext DEF HookTypes, CallInv
<1>7. DeclaresElsewhere' /\ FinderComes'
  BY <1>1, <1>2, ElsewhereStep, FinderStep
<1>8. ASSUME Unraced' PROVE RestInv' /\ AskedInv'
  <2>1. Unraced
    BY <1>5, <1>8 DEF Unraced
  <2> QED
    BY <1>1, <1>2, <1>3, <2>1, RestStep, AskedStep
<1>9. WaitInv'
  BY <1>6, <1>7, <1>8 DEF WaitInv
<1> QED
  BY <1>3, <1>4, <1>5, <1>9 DEF HookInv

LEMMA InEffectStep == HooksApart /\ HookInv /\ HookInv' /\ InEffect /\ Next => InEffect'
<1> SUFFICES ASSUME HooksApart, HookInv, HookInv', InEffect, Next, overlaps' = {}
             PROVE  RunsLoaded' /\ EffectInv'
  BY DEF InEffect
<1>1. PICK t \in Threads : Step(t)
  BY DEF Next
<1>2. /\ HookTypes /\ CallInv /\ CustodyInv
      /\ HookTypes' /\ CallInv' /\ OverlapsSeen'
  BY DEF HookInv, WaitInv
<1>3. RunsLoaded /\ EffectInv
  BY DEF InEffect, Next
<1>4. RunsLoaded'
  BY <1>1, <1>2, <1>3, RunsLoadedStep
<1>5. EffectInv'
  BY <1>1, <1>2, <1>3, EffectStep
<1> QED
  BY <1>4, <1>5

LEMMA Stutters ==
    ASSUME UNCHANGED vars
    PROVE  (HookInv => HookInv') /\ (InEffect => InEffect')
<1> USE DEF vars, hookVars
<1>1. \A t \in Threads : Depth(t)' = Depth(t) /\ Frames(t)' = Frames(t)
  BY DEF Frames, Depth
<1>2. HookTypes => HookTypes'
  BY DEF HookTypes, StackOK
<1>3. CallInv => CallInv'
  BY <1>1 DEF CallInv, InnermostOnly, OneImport, ImportProgress, ExecutingIsImported, Importing,
              Imports, Declares
<1>4. CustodyInv => CustodyInv'
  BY <1>1 DEF CustodyInv, QueueInv, FiringInv, DeclareInv, KeysInv, ReportedInv, Queued, Imports,
              Declares
<1>5. WaitInv => WaitInv'
  <2>1. RestInv => RestInv'
    BY <1>1 DEF RestInv, NothingMissed, QueuesInTime, NothingLost, NoneLeftBehind, Waiting,
                Queued, Carried, Imports, Declares
  <2>2. AskedInv => AskedInv'
    BY <1>1 DEF AskedInv, Settled, Queued, Imports
  <2>3. /\ OverlapsSeen => OverlapsSeen'
        /\ DeclaresElsewhere => DeclaresElsewhere'
        /\ FinderComes => FinderComes'
    BY <1>1 DEF OverlapsSeen, DeclaresElsewhere, FinderComes, Imports, Declares
  <2> QED
    BY <2>1, <2>2, <2>3 DEF WaitInv, Unraced
<1>6. InEffect => InEffect'
  BY <1>1 DEF InEffect, RunsLoaded, EffectInv, Finished, Imports, Declares
<1> QED
  BY <1>2, <1>3, <1>4, <1>5, <1>6 DEF HookInv

LEMMA HookInvHolds == Spec => []HookInv
<1>1. HookInv /\ [Next]_vars => HookInv'
  BY HookInvStep, Stutters
<1> QED
  BY HookInvInit, <1>1, PTL DEF Spec

--------------------------------------------------------------------------------
(* The theorems.                                                           *)

\* sys.modules, the queues, the finder and the call stacks keep their types.
THEOREM TypeCorrect == Spec => []TypeOK
<1>1. HookInv => TypeOK
  BY DEF HookInv, HookTypes, StackOK, TypeOK
<1> QED
  BY <1>1, HookInvHolds, PTL

\* Whatever imports, hooks and threads do, races included, a deferred patch is held by no
\* more than one place, and what is held is deferred; and until a thread declares a patch of
\* a module that another one imports, one that has not settled is held by one: the
\* queue, its decorator, or the fire() that runs it.
THEOREM HooksAreConserved == Spec => []HookConserved
<1>1. HookInv => HookConserved
  <2> SUFFICES ASSUME HookInv, NEW h \in Hooks
               PROVE  /\ Queued(h) \/ Carried(h) => Waiting(h)
                      /\ ~(Queued(h) /\ Carried(h))
                      /\ \A t, u \in Threads : \A i \in DOMAIN stack[t], j \in DOMAIN stack[u] :
                            HeldBy(stack[t][i], h) /\ HeldBy(stack[u][j], h) => t = u /\ i = j
                      /\ Waiting(h) => Queued(h) \/ Carried(h) \/ ~Unraced
    BY DEF HookConserved, Unraced
  <2>1. StackOK /\ CallInv /\ CustodyInv
    BY DEF HookInv, HookTypes
  <2>2. Queued(h) => Waiting(h)
    BY <2>1, HookOfModule DEF CustodyInv, QueueInv, Queued, Waiting
  <2>3. Carried(h) => Waiting(h) /\ ~Queued(h)
    BY <2>1, CarriedFrames
       DEF CustodyInv, FiringInv, DeclareInv, HeldBy, Waiting, Imports, Declares
  <2>4. ASSUME NEW t \in Threads, NEW u \in Threads,
               NEW i \in DOMAIN stack[t], NEW j \in DOMAIN stack[u],
               HeldBy(stack[t][i], h), HeldBy(stack[u][j], h)
        PROVE  t = u /\ i = j
    <3>1. i \in Frames(t) /\ j \in Frames(u)
      BY <2>1 DEF StackOK, Frames, Depth
    <3>2. CASE Declares(t, i) \/ Declares(u, j)
      BY <2>1, <2>4, <3>1, <3>2 DEF CustodyInv, DeclareInv, HeldBy, Imports, Declares
    <3>3. CASE ~Declares(t, i) /\ ~Declares(u, j)
      <4>1. /\ Imports(t, i) /\ h \in ToSet(stack[t][i].hooks)
            /\ Imports(u, j) /\ h \in ToSet(stack[u][j].hooks)
        BY <2>4, <3>3 DEF HeldBy, Imports, Declares
      <4>2. stack[t][i].mod = HookModule[h] /\ stack[u][j].mod = HookModule[h]
        BY <2>1, <3>1, <4>1 DEF CustodyInv, FiringInv
      <4> QED
        BY <2>1, <3>1, <4>1, <4>2 DEF CallInv, OneImport
    <3> QED
      BY <3>2, <3>3
  <2>5. Unraced /\ Waiting(h) => Queued(h) \/ Carried(h)
    BY DEF HookInv, WaitInv, RestInv, NothingLost
  <2> QED
    BY <2>2, <2>3, <2>4, <2>5
<1> QED
  BY <1>1, HookInvHolds, PTL

\* A hook that ran to its end is held by nobody, so that no later import runs it again,
\* races between threads included (fire() pops each hook it ran).
THEOREM SettledHooksAreReleased == Spec => []SettledHookIsReleased
<1>1. HookInv => SettledHookIsReleased
  <2> SUFFICES ASSUME HookInv, NEW h \in Hooks, Settled(h)
               PROVE  ~Queued(h) /\ ~Carried(h)
    BY DEF SettledHookIsReleased
  <2>1. StackOK /\ CustodyInv
    BY DEF HookInv, HookTypes
  <2>2. ~Queued(h)
    BY <2>1, HookOfModule DEF CustodyInv, QueueInv, Queued, Settled
  <2>3. ~Carried(h)
    BY <2>1, CarriedFrames
       DEF CustodyInv, FiringInv, DeclareInv, HeldBy, Settled, Imports, Declares
  <2> QED
    BY <2>2, <2>3
<1> QED
  BY <1>1, HookInvHolds, PTL

\* Once a module with a loader is loaded, no hook waits for it: find_spec() claimed it if one
\* did, and when_imported() queues none for a module that is in sys.modules.
THEOREM LoadedModulesHaveNoHooks == Spec => []NoHookLeftBehind
<1>1. HookInv => NoHookLeftBehind
  BY DEF HookInv, WaitInv, RestInv, NoneLeftBehind, NoHookLeftBehind, Unraced
<1> QED
  BY <1>1, HookInvHolds, PTL

\* When apply_all() returns, what was pending when it was called has settled, whoever
\* imported the modules meanwhile.
THEOREM ApplyAllLeavesNone == Spec => []ApplyAllSettles
<1>1. HookInv => ApplyAllSettles
  <2> SUFFICES ASSUME HookInv, Unraced, NEW t \in Threads, InFrame(t, "apply_all"),
                      Top(t).todo = <<>>, NEW h \in Top(t).asked
               PROVE  HookModule[h] \in Namespaces \/ Settled(h)
    BY DEF ApplyAllSettles, Unraced
  <2>1. StackOK /\ AskedInv
    BY DEF HookInv, HookTypes, WaitInv
  <2>2. Depth(t) \in Frames(t) /\ stack[t][Depth(t)] = Top(t)
    BY <2>1, TopFrame DEF InFrame
  <2>3. Settled(h) \/ HookModule[h] \in ToSet(Top(t).todo) \cup Namespaces
    BY <2>1, <2>2 DEF AskedInv, InFrame
  <2> QED
    BY <2>3, NoElements
<1> QED
  BY <1>1, HookInvHolds, PTL

\* A hook that was queued never runs while the body of its module does: HookedLoader fires
\* after exec_module(), and the import lock keeps every other import of the module away.  A
\* hook that its decorator runs then was declared during the import.
THEOREM HooksSeeCompleteModules == Spec => HookSeesCompleteModule
<1> DEFINE Complete == \A h \in Hooks :
              Settled(h)' /\ ~Settled(h) /\ BodyRuns(HookModule[h]) =>
                  Declaring(h) /\ overlaps # {}
<1>1. ASSUME HookInv, [Next]_vars PROVE Complete
  <2> SUFFICES ASSUME NEW h \in Hooks, Settled(h)', ~Settled(h), BodyRuns(HookModule[h])
               PROVE  Declaring(h) /\ overlaps # {}
    OBVIOUS
  <2>1. HookTypes /\ StackOK /\ CallInv /\ CustodyInv /\ OverlapsSeen
    BY <1>1 DEF HookInv, HookTypes, WaitInv
  <2>2. status' # status
    BY DEF Settled
  <2>3. PICK t \in Threads : Step(t)
    BY <1>1, <2>2 DEF Next, vars, hookVars
  <2>4. ASSUME NEW g \in Hooks, Declare(t, g) PROVE FALSE
    BY <2>1, <2>4, DeclareEffect DEF Settled, HookTypes
  <2>5. CASE RunNow(t)
    <3>1. PICK g \in Hooks : Top(t) = DeclareFrame(g, "run") /\ (HookReturns(g) \/ UNCHANGED status)
      BY <2>1, <2>5, RunNowEffect
    <3>2. g = h
      BY <2>1, <2>2, <3>1, Returns DEF Settled
    <3>3. At(t, "declare", "run") /\ Top(t).hook = h
      BY <2>5, <3>1, <3>2 DEF RunNow, DeclareFrame
    <3>4. Depth(t) \in Frames(t) /\ stack[t][Depth(t)] = Top(t) /\ Declares(t, Depth(t))
      BY <2>1, <3>3, TopFrame DEF At, InFrame, Declares
    <3>5. \E u \in Threads : \E i \in Frames(u) : Imports(u, i) /\ stack[u][i].mod = HookModule[h]
      <4>1. \A u \in Threads : DOMAIN stack[u] = Frames(u)
        BY <2>1, FrameAt
      <4> QED
        BY <4>1 DEF BodyRuns, Imports
    <3>6. overlaps # {}
      BY <2>1, <3>3, <3>4, <3>5 DEF OverlapsSeen
    <3> QED
      BY <3>3, <3>6 DEF Declaring
  <2>6. CASE FireNext(t)
    <3>1. PICK m \in Modules, c \in BOOLEAN, q \in Seq(Hooks) :
             Top(t) = ImportFrame(m, "fire", c, q) /\ q # <<>> /\ HookReturns(Head(q))
      BY <2>1, <2>6, FireNextEffect
    <3>2. /\ ~Idle(t) /\ Top(t).op = "import" /\ Top(t).pc = "fire" /\ Top(t).mod = m
          /\ Top(t).hooks = q
      BY <2>6, <3>1 DEF FireNext, At, InFrame, ImportFrame
    <3>3. Head(q) \in Hooks /\ Head(q) \in ToSet(q)
      BY <3>1, TailElements
    <3>4. h = Head(q)
      BY <2>1, <3>1, <3>3, Returns DEF Settled
    <3>5. /\ Depth(t) \in Frames(t) /\ stack[t][Depth(t)] = Top(t)
          /\ \A u \in Threads : \A i \in Frames(u) :
                Imports(u, i) /\ stack[u][i].mod = m => u = t /\ i = Depth(t)
      BY <2>1, <3>2, InnermostProgress
    <3>6. HookModule[h] = m
      BY <2>1, <3>2, <3>3, <3>4, <3>5 DEF CustodyInv, FiringInv, Imports
    <3>7. \A u \in Threads : DOMAIN stack[u] = Frames(u)
      BY <2>1, FrameAt
    <3> QED
      BY <3>2, <3>5, <3>6, <3>7 DEF BodyRuns, Imports
  <2>7. CASE UNCHANGED status
    BY <2>2, <2>7
  <2> QED
    BY <2>3, <2>4, <2>5, <2>6, <2>7
       DEF Step, Deferral, Loading, Fire, Pending, Import, QueueHook, InstallFinder, FindSpec,
           FinishBody, BodyRaises, FireRaises, FireDone, ApplyAll, ApplyAllNext, ApplyAllDone
<1>2. HookInv /\ [Next]_vars => [Complete]_vars
  BY <1>1
<1> QED
  BY <1>2, HookInvHolds, PTL DEF Spec, HookSeesCompleteModule

\* A patch that is reported applied is what the program uses, after any number of failed and
\* repeated imports, if the hooks that share a module patch submodules of it: then none of
\* them is undone when another one fails and the module is dropped.
THEOREM AppliedPatchesStayInEffect == HooksApart => (Spec => []AppliedStaysInEffect)
<1> SUFFICES ASSUME HooksApart PROVE Spec => []AppliedStaysInEffect
  OBVIOUS
<1>1. HookInv /\ HookInv' /\ InEffect /\ [Next]_vars => InEffect'
  BY InEffectStep, Stutters
<1>2. HookInv /\ InEffect => AppliedStaysInEffect
  BY DEF InEffect, EffectInv, AppliedStaysInEffect
<1> QED
  BY <1>1, <1>2, InEffectInit, HookInvHolds, PTL DEF Spec

================================================================================
