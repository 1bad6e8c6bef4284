-------------------------- MODULE UpstreamCacheProofs --------------------------
(***************************************************************************)
(* Proofs about UpstreamCache, for any number of processes and indexes: an *)
(* archive is cached as one server delivered it, what is shown is of the   *)
(* locked release, and the credentials of an index stay with its host.     *)
(***************************************************************************)
EXTENDS UpstreamCache, TLAPS

\* What a process holds fits how far it is.
HoldsByPlace == \A p \in Procs :
    /\ proc[p].at = "page" => proc[p].index \in Indexes
    /\ proc[p].at \in {"page", "archive"} => proc[p].request \in Request
    /\ proc[p].at \notin {"idle", "page"} => proc[p].link \in OfRelease(Link, proc[p].want)
    /\ proc[p].at \in {"mktemp", "write", "rename"} =>
          proc[p].data \in {proc[p].link.content, Short}
    /\ proc[p].at = "rename" => tmp[p] \in {None, proc[p].data}
    /\ proc[p].at = "shown" => proc[p].data \in Served(proc[p].link.archive)

CacheInv == TypeOK /\ HoldsByPlace /\ CachedAsDelivered /\ CredentialsStay

LEMMA LinkFields ==
    ASSUME NEW link \in Link
    PROVE  /\ link.archive \in Archives /\ link.host \in Hosts /\ link.content \in Content
           /\ link.content \in Served(link.archive)
<1>1. PICK i \in Indexes : link \in Pages[i]
  BY DEF Link
<1>2. link.archive \in Archives /\ link.host \in Hosts
  BY <1>1, UpstreamAssumption
<1> QED
  BY <1>2 DEF Content, Served

LEMMA InitCacheInv == Init => CacheInv
<1> SUFFICES ASSUME Init PROVE CacheInv
  OBVIOUS
<1>1. 0 \in 0 .. MaxRedirects
  BY UpstreamAssumption
<1>2. Idle \in Process
  BY <1>1 DEF Idle, Process
<1>3. TypeOK
  BY <1>2 DEF Init, TypeOK
<1>4. HoldsByPlace /\ CachedAsDelivered /\ CredentialsStay
  BY DEF Init, Idle, HoldsByPlace, CachedAsDelivered, CredentialsStay
<1> QED
  BY <1>3, <1>4 DEF CacheInv

\* A step of one process that leaves the cache alone, or brings into it what a server
\* delivered, preserves the invariant if the process holds afterwards what it should.
LEMMA ProcessStep ==
    ASSUME CacheInv, NEW p \in Procs, NEW record \in Process, NEW content \in Content \cup {None},
           proc' = [proc EXCEPT ![p] = record],
           tmp' = [tmp EXCEPT ![p] = content],
           cache' \in [Archives -> Content \cup {None}], CachedAsDelivered',
           record.at = "page" => record.index \in Indexes,
           record.at \in {"page", "archive"} => record.request \in Request,
           record.at \notin {"idle", "page"} => record.link \in OfRelease(Link, record.want),
           record.at = "shown" => record.data \in Served(record.link.archive),
           record.at \in {"mktemp", "write", "rename"} =>
               record.data \in {record.link.content, Short},
           record.at = "rename" => content \in {None, record.data},
           record.at \in {"page", "archive"} /\ record.request.auth =>
               record.secret /\ record.request.host = record.index
    PROVE  CacheInv'
<1>1. /\ proc'[p] = record /\ tmp'[p] = content
      /\ \A q \in Procs \ {p} : proc'[q] = proc[q] /\ tmp'[q] = tmp[q]
  BY DEF CacheInv, TypeOK
<1>2. TypeOK'
  BY DEF CacheInv, TypeOK
<1>3. HoldsByPlace'
  <2>1. \A a : Served(a)' = Served(a)
    BY DEF Served, Link, Indexes
  <2>2. \A want : OfRelease(Link, want)' = OfRelease(Link, want)
    BY DEF OfRelease, Link, Indexes
  <2> QED
    BY <1>1, <2>1, <2>2 DEF CacheInv, HoldsByPlace
<1>4. CredentialsStay'
  BY <1>1 DEF CacheInv, CredentialsStay
<1> QED
  BY <1>2, <1>3, <1>4 DEF CacheInv

\* The cache as it was holds what servers delivered.
LEMMA SameCache ==
    ASSUME CacheInv, UNCHANGED cache
    PROVE  cache' \in [Archives -> Content \cup {None}] /\ CachedAsDelivered'
BY DEF CacheInv, TypeOK, CachedAsDelivered, Served, Link, Indexes

\* What the invariant says of one process, as the steps below use it.
LEMMA OneProcess ==
    ASSUME CacheInv, NEW p \in Procs
    PROVE  /\ proc[p] \in Process /\ tmp[p] \in Content \cup {None}
           /\ proc[p].at = "page" => proc[p].index \in Indexes
           /\ tmp = [tmp EXCEPT ![p] = tmp[p]]
           /\ proc[p].at \in {"page", "archive"} => proc[p].request \in Request
           /\ proc[p].at \notin {"idle", "page"} =>
                 proc[p].link \in Link /\ proc[p].link \in OfRelease(Link, proc[p].want)
           /\ proc[p].at \in {"mktemp", "write", "rename"} =>
                 proc[p].data \in {proc[p].link.content, Short}
           /\ proc[p].at = "rename" => tmp[p] \in {None, proc[p].data}
           /\ proc[p].at \in {"page", "archive"} /\ proc[p].request.auth =>
                 proc[p].secret /\ proc[p].request.host = proc[p].index
BY DEF CacheInv, TypeOK, HoldsByPlace, CredentialsStay, OfRelease

LEMMA IdleProcess == Idle \in Process /\ Idle.at = "idle"
<1>1. 0 \in 0 .. MaxRedirects
  BY UpstreamAssumption
<1> QED
  BY <1>1 DEF Idle, Process

LEMMA UnavailableCacheInv ==
    ASSUME CacheInv, NEW p \in Procs, Unavailable(p)
    PROVE  CacheInv'
BY SameCache, IdleProcess, ProcessStep DEF Unavailable, Becomes

LEMMA RequestCacheInv ==
    ASSUME CacheInv, NEW p \in Procs,
           \/ \E want \in Wanted, index \in Indexes, secret \in BOOLEAN :
                 Start(p, want, index, secret)
           \/ \E host \in Hosts : Redirect(p, host)
    PROVE  CacheInv'
<1>1. CASE \E want \in Wanted, index \in Indexes, secret \in BOOLEAN :
              Start(p, want, index, secret)
  <2>1. PICK want \in Wanted, index \in Indexes, secret \in BOOLEAN :
            Start(p, want, index, secret)
    BY <1>1
  <2> DEFINE record == [Idle EXCEPT !.at = "page", !.want = want, !.index = index,
                                    !.secret = secret,
                                    !.request = [host |-> index, auth |-> secret]]
  <2>2. index \in Hosts
    BY UpstreamAssumption
  <2>3. record \in Process /\ record.at = "page" /\ record.request \in Request
        /\ record.request = [host |-> index, auth |-> secret]
        /\ record.secret = secret /\ record.index = index
    BY <2>2, IdleProcess DEF Idle, Process, Request
  <2>4. proc' = [proc EXCEPT ![p] = record] /\ tmp' = [tmp EXCEPT ![p] = tmp[p]]
    BY <2>1, OneProcess DEF Start, Becomes
  <2> HIDE DEF record
  <2>5. tmp[p] \in Content \cup {None} /\ UNCHANGED cache
    BY <2>1, OneProcess DEF Start
  <2>6. cache' \in [Archives -> Content \cup {None}] /\ CachedAsDelivered'
    BY <2>5, SameCache
  <2>7. record.at \in {"page", "archive"} /\ record.request.auth =>
            record.secret /\ record.request.host = record.index
    BY <2>3
  <2> QED
    BY <2>3, <2>4, <2>5, <2>6, <2>7, ProcessStep
<1>2. CASE \E host \in Hosts : Redirect(p, host)
  <2>1. PICK host \in Hosts : Redirect(p, host)
    BY <1>2
  <2> DEFINE record == [proc[p] EXCEPT !.request = Follow(@, host, proc[p].index),
                                       !.hops = @ + 1]
  <2>2. proc[p] \in Process /\ proc[p].request \in Request
    BY <2>1, OneProcess DEF Redirect
  <2>3. proc[p].hops + 1 \in 0 .. MaxRedirects
    <3>1. proc[p].hops < MaxRedirects
      BY <2>1 DEF Redirect
    <3>2. proc[p].hops \in 0 .. MaxRedirects
      BY <2>2 DEF Process
    <3> QED
      BY <3>1, <3>2, UpstreamAssumption
  <2>4. Follow(proc[p].request, host, proc[p].index) \in Request
    BY <2>2 DEF Follow, Request
  <2>5. /\ record \in Process /\ record.at = proc[p].at /\ record.link = proc[p].link
        /\ record.want = proc[p].want
        /\ record.request = Follow(proc[p].request, host, proc[p].index)
        /\ record.secret = proc[p].secret /\ record.index = proc[p].index
    BY <2>2, <2>3, <2>4 DEF Process
  <2> HIDE DEF record
  <2>6. record.request.auth => record.secret /\ record.request.host = record.index
    <3>1. SUFFICES ASSUME record.request.auth
                   PROVE  record.secret /\ record.request.host = record.index
      OBVIOUS
    <3>2. Follow(proc[p].request, host, proc[p].index).auth
      BY <2>5, <3>1
    <3>3. proc[p].request.auth /\ host = proc[p].index
      BY <3>2 DEF Follow
    <3>4. record.request.host = host
      BY <2>5 DEF Follow
    <3>5. proc[p].secret
      BY <2>1, <3>3, OneProcess DEF Redirect
    <3> QED
      BY <2>5, <3>3, <3>4, <3>5
  <2>7. proc' = [proc EXCEPT ![p] = record] /\ tmp' = [tmp EXCEPT ![p] = tmp[p]]
    BY <2>1, OneProcess DEF Redirect, Becomes, record
  <2>8. proc[p].at \in {"page", "archive"} /\ UNCHANGED cache
    BY <2>1 DEF Redirect
  <2>9. /\ tmp[p] \in Content \cup {None}
        /\ record.at = "page" => record.index \in Indexes
        /\ record.at \notin {"idle", "page"} =>
              record.link \in OfRelease(Link, record.want)
    BY <2>5, OneProcess
  <2>10. cache' \in [Archives -> Content \cup {None}] /\ CachedAsDelivered'
    BY <2>8, SameCache
  <2>11. record.request \in Request /\ record.at \in {"page", "archive"}
    BY <2>4, <2>5, <2>8
  <2> QED
    BY <2>5, <2>6, <2>7, <2>9, <2>10, <2>11, ProcessStep
<1> QED
  BY <1>1, <1>2

\* The same for a step that touches no file.
LEMMA MemoryStep ==
    ASSUME CacheInv, NEW p \in Procs, NEW record \in Process,
           Becomes(p, record), UNCHANGED <<cache, tmp>>,
           record.at = "archive" => record.request \in Request,
           record.at \notin {"idle", "page"} => record.link \in OfRelease(Link, record.want),
           record.at = "shown" => record.data \in Served(record.link.archive),
           record.at \in {"mktemp", "write"} => record.data \in {record.link.content, Short},
           record.at \notin {"page", "rename"},
           record.at = "archive" /\ record.request.auth =>
               record.secret /\ record.request.host = record.index
    PROVE  CacheInv'
<1>1. cache' \in [Archives -> Content \cup {None}] /\ CachedAsDelivered'
  BY SameCache
<1>2. tmp[p] \in Content \cup {None} /\ tmp' = [tmp EXCEPT ![p] = tmp[p]]
  BY OneProcess
<1>3. proc' = [proc EXCEPT ![p] = record]
  BY DEF Becomes
<1> QED
  BY <1>1, <1>2, <1>3, ProcessStep

LEMMA PageCacheInv ==
    ASSUME CacheInv, NEW p \in Procs, ReadPage(p)
    PROVE  CacheInv'
<1>1. PICK link \in Pick(Pages[proc[p].index], proc[p].want) :
          Becomes(p, [proc[p] EXCEPT !.at = "lookup", !.link = link, !.request = None])
  BY DEF ReadPage
<1> DEFINE record == [proc[p] EXCEPT !.at = "lookup", !.link = link, !.request = None]
<1>2. link \in Link /\ link \in OfRelease(Link, proc[p].want)
  <2>1. link \in Pages[proc[p].index]
    BY DEF Pick, OfRelease
  <2>2. proc[p].index \in Indexes
    BY OneProcess DEF ReadPage
  <2> QED
    BY <2>1, <2>2 DEF Link, Pick, OfRelease
<1>3. /\ record \in Process /\ record.at = "lookup" /\ record.link = link
      /\ record.want = proc[p].want
  BY <1>2, OneProcess DEF Process
<1>4. Becomes(p, record) /\ UNCHANGED <<cache, tmp>>
  BY <1>1 DEF ReadPage
<1> HIDE DEF record
<1> QED
  BY <1>2, <1>3, <1>4, MemoryStep

LEMMA LookUpCacheInv ==
    ASSUME CacheInv, NEW p \in Procs, LookUp(p)
    PROVE  CacheInv'
<1>1. /\ proc[p] \in Process /\ UNCHANGED <<cache, tmp>>
      /\ proc[p].link \in Link /\ proc[p].link \in OfRelease(Link, proc[p].want)
  BY OneProcess DEF LookUp
<1>2. CASE cache[Archive(p)] # None
  <2> DEFINE record == [proc[p] EXCEPT !.at = "read"]
  <2>1. /\ record \in Process /\ record.at = "read" /\ record.link = proc[p].link
        /\ record.want = proc[p].want
    BY <1>1 DEF Process
  <2>2. Becomes(p, record)
    BY <1>2 DEF LookUp, Goes
  <2> HIDE DEF record
  <2> QED
    BY <1>1, <2>1, <2>2, MemoryStep
<1>3. CASE cache[Archive(p)] = None
  <2> DEFINE request == Send(p, proc[p].link.host)
             record == [proc[p] EXCEPT !.at = "archive", !.hops = 0, !.request = request]
  <2>1. request \in Request
    <3>1. proc[p].link.host \in Hosts
      BY <1>1, LinkFields
    <3>2. proc[p].secret \in BOOLEAN
      BY <1>1 DEF Process
    <3> QED
      BY <3>1, <3>2 DEF Send, Request
  <2>2. 0 \in 0 .. MaxRedirects
    BY UpstreamAssumption
  <2> HIDE DEF request
  <2>3. /\ record \in Process /\ record.at = "archive" /\ record.link = proc[p].link
        /\ record.request = request /\ record.want = proc[p].want
        /\ record.secret = proc[p].secret /\ record.index = proc[p].index
    BY <1>1, <2>1, <2>2 DEF Process
  <2>4. Becomes(p, record)
    BY <1>3 DEF LookUp, request
  <2>5. request.auth => proc[p].secret /\ request.host = proc[p].index
    BY DEF Send, request
  <2> HIDE DEF record
  <2> QED
    BY <1>1, <2>1, <2>3, <2>4, <2>5, MemoryStep
<1> QED
  BY <1>2, <1>3

LEMMA DeliverCacheInv ==
    ASSUME CacheInv, NEW p \in Procs, Deliver(p)
    PROVE  CacheInv'
<1>1. PICK data \in {proc[p].link.content, Short} :
          Becomes(p, [proc[p] EXCEPT !.at = "mktemp", !.data = data, !.request = None])
  BY DEF Deliver
<1> DEFINE record == [proc[p] EXCEPT !.at = "mktemp", !.data = data, !.request = None]
<1>2. /\ proc[p] \in Process
      /\ proc[p].link \in Link /\ proc[p].link \in OfRelease(Link, proc[p].want)
  BY OneProcess DEF Deliver
<1>3. data \in Content
  BY <1>2, LinkFields DEF Content
<1>4. /\ record \in Process /\ record.at = "mktemp" /\ record.link = proc[p].link
      /\ record.data = data /\ record.want = proc[p].want
  BY <1>2, <1>3 DEF Process
<1>5. Becomes(p, record) /\ UNCHANGED <<cache, tmp>>
  BY <1>1 DEF Deliver
<1> HIDE DEF record
<1> QED
  BY <1>2, <1>4, <1>5, MemoryStep

\* What a temporary file is given is in memory, and what the cache is given is in a
\* temporary file that is complete.
LEMMA WriteCacheInv ==
    ASSUME CacheInv, NEW p \in Procs, MakeTemp(p) \/ WriteTemp(p) \/ Rename(p)
    PROVE  CacheInv'
<1>1. /\ proc[p] \in Process
      /\ proc[p].link \in Link /\ proc[p].link \in OfRelease(Link, proc[p].want)
      /\ proc[p].data \in {proc[p].link.content, Short}
      /\ tmp[p] \in Content \cup {None}
      /\ proc[p].at = "rename" => tmp[p] \in {None, proc[p].data}
  BY OneProcess DEF MakeTemp, WriteTemp, Rename
<1>2. proc[p].data \in Content
  BY <1>1, LinkFields DEF Content
<1> DEFINE record(place) == [proc[p] EXCEPT !.at = place]
<1>3. \A place \in {"write", "rename", "read"} :
          /\ record(place) \in Process /\ record(place).at = place
          /\ record(place).link = proc[p].link /\ record(place).data = proc[p].data
          /\ record(place).want = proc[p].want
  BY <1>1 DEF Process
<1>4. \A place : Goes(p, place) => proc' = [proc EXCEPT ![p] = record(place)]
  BY DEF Goes, Becomes
<1> HIDE DEF record
<1>5. CASE MakeTemp(p)
  <2>1. Partial \in Content
    BY DEF Content
  <2>2. /\ tmp' = [tmp EXCEPT ![p] = Partial] /\ UNCHANGED cache
        /\ proc' = [proc EXCEPT ![p] = record("write")]
    BY <1>4, <1>5 DEF MakeTemp
  <2>3. cache' \in [Archives -> Content \cup {None}] /\ CachedAsDelivered'
    BY <2>2, SameCache
  <2> QED
    BY <1>1, <1>3, <2>1, <2>2, <2>3, ProcessStep
<1>6. CASE WriteTemp(p)
  <2> DEFINE content == IF tmp[p] = None THEN None ELSE proc[p].data
  <2>1. content \in Content \cup {None} /\ content \in {None, proc[p].data}
    BY <1>2
  <2>2. /\ tmp' = [tmp EXCEPT ![p] = content] /\ UNCHANGED cache
        /\ proc' = [proc EXCEPT ![p] = record("rename")]
    BY <1>4, <1>6 DEF WriteTemp
  <2>3. cache' \in [Archives -> Content \cup {None}] /\ CachedAsDelivered'
    BY <2>2, SameCache
  <2> HIDE DEF content
  <2> QED
    BY <1>1, <1>3, <2>1, <2>2, <2>3, ProcessStep
<1>7. CASE Rename(p)
  <2>1. /\ tmp' = [tmp EXCEPT ![p] = None]
        /\ cache' = [cache EXCEPT ![Archive(p)] = proc[p].data]
        /\ proc' = [proc EXCEPT ![p] = record("read")]
    BY <1>1, <1>4, <1>7 DEF Rename
  <2>2. /\ Archive(p) \in Archives
        /\ proc[p].data \in {None, Short} \cup Served(Archive(p))
    BY <1>1, LinkFields DEF Archive
  <2>3. cache' \in [Archives -> Content \cup {None}]
    BY <1>2, <2>1, <2>2 DEF CacheInv, TypeOK
  <2>4. \A a \in Archives : cache'[a] \in {None, Short} \cup Served(a)
    BY <2>1, <2>2 DEF CacheInv, TypeOK, CachedAsDelivered
  <2>5. CachedAsDelivered'
    BY <2>4 DEF CachedAsDelivered, Served, Link, Indexes
  <2> QED
    BY <1>1, <1>3, <2>1, <2>3, <2>5, ProcessStep
<1> QED
  BY <1>5, <1>6, <1>7

LEMMA ReadMemberCacheInv ==
    ASSUME CacheInv, NEW p \in Procs, ReadMember(p)
    PROVE  CacheInv'
<1> DEFINE record == [proc[p] EXCEPT !.at = "shown", !.data = cache[Archive(p)]]
<1>1. /\ proc[p] \in Process
      /\ proc[p].link \in Link /\ proc[p].link \in OfRelease(Link, proc[p].want)
  BY OneProcess DEF ReadMember
<1>2. /\ cache[Archive(p)] \in Content \cup {None}
      /\ cache[Archive(p)] \in Served(proc[p].link.archive)
  BY <1>1, LinkFields DEF CacheInv, TypeOK, CachedAsDelivered, ReadMember, Archive
<1>3. /\ record \in Process /\ record.at = "shown" /\ record.link = proc[p].link
      /\ record.want = proc[p].want /\ record.data = cache[Archive(p)]
  BY <1>1, <1>2 DEF Process
<1>4. Becomes(p, record) /\ UNCHANGED <<cache, tmp>>
  BY DEF ReadMember
<1> HIDE DEF record
<1> QED
  BY <1>1, <1>2, <1>3, <1>4, MemoryStep

LEMMA ClearCacheInv ==
    ASSUME CacheInv, ClearCache
    PROVE  CacheInv'
<1>1. \A p \in Procs : tmp'[p] = None
  BY DEF ClearCache
<1>2. TypeOK'
  BY DEF CacheInv, TypeOK, ClearCache
<1>3. HoldsByPlace'
  BY <1>1 DEF CacheInv, HoldsByPlace, ClearCache, Served, Link, Indexes
<1>4. CachedAsDelivered' /\ CredentialsStay'
  BY DEF CacheInv, CachedAsDelivered, CredentialsStay, ClearCache
<1> QED
  BY <1>2, <1>3, <1>4 DEF CacheInv

LEMMA NextCacheInv == CacheInv /\ [Next]_vars => CacheInv'
<1> SUFFICES ASSUME CacheInv, [Next]_vars PROVE CacheInv'
  OBVIOUS
<1>1. CASE ClearCache
  BY <1>1, ClearCacheInv
<1>2. ASSUME NEW p \in Procs, Step(p) PROVE CacheInv'
  <2>1. CASE \/ \E want \in Wanted, index \in Indexes, secret \in BOOLEAN :
                   Start(p, want, index, secret)
             \/ \E host \in Hosts : Redirect(p, host)
    BY <2>1, RequestCacheInv
  <2>2. CASE FetchFails(p) \/ NoArchive(p) \/ CachingFails(p) \/ ReadFails(p) \/ Leave(p)
    <3>1. Unavailable(p)
      BY <2>2 DEF FetchFails, NoArchive, CachingFails, ReadFails, Leave, Unavailable
    <3> QED
      BY <3>1, UnavailableCacheInv
  <2>3. CASE ReadPage(p)
    BY <2>3, PageCacheInv
  <2>4. CASE LookUp(p)
    BY <2>4, LookUpCacheInv
  <2>5. CASE Deliver(p)
    BY <2>5, DeliverCacheInv
  <2>6. CASE MakeTemp(p) \/ WriteTemp(p) \/ Rename(p)
    BY <2>6, WriteCacheInv
  <2>7. CASE ReadMember(p)
    BY <2>7, ReadMemberCacheInv
  <2> QED
    BY <1>2, <2>1, <2>2, <2>3, <2>4, <2>5, <2>6, <2>7 DEF Step
<1>3. CASE UNCHANGED vars
  BY <1>3 DEF vars, CacheInv, TypeOK, HoldsByPlace, CachedAsDelivered, CredentialsStay,
              Served, Link, Indexes
<1> QED
  BY <1>1, <1>2, <1>3 DEF Next

\* The cache, the temporary files and the processes of `mpat diff` keep their types.
THEOREM TypeCorrect == Spec => []TypeOK
<1>1. CacheInv => TypeOK
  BY DEF CacheInv
<1> QED
  BY <1>1, InitCacheInv, NextCacheInv, PTL DEF Spec

\* However many processes share the cache directory, and wherever one of them fails or is
\* killed, a cached archive is what one server delivered under its name (_archive).
THEOREM CacheHoldsWholeArchives == Spec => []CachedAsDelivered
<1>1. CacheInv => CachedAsDelivered
  BY DEF CacheInv
<1> QED
  BY <1>1, InitCacheInv, NextCacheInv, PTL DEF Spec

\* A source that is shown is out of an archive of exactly the locked release, whichever
\* process cached it and from whichever index (_archive_version, _pick).
THEOREM ShownSourceIsLocked == Spec => []ShownIsLockedRelease
<1>1. CacheInv => ShownIsLockedRelease
  <2> SUFFICES ASSUME CacheInv, NEW p \in Procs, proc[p].at = "shown"
               PROVE  \E link \in Link :
                          /\ link.archive = Archive(p) /\ link.content = proc[p].data
                          /\ Name[link.archive].dist = proc[p].want.dist
                          /\ Name[link.archive].version = proc[p].want.version
    BY DEF ShownIsLockedRelease
  <2>1. /\ proc[p].link \in OfRelease(Link, proc[p].want)
        /\ proc[p].data \in Served(proc[p].link.archive)
    BY DEF CacheInv, HoldsByPlace
  <2>2. PICK link \in Link : link.archive = Archive(p) /\ link.content = proc[p].data
    BY <2>1 DEF Served, Archive
  <2> QED
    BY <2>1, <2>2 DEF OfRelease, Archive
<1> QED
  BY <1>1, InitCacheInv, NextCacheInv, PTL DEF Spec

\* Whatever an index links to and whatever a host redirects to, the credentials of an
\* index go to its host only (_get, _KeepAuthOnHost).
THEOREM CredentialsGoToIndex == Spec => []CredentialsStay
<1>1. CacheInv => CredentialsStay
  BY DEF CacheInv
<1> QED
  BY <1>1, InitCacheInv, NextCacheInv, PTL DEF Spec

================================================================================
