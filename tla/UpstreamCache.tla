----------------------------- MODULE UpstreamCache -----------------------------
(***************************************************************************)
(* `mpat diff`: processes that fetch the archive a lock entry was taken    *)
(* from (_upstream.py) and share one cache directory, which CI jobs        *)
(* restore, clear and are killed over.  A cached archive is trusted by its *)
(* name.  The index credentials travel with the requests to the index.     *)
(*                                                                         *)
(* Temporary files have names of their own, so each is that of one         *)
(* process; what a killed process leaves behind is never looked at.        *)
(***************************************************************************)
EXTENDS Naturals

CONSTANTS
    Procs,
    Hosts,          \* index hosts and download hosts
    Archives,       \* file names
    Name,           \* [dist, version, rank] of each: 1 pure wheel, 2 wheel, 3 sdist
    Pages,          \* the links of each index: sets of [archive, host, content]
    Wanted,         \* the releases that locks name: a set of [dist, version]
    MaxRedirects,   \* after how many redirects urllib gives up
    Short,          \* what a connection that ends early delivers
    Partial,        \* what a write that is not finished has written
    None

Indexes == DOMAIN Pages
Link == UNION {Pages[i] : i \in Indexes}
Served(a) == {link.content : link \in {l \in Link : l.archive = a}}
Request == [host : Hosts, auth : BOOLEAN]
Content == {link.content : link \in Link} \cup {Short, Partial}

ASSUME UpstreamAssumption ==
    /\ Indexes \subseteq Hosts
    /\ \A i \in Indexes : \A link \in Pages[i] : link.archive \in Archives /\ link.host \in Hosts
    /\ \A i \in Indexes : \A link \in Pages[i] : link.content \notin {Short, Partial, None}
    /\ \A a \in Archives : Name[a].rank \in 1 .. 3
    /\ MaxRedirects \in Nat
    /\ None \notin Archives

VARIABLES
    cache,      \* the content of each archive in the cache directory, or None
    tmp,        \* the temporary file of each process: its content, or None
    proc        \* where each process is

vars == <<cache, tmp, proc>>

Idle == [at |-> "idle", want |-> None, index |-> None, secret |-> FALSE,
         request |-> None, hops |-> 0, link |-> None, data |-> None]

Process == [at : {"idle", "page", "lookup", "archive", "mktemp", "write", "rename", "read",
                  "shown"},
            want : Wanted \cup {None}, index : Indexes \cup {None}, secret : BOOLEAN,
            request : Request \cup {None}, hops : 0 .. MaxRedirects,
            link : Link \cup {None}, data : Content \cup {None}]

TypeOK ==
    /\ cache \in [Archives -> Content \cup {None}]
    /\ tmp \in [Procs -> Content \cup {None}]
    /\ proc \in [Procs -> Process]

Init ==
    /\ cache = [a \in Archives |-> None]
    /\ tmp = [p \in Procs |-> None]
    /\ proc = [p \in Procs |-> Idle]

Becomes(p, record) == proc' = [proc EXCEPT ![p] = record]
Goes(p, place) == Becomes(p, [proc[p] EXCEPT !.at = place])

\* UpstreamUnavailable: it is reported, and the next target is due.
Unavailable(p) ==
    /\ Becomes(p, Idle)
    /\ tmp' = [tmp EXCEPT ![p] = None]
    /\ UNCHANGED cache

--------------------------------------------------------------------------------
(* Requests.                                                               *)

\* _get(): the credentials are for the host of the index.
Send(p, host) == [host |-> host, auth |-> proc[p].secret /\ host = proc[p].index]

\* Mutant: the redirected request is the old one with another URL.
FollowCarrying(request, host, index) == [host |-> host, auth |-> request.auth]

\* _KeepAuthOnHost: a header that was removed does not come back.
Follow(request, host, index) == [host |-> host, auth |-> request.auth /\ host = index]

\* Mutant: the handler does not leave the counting to urllib.
RedirectEndless(p, host) ==
    /\ proc[p].at \in {"page", "archive"}
    /\ Becomes(p, [proc[p] EXCEPT !.request = Follow(@, host, proc[p].index),
                                  !.hops = @ + 1])
    /\ UNCHANGED <<cache, tmp>>

Redirect(p, host) ==
    /\ proc[p].at \in {"page", "archive"}
    /\ proc[p].hops < MaxRedirects
    /\ Becomes(p, [proc[p] EXCEPT !.request = Follow(@, host, proc[p].index),
                                  !.hops = @ + 1])
    /\ UNCHANGED <<cache, tmp>>

\* Refused scheme, time-out, HTTP error, connection lost, unreadable page.
FetchFails(p) ==
    /\ proc[p].at \in {"page", "archive"}
    /\ Unavailable(p)

--------------------------------------------------------------------------------
(* _archive().                                                             *)

\* An index with credentials in its URL or in ~/.netrc, or one without.
Start(p, want, index, secret) ==
    /\ proc[p] = Idle
    /\ Becomes(p, [Idle EXCEPT !.at = "page", !.want = want, !.index = index,
                               !.secret = secret,
                               !.request = [host |-> index, auth |-> secret]])
    /\ UNCHANGED <<cache, tmp>>

\* Mutant: the name of the project in the file name is not looked at.
OfVersion(links, want) == {l \in links : Name[l.archive].version = want.version}

\* _archive_version(): the links that are archives of exactly that release.
OfRelease(links, want) ==
    {l \in links : Name[l.archive].dist = want.dist /\ Name[l.archive].version = want.version}

\* _pick(): pure wheels before wheels before sdists; the file names decide among equals.
Pick(links, want) ==
    {l \in OfRelease(links, want) :
        \A other \in OfRelease(links, want) : Name[l.archive].rank <= Name[other.archive].rank}

ReadPage(p) ==
    /\ proc[p].at = "page"
    /\ \E link \in Pick(Pages[proc[p].index], proc[p].want) :
          Becomes(p, [proc[p] EXCEPT !.at = "lookup", !.link = link, !.request = None])
    /\ UNCHANGED <<cache, tmp>>

NoArchive(p) ==
    /\ proc[p].at = "page"
    /\ Pick(Pages[proc[p].index], proc[p].want) = {}
    /\ Unavailable(p)

Archive(p) == proc[p].link.archive

LookUp(p) ==
    /\ proc[p].at = "lookup"
    /\ IF cache[Archive(p)] # None
       THEN Goes(p, "read")
       ELSE Becomes(p, [proc[p] EXCEPT !.at = "archive", !.hops = 0,
                                       !.request = Send(p, proc[p].link.host)])
    /\ UNCHANGED <<cache, tmp>>

\* A response without a length that ends early is not told from a whole one.
Deliver(p) ==
    /\ proc[p].at = "archive"
    /\ \E data \in {proc[p].link.content, Short} :
          Becomes(p, [proc[p] EXCEPT !.at = "mktemp", !.data = data,
                                       !.request = None])
    /\ UNCHANGED <<cache, tmp>>

\* Mutant: the archive is written where it is looked for.
WriteInPlace(p) ==
    /\ proc[p].at = "mktemp"
    /\ cache' = [cache EXCEPT ![Archive(p)] = Partial]
    /\ Goes(p, "write")
    /\ UNCHANGED tmp

MakeTemp(p) ==
    /\ proc[p].at = "mktemp"
    /\ tmp' = [tmp EXCEPT ![p] = Partial]
    /\ Goes(p, "write")
    /\ UNCHANGED cache

\* The open file may have been unlinked with the directory; writing to it succeeds.
WriteTemp(p) ==
    /\ proc[p].at = "write"
    /\ tmp' = [tmp EXCEPT ![p] = IF @ = None THEN None ELSE proc[p].data]
    /\ Goes(p, "rename")
    /\ UNCHANGED cache

\* os.replace()
Rename(p) ==
    /\ proc[p].at = "rename"
    /\ tmp[p] # None
    /\ cache' = [cache EXCEPT ![Archive(p)] = tmp[p]]
    /\ tmp' = [tmp EXCEPT ![p] = None]
    /\ Goes(p, "read")

\* OSError: the disk is full, the directory is gone or not writable.
CachingFails(p) ==
    /\ proc[p].at \in {"mktemp", "write", "rename"}
    /\ Unavailable(p)

--------------------------------------------------------------------------------
(* _member(), and what the caller does with it.                            *)

ReadMember(p) ==
    /\ proc[p].at = "read"
    /\ cache[Archive(p)] \notin {None, Short, Partial}
    /\ Becomes(p, [proc[p] EXCEPT !.at = "shown", !.data = cache[Archive(p)]])
    /\ UNCHANGED <<cache, tmp>>

\* The file is gone or no archive, or the archive does not hold the source file.  (For a
\* compressed tar file that ends early the call raises EOFError, which ends the process.)
ReadFails(p) ==
    /\ proc[p].at = "read"
    /\ Unavailable(p)

\* The process is done, or it is killed before that.
Leave(p) ==
    /\ proc[p] # Idle
    /\ Becomes(p, Idle)
    /\ tmp' = [tmp EXCEPT ![p] = None]
    /\ UNCHANGED cache

\* The cache directory is removed.
ClearCache ==
    /\ cache' = [a \in Archives |-> None]
    /\ tmp' = [p \in Procs |-> None]
    /\ UNCHANGED proc

Step(p) ==
    \/ \E want \in Wanted, index \in Indexes, secret \in BOOLEAN :
          Start(p, want, index, secret)
    \/ \E host \in Hosts : Redirect(p, host)
    \/ FetchFails(p) \/ ReadPage(p) \/ NoArchive(p) \/ LookUp(p) \/ Deliver(p)
    \/ MakeTemp(p) \/ WriteTemp(p) \/ Rename(p) \/ CachingFails(p)
    \/ ReadMember(p) \/ ReadFails(p)
    \/ Leave(p)

Next == ClearCache \/ \E p \in Procs : Step(p)

Spec == Init /\ [][Next]_vars

--------------------------------------------------------------------------------

\* Whatever runs at the same time and wherever a process is killed, the cache holds under
\* the name of an archive all that one server delivered under that name: a file in the
\* cache is never written to, it only comes and goes as a whole (_archive: a temporary
\* file and os.replace).
CachedAsDelivered == \A a \in Archives : cache[a] \in {None, Short} \cup Served(a)

\* What is shown as the locked source comes out of an archive that some index serves as
\* one of exactly the locked release of the locked distribution, also when it is another
\* process, with another index, that cached it (_archive_version, _pick).
ShownIsLockedRelease == \A p \in Procs : proc[p].at = "shown" =>
    \E link \in Link :
        /\ link.archive = Archive(p) /\ link.content = proc[p].data
        /\ Name[link.archive].dist = proc[p].want.dist
        /\ Name[link.archive].version = proc[p].want.version

\* Along any chain of links and redirects, back to the index as well, the credentials of
\* an index are sent to its host only (docs/site/pages/cli.md: "to that host only, never
\* to a host a download redirects to").
CredentialsStay == \A p \in Procs :
    proc[p].at \in {"page", "archive"} /\ proc[p].request.auth =>
    proc[p].secret /\ proc[p].request.host = proc[p].index

================================================================================
