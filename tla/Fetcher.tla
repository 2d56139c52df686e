------------------------------ MODULE Fetcher -------------------------------
(***************************************************************************)
(* component/resource: Fetcher over an HTTPVehicle. Initial starts from    *)
(* the local file, the bundle or the remote; the pull loop and the API     *)
(* then read outside the mutex and load under it. Contents are versions: a *)
(* hash stands for the version it is of. The server publishes ever newer   *)
(* versions; the file and the stored ETag survive a crash, the rest of the *)
(* state does not.                                                         *)
(***************************************************************************)
EXTENDS Naturals, FiniteSets

CONSTANTS
    MaxRemote,   \* bound: the server publishes the versions 1..MaxRemote
    Broken,      \* versions that do not parse
    Updaters,    \* goroutines of the API
    MaxCrashes   \* bound: crashes

VARIABLES
    remote,     \* what the server has now
    etag,       \* cachefile: the version whose ETag was stored last, or None
    file,       \* the local file
    hash,       \* f.hash
    contents,   \* what onUpdate was given last
    fetch,      \* per goroutine: its place in Update
    initial,    \* how far Initial is
    crashes

vars == <<remote, etag, file, hash, contents, fetch, initial, crashes>>

None == 0
Bundled == MaxRemote + 1      \* the contents of the bundle file
Torn == MaxRemote + 2         \* what a write cut short leaves in the file
Unreadable == MaxRemote + 3   \* os.Stat succeeds, os.ReadFile does not
Versions == 1..Torn
PullLoop == "pull"
Fetching == Updaters \cup {PullLoop}

\* pc: "idle" | "read" the request is out: "old" is the hash it started from and
\*     "match" the version whose ETag is in If-None-Match, if any | "load" waiting
\*     for the mutex with "buf" (None after a 304) and its hash "got" | "write"
\*     holding the mutex.
NoFetch == [pc |-> "idle", old |-> None, match |-> None, buf |-> None, got |-> None]

TypeOK ==
    /\ remote \in 1..MaxRemote /\ etag \in 0..MaxRemote
    /\ file \in Versions \cup {None, Unreadable}
    /\ hash \in Versions \cup {None} /\ contents \in Versions \cup {None}
    /\ fetch \in [Fetching -> [pc : {"idle", "read", "load", "write"}, old : Versions \cup {None},
                               match : 0..MaxRemote, buf : Versions \cup {None}, got : Versions \cup {None}]]
    /\ initial \in {"file", "bundle", "remote", "updating", "done"}
    /\ crashes \in 0..MaxCrashes

Init ==
    /\ remote = 1 /\ etag = None
    /\ file = None
    /\ hash = None /\ contents = None
    /\ fetch = [g \in Fetching |-> NoFetch]
    /\ initial = "file"
    /\ crashes = 0

\* A file that was cut short may or may not still parse.
Parses(v, ok) == v \notin Broken /\ (v = Torn => ok)

Loaded(v) == hash' = v /\ contents' = v

-----------------------------------------------------------------------------
(* Initial                                                                 *)

\* The local file comes first. One that cannot be read passes for an unchanged
\* one: loadBuf returns no error for a nil buffer, and Initial succeeds.
InitialFile ==
    /\ initial = "file"
    /\ \E ok \in BOOLEAN :
         \/ /\ file \in Versions /\ Parses(file, ok)
            /\ Loaded(file)
            /\ initial' = "done"
         \/ /\ file = None \/ (file \in Versions /\ ~Parses(file, ok))
            /\ initial' = "bundle"
            /\ UNCHANGED <<hash, contents>>
         \/ /\ file = Unreadable
            /\ initial' = "done"
            /\ UNCHANGED <<hash, contents>>
    /\ UNCHANGED <<remote, etag, file, fetch, crashes>>

\* The bundle file, when there is one, is loaded and written to the file.
InitialBundle ==
    /\ initial = "bundle"
    /\ \/ /\ Loaded(Bundled)
          /\ file' = Bundled
          /\ initial' = "done"
       \/ /\ initial' = "remote"
          /\ UNCHANGED <<file, hash, contents>>
    /\ UNCHANGED <<remote, etag, fetch, crashes>>

\* The remote: Update, and then the pull loop whether or not it succeeded.
InitialRemote ==
    /\ initial \in {"remote", "updating"}
    /\ fetch[PullLoop].pc = "idle"
    /\ IF initial = "remote"
       THEN /\ initial' = "updating"
            /\ fetch' = [fetch EXCEPT ![PullLoop] = [NoFetch EXCEPT !.pc = "read"]]
       ELSE /\ initial' = "done"
            /\ UNCHANGED fetch
    /\ UNCHANGED <<remote, etag, file, hash, contents, crashes>>

-----------------------------------------------------------------------------
(* Update: HTTPVehicle.Read, then loadBuf                                  *)

\* Mutant: any stored ETag makes the request conditional.
MutantConditional == etag # None

\* The stored ETag is sent only if it is the one of the contents in memory.
Conditional == hash # None /\ hash = etag

\* The timer of the pull loop, or a call of the API.
Update(g) ==
    /\ initial = "done"
    /\ fetch[g].pc = "idle"
    /\ fetch' = [fetch EXCEPT ![g] = [NoFetch EXCEPT !.pc = "read", !.old = hash, !.match = IF Conditional THEN etag ELSE None]]
    /\ UNCHANGED <<remote, etag, file, hash, contents, initial, crashes>>

\* The request fails; the pull loop tries again sooner.
ReadFails(g) ==
    /\ fetch[g].pc = "read"
    /\ fetch' = [fetch EXCEPT ![g] = NoFetch]
    /\ UNCHANGED <<remote, etag, file, hash, contents, initial, crashes>>

\* 304 to a conditional request for the server's version, which stands for the
\* hash the request started from; otherwise the version and its ETag, stored.
Responds(g) ==
    /\ fetch[g].pc = "read"
    /\ IF fetch[g].match = remote
       THEN /\ fetch' = [fetch EXCEPT ![g].pc = "load", ![g].got = fetch[g].old]
            /\ UNCHANGED etag
       ELSE /\ fetch' = [fetch EXCEPT ![g].pc = "load", ![g].buf = remote, ![g].got = remote]
            /\ etag' = remote
    /\ UNCHANGED <<remote, file, hash, contents, initial, crashes>>

SideUpdate(g) ==
    /\ initial = "done"
    /\ fetch[g].pc = "idle"
    /\ \E v \in 1..MaxRemote :
         fetch' = [fetch EXCEPT ![g] = [NoFetch EXCEPT !.pc = "load", !.buf = v, !.got = v]]
    /\ UNCHANGED <<remote, etag, file, hash, contents, initial, crashes>>

\* loadBuf up to the write: the same contents, a 304 overtaken by other
\* contents, and what does not parse change nothing. os.WriteFile truncates.
LoadBuf(g) ==
    /\ fetch[g].pc = "load"
    /\ \A h \in Fetching : fetch[h].pc # "write"
    /\ IF hash = fetch[g].got \/ fetch[g].buf = None \/ ~Parses(fetch[g].buf, TRUE)
       THEN fetch' = [fetch EXCEPT ![g] = NoFetch] /\ UNCHANGED file
       ELSE fetch' = [fetch EXCEPT ![g].pc = "write"] /\ file' = Torn
    /\ UNCHANGED <<remote, etag, hash, contents, initial, crashes>>

\* Mutant: the hash is recorded although the file could not be written.
MutantWriteFails(g) ==
    /\ fetch[g].pc = "write"
    /\ hash' = fetch[g].buf
    /\ fetch' = [fetch EXCEPT ![g] = NoFetch]
    /\ UNCHANGED <<remote, etag, file, contents, initial, crashes>>

\* The write fails: nothing is published.
WriteFails(g) ==
    /\ fetch[g].pc = "write"
    /\ fetch' = [fetch EXCEPT ![g] = NoFetch]
    /\ UNCHANGED <<remote, etag, file, hash, contents, initial, crashes>>

\* The write succeeds: the hash is recorded and onUpdate called.
Published(g) ==
    /\ fetch[g].pc = "write"
    /\ file' = fetch[g].buf
    /\ Loaded(fetch[g].buf)
    /\ fetch' = [fetch EXCEPT ![g] = NoFetch]
    /\ UNCHANGED <<remote, etag, initial, crashes>>

-----------------------------------------------------------------------------
(* The server, and crashes                                                 *)

Publish ==
    /\ remote < MaxRemote
    /\ remote' = remote + 1
    /\ UNCHANGED <<etag, file, hash, contents, fetch, initial, crashes>>

Crash ==
    /\ crashes < MaxCrashes
    /\ crashes' = crashes + 1
    /\ hash' = None /\ contents' = None
    /\ fetch' = [g \in Fetching |-> NoFetch]
    /\ initial' = "file"
    /\ file' \in {file, Unreadable}
    /\ UNCHANGED <<remote, etag>>

Starts == InitialFile \/ InitialBundle \/ InitialRemote
Loads(g) == LoadBuf(g) \/ WriteFails(g) \/ Published(g)
Fetches(g) == ReadFails(g) \/ Responds(g) \/ Loads(g)

Next ==
    \/ Starts
    \/ \E g \in Fetching : Update(g) \/ Fetches(g)
    \/ \E g \in Updaters : SideUpdate(g)
    \/ Publish
    \/ Crash

\* Goroutines are scheduled, requests time out, the timer of the pull loop
\* fires; the server answers and the file can be written now and then, and
\* sync.Mutex is not taken from a waiter for ever.
Spec ==
    /\ Init /\ [][Next]_vars
    /\ WF_vars(Starts) /\ WF_vars(Update(PullLoop))
    /\ \A g \in Fetching : WF_vars(Fetches(g))
    /\ SF_vars(Responds(PullLoop)) /\ SF_vars(LoadBuf(PullLoop)) /\ SF_vars(Published(PullLoop))

-----------------------------------------------------------------------------
(* Properties                                                              *)

\* The hash that answers "unchanged" is always the one of the contents in use,
\* after failed writes, crashes and updates that overtake each other; and once
\* loaded, contents of a version that does not parse are never in use.
HashIsContents == hash = contents /\ contents \notin Broken
=============================================================================
