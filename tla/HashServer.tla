----------------------------- MODULE HashServer -----------------------------
(***************************************************************************)
(* The server process that keeps the hashes of headers in memory           *)
(* (aclcachesrv.py, used when ACLCACHE_SERVER is set), the aclcache.py      *)
(* processes that ask it for hashes through a named pipe, and the entries  *)
(* that they make from the answers.                                        *)
(*                                                                         *)
(* The server is one thread, an event loop: it serves one request or one   *)
(* change notification at a time.  Files change at any time, also while it *)
(* is reading one.  A hash stands for the content it was computed from.    *)
(***************************************************************************)
EXTENDS Naturals, Sequences

CONSTANTS
    File, Dir,
    DirOf,            \* the directory of each file
    MixedCase,        \* files whose name on disk has an upper-case letter
    Version,          \* contents of a file
    None,             \* no such file, no hash, no client, no entry
    Headers,          \* the headers of the source that clients ask about
    Client,           \* the aclcache.py processes
    DisableWatching,  \* --disable_watching
    Excluded,         \* the directories that --exclude names
    MaxAsks,          \* bound: number of requests
    MaxEdits,         \* bound: number of edits
    MaxStops          \* bound: times the server is told to exit

ASSUME ServerAssumption ==
    /\ DirOf \in [File -> Dir] /\ MixedCase \subseteq File /\ Excluded \subseteq Dir
    /\ Headers \in Seq(File)
    /\ None \notin Version \cup Client
    /\ DisableWatching \in BOOLEAN
    /\ MaxAsks \in Nat /\ MaxEdits \in Nat /\ MaxStops \in Nat

\* CompilerEntry: the headers it lists, and their hashes
Entry == [dependency : Seq(File), hashes : Seq(Version)]

VARIABLES
    content, \* what each file contains
    up,      \* is there a server?
    cached,  \* its hash of each file (_watchedDirectories)
    known,   \* the keys of _watchedDirectories
    watched, \* the directories with a handler
    changes, \* files with a change notification that is not delivered yet
    missed,  \* files whose hash the server keeps although they have changed,
             \* with no notification that will drop it (no variable of the code)
    serving, \* the client being served
    got,     \* the hashes it is going to be answered
    hashed,  \* the hash just computed, not yet stored
    pc, ask, entry, reply, \* of each client: its state, request, entry and answer
    entries, \* the entries on disk
    late,    \* of each client: the files whose latest change its answer may miss
    asks, edits, stops \* counters of the bounds

files   == <<content, edits>>
server  == <<up, cached, known, watched, changes, missed, stops>>
loop    == <<serving, got, hashed>>
clients == <<pc, ask, entry, reply, entries, late, asks>>
vars    == <<files, server, loop, clients>>

Init ==
    /\ content \in [File -> Version] /\ edits = 0
    /\ up = FALSE /\ stops = 0
    /\ cached = [f \in File |-> None] /\ known = {} /\ watched = {} /\ changes = {}
    /\ missed = {}
    /\ serving = None /\ got = <<>> /\ hashed = None
    /\ pc = [c \in Client |-> "idle"]
    /\ ask = [c \in Client |-> <<>>]
    /\ entry = [c \in Client |-> None]
    /\ reply = [c \in Client |-> <<>>]
    /\ entries = {} /\ asks = 0
    /\ late = [c \in Client |-> {}]

-----------------------------------------------------------------------------
(* A client: CompilerEntry.generate_dependency_hash and write_pipe.        *)

Ask(c, fs, e) ==
    /\ pc[c] = "idle" /\ asks < MaxAsks
    /\ asks' = asks + 1
    /\ pc' = [pc EXCEPT ![c] = "open"]
    /\ ask' = [ask EXCEPT ![c] = fs]
    /\ entry' = [entry EXCEPT ![c] = e]
    /\ late' = [late EXCEPT ![c] = changes \cup missed]
    /\ UNCHANGED <<files, server, loop, reply, entries>>

\* The post-invoke process makes an entry for the headers that were compiled
AskNew(c) == Ask(c, Headers, None)

\* The pre-invoke process compares an entry with the headers as they are
AskMatch(c) == \E e \in entries : Ask(c, e.dependency, e)

\* start_server: there is no pipe to open
StartServer(c) ==
    /\ pc[c] = "open" /\ ~up
    /\ up' = TRUE
    /\ UNCHANGED <<files, cached, known, watched, changes, missed, stops, loop, clients>>

Send(c) ==
    /\ pc[c] = "open" /\ up
    /\ pc' = [pc EXCEPT ![c] = "sent"]
    /\ UNCHANGED <<files, server, loop, ask, entry, reply, entries, late, asks>>

\* __post_init__: the headers are paired with the hashes that were answered,
\* and what has no partner is left out
Paired(fs, hs) ==
    [dependency |-> SubSeq(fs, 1, IF Len(hs) < Len(fs) THEN Len(hs) ELSE Len(fs)),
     hashes |-> hs]

\* The answer is used: a new entry is stored, an old one is a hit or not.
\* After an error there is no entry and no hit.
Use(c) ==
    /\ pc[c] \in {"answered", "error"}
    /\ entries' = IF pc[c] = "answered" /\ entry[c] = None
                  THEN entries \cup {Paired(ask[c], reply[c])} ELSE entries
    /\ pc' = [pc EXCEPT ![c] = "idle"]
    /\ ask' = [ask EXCEPT ![c] = <<>>]
    /\ entry' = [entry EXCEPT ![c] = None]
    /\ reply' = [reply EXCEPT ![c] = <<>>]
    /\ late' = [late EXCEPT ![c] = {}]
    /\ UNCHANGED <<files, server, loop, asks>>

-----------------------------------------------------------------------------
(* The server: Connection._onClientRead and HashCache.                     *)

Accept(c) ==
    /\ serving = None /\ pc[c] = "sent" /\ up
    /\ serving' = c
    /\ UNCHANGED <<files, server, got, hashed, clients>>

\* The file that is next in the request
More == serving # None /\ Len(got) < Len(ask[serving])
path == ask[serving][Len(got) + 1]

UseCached ==
    /\ More /\ hashed = None /\ cached[path] # None
    /\ got' = Append(got, cached[path])
    /\ UNCHANGED <<files, server, serving, hashed, clients>>

\* Mutant: the directory gets its dictionary before the hash is there
ComputeHashEarly ==
    /\ More /\ hashed = None /\ cached[path] = None /\ content[path] # None
    /\ hashed' = content[path]
    /\ known' = known \cup {DirOf[path]}
    /\ UNCHANGED <<files, up, cached, watched, changes, missed, stops, serving, got, clients>>

ComputeHash ==
    /\ More /\ hashed = None /\ cached[path] = None /\ content[path] # None
    /\ hashed' = content[path]
    /\ UNCHANGED <<files, server, serving, got, clients>>

\* What starts to be watched when the hash of f is stored
NowWatched(f) ==
    IF DirOf[f] \in known \cup Excluded \/ DisableWatching THEN {} ELSE {DirOf[f]}

StoreHash ==
    /\ hashed # None
    /\ watched' = watched \cup NowWatched(path)
    /\ known' = known \cup {DirOf[path]}
    /\ cached' = [cached EXCEPT ![path] = hashed]
    /\ got' = Append(got, hashed)
    /\ hashed' = None
    /\ UNCHANGED <<files, up, changes, missed, stops, serving, clients>>

\* Mutant: an OSError is not sent to the client
NoFileUnanswered ==
    /\ More /\ hashed = None /\ cached[path] = None /\ content[path] = None
    /\ serving' = None /\ got' = <<>>
    /\ pc' = [pc EXCEPT ![serving] = "dropped"]
    /\ UNCHANGED <<files, server, hashed, ask, entry, reply, entries, late, asks>>

\* OSError: the whole request is answered with an error
NoFile ==
    /\ More /\ hashed = None /\ cached[path] = None /\ content[path] = None
    /\ serving' = None /\ got' = <<>>
    /\ pc' = [pc EXCEPT ![serving] = "error"]
    /\ UNCHANGED <<files, server, hashed, ask, entry, reply, entries, late, asks>>

Answer ==
    /\ serving # None /\ ~More
    /\ reply' = [reply EXCEPT ![serving] = got]
    /\ pc' = [pc EXCEPT ![serving] = "answered"]
    /\ serving' = None /\ got' = <<>>
    /\ UNCHANGED <<files, server, hashed, ask, entry, entries, late, asks>>

\* Mutant: only the notification of a removed file drops its hash
ChangedIfGone(f) ==
    /\ up /\ serving = None /\ f \in changes
    /\ changes' = changes \ {f}
    /\ cached' = IF content[f] # None THEN cached ELSE [cached EXCEPT ![f] = None]
    /\ UNCHANGED <<files, up, known, watched, missed, stops, loop, clients>>

\* _onPathChange: the notification has the name on disk, the keys of the
\* dictionary are in lower case.  A name with an upper-case letter is not found.
Changed(f) ==
    /\ up /\ serving = None /\ f \in changes
    /\ changes' = changes \ {f}
    /\ cached' = IF f \in MixedCase THEN cached ELSE [cached EXCEPT ![f] = None]
    /\ missed' = IF f \in MixedCase /\ cached[f] # None THEN missed \cup {f}
                                                        ELSE missed \ {f}
    /\ UNCHANGED <<files, up, known, watched, stops, loop, clients>>

\* The close command ends the process.  A client that has sent its request
\* reads the end of the pipe: the empty answer.
Stop ==
    /\ up /\ serving = None /\ stops < MaxStops
    /\ stops' = stops + 1
    /\ up' = FALSE
    /\ cached' = [f \in File |-> None] /\ known' = {} /\ watched' = {} /\ changes' = {}
    /\ missed' = {}
    /\ pc' = [c \in Client |-> IF pc[c] = "sent" THEN "answered" ELSE pc[c]]
    /\ UNCHANGED <<files, loop, ask, entry, reply, entries, late, asks>>

-----------------------------------------------------------------------------
(* The environment: a file is written, removed or created, and the change  *)
(* is notified if its directory is watched.                                *)

\* getFileHash has read f and does not watch its directory yet
Unwatched(f) == hashed # None /\ f = path /\ DirOf[f] \notin watched

Edit(f, v) ==
    /\ edits < MaxEdits /\ v # content[f]
    /\ edits' = edits + 1
    /\ content' = [content EXCEPT ![f] = v]
    /\ changes' = IF DirOf[f] \in watched THEN changes \cup {f} ELSE changes
    /\ missed' = IF Unwatched(f) THEN missed \cup {f} ELSE missed
    /\ late' = [c \in Client |-> IF pc[c] = "idle" THEN {} ELSE late[c] \cup {f}]
    /\ UNCHANGED <<up, cached, known, watched, stops, loop, pc, ask, entry, reply, entries, asks>>

EventLoop ==
    \/ \E c \in Client : Accept(c)
    \/ UseCached \/ ComputeHash \/ StoreHash \/ NoFile \/ Answer
    \/ \E f \in File : Changed(f)

Proceed(c) == StartServer(c) \/ Send(c) \/ Use(c)

Next ==
    \/ EventLoop \/ Stop
    \/ \E c \in Client : AskNew(c) \/ AskMatch(c) \/ Proceed(c)
    \/ \E f \in File, v \in Version \cup {None} : Edit(f, v)

Spec == Init /\ [][Next]_vars

\* The event loop runs while it has something to do, and so does each client
Fairness == WF_vars(EventLoop) /\ \A c \in Client : WF_vars(Proceed(c))
FairSpec == Spec /\ Fairness

-----------------------------------------------------------------------------
TypeOK ==
    /\ content \in [File -> Version \cup {None}] /\ edits \in 0..MaxEdits
    /\ up \in BOOLEAN /\ stops \in 0..MaxStops
    /\ cached \in [File -> Version \cup {None}]
    /\ watched \subseteq known /\ known \subseteq Dir
    /\ changes \subseteq File /\ missed \subseteq File
    /\ serving \in Client \cup {None} /\ hashed \in Version \cup {None}
    /\ got \in Seq(Version) /\ (serving = None => got = <<>>)
    /\ hashed # None => More
    /\ pc \in [Client -> {"idle", "open", "sent", "answered", "error"}]
    /\ ask \in [Client -> Seq(File)] /\ reply \in [Client -> Seq(Version)]
    /\ entry \in [Client -> Entry \cup {None}] /\ entries \subseteq Entry
    /\ late \in [Client -> SUBSET File] /\ asks \in 0..MaxAsks

\* The files the user lets the server observe (--disable_watching, --exclude)
Observed(f) == ~DisableWatching /\ DirOf[f] \notin Excluded

\* The server observes the headers it has hashes of: a hash that is no longer
\* that of the file is about to be dropped, because the change of the file has
\* been notified.  There are two ways to keep a stale hash, and no third: the
\* file changed between being hashed and being watched, or its change was
\* notified with an upper-case letter in its name (missed).
StaleIsPending ==
    \A f \in File :
        cached[f] \notin {None, content[f]} /\ Observed(f) => f \in changes \cup missed

\* An answer is what the files contained when it was asked for, unless a file
\* has changed since, or its last change was then still to be notified or had
\* been missed in one of the two ways above.
AnswersAreCurrent ==
    \A c \in Client : \A i \in 1..Len(reply[c]) :
        Observed(ask[c][i]) =>
            reply[c][i] = content[ask[c][i]] \/ ask[c][i] \in late[c]

\* The headers that the compiler used are recorded in the entry.  It does not
\* hold of a server that is stopped (MaxStops > 0): the end of the pipe reads as
\* the empty answer, and the entry made of it has no headers.
HeadersAreRecorded == \A e \in entries : e.dependency = Headers

\* A client that has asked gets an answer, an error or the end of the pipe.
RequestsEnd == \A c \in Client : (pc[c] # "idle") ~> (pc[c] = "idle")
=============================================================================
