------------------------------ MODULE Settings ------------------------------
(***************************************************************************)
(* The two files beside the cache: the configuration and the statistics.   *)
(*                                                                         *)
(* Each is a dictionary that a process loads, changes and saves as a       *)
(* whole, by a temporary file that replaces the old one.  The statistics   *)
(* have a mutex, which is part of the lock of a local cache; the lock of a *)
(* cache in memcached is empty.  Every process reads the configuration     *)
(* when it starts, without a lock, and adds the settings that the file     *)
(* lacks; so does one that has compiled, and one that cleans or prints, in *)
(* the middle of its section of the statistics.  Printing the statistics   *)
(* adds to them, and may save them without the mutex.                      *)
(*                                                                         *)
(* A counter stands for those that are treated alike: Runs for those that  *)
(* reset clears, Size for those that it keeps.  A counter that the file    *)
(* lacks is 0.                                                             *)
(***************************************************************************)
EXTENDS Naturals, Sequences, FiniteSets

CONSTANTS
    Proc,
    Setting, MemcachedServer,   \* the settings, one of which names the servers
    Value, Default,             \* Default stands for the default of each setting
    None,                       \* no such setting in the file, no owner
    MaxCommands,                \* bound: commands that are started
    MaxFaults                   \* bound: processes that end, saves that fail

ASSUME SettingsAssumption ==
    /\ MemcachedServer \in Setting /\ Default \in Value
    /\ None \notin Value \cup Proc
    /\ MaxCommands \in Nat /\ MaxFaults \in Nat

VARIABLES
    config, stats,  \* the files
    owner,          \* who holds the mutex of the statistics
    phase,          \* where each process is in its section
    rest,           \* the sections that it still has to go through
    copy,           \* the dictionary that it has loaded and changed
    remote,         \* does it use memcached?
    commands, faults, \* counters of the bounds
    expected,       \* what the commands that have saved them add up to, by README.md
    forgotten,      \* the runs among them that a clear has thrown away
    wanted,         \* the last value given to each setting
    loose           \* the files that were saved by a process without the mutex

files  == <<config, stats>>
counts == <<commands, faults>>
ghosts == <<expected, forgotten, wanted, loose>>
vars   == <<files, owner, phase, rest, copy, remote, counts, ghosts>>

-----------------------------------------------------------------------------
(* A command is a sequence of sections: what it does to which file, under  *)
(* which lock, and whether it reads the configuration in the middle of it. *)

Section(f, l, op) ==
    [file |-> f, lock |-> l, op |-> op, reads |-> FALSE, setting |-> None, value |-> None]

Open  == Section("config", "none", "open")     \* Cache
Fill  == Section("config", "none", "fill")
Count == Section("stats", "statistics", "count")
Store == Section("stats", "statistics", "store")

CleanCache == [Count EXCEPT !.reads = TRUE]

\* processPreInvoke, and processPostInvoke: it may find the cache too large
PreInvoke  == <<Open, Count, Count>>
PostInvoke == <<Open, Count, Fill, Store>>
PostClean  == <<Open, Count, Fill, CleanCache, Count>>

\* A job of the direct mode: processCacheHit, or ensureArtifactsExist
HitJob  == <<Open, Count>>
MissJob == <<Open, [Store EXCEPT !.reads = TRUE]>>

Clean == <<Open, CleanCache>>
Clear == <<Open, Section("stats", "statistics", "clear")>>
Reset == <<Open, Section("stats", "statistics", "reset")>>

\* printStatistics with the mutex, printStatistics2 without
PrintStats(l) == <<Open, [Section("stats", l, "print") EXCEPT !.reads = TRUE]>>

Set(s, v) == <<Open, [file |-> "config", lock |-> "cache", op |-> "set", reads |-> FALSE,
                      setting |-> s, value |-> v]>>

Commands == {PreInvoke, PostInvoke, PostClean, HitJob, MissJob, Clean, Clear, Reset}
              \cup {PrintStats(l) : l \in {"statistics", "none"}}
              \cup {Set(s, v) : s \in Setting, v \in Value}

NoStats == [runs |-> 0, size |-> 0]

\* What a section makes of the statistics
Counted(c, op) ==
    CASE op = "count" -> [c EXCEPT !.runs = @ + 1]
      [] op = "store" -> [c EXCEPT !.runs = @ + 1, !.size = @ + 1]
      [] op = "reset" -> [c EXCEPT !.runs = 0]
      [] op = "clear" -> NoStats
      [] op = "print" -> c

\* What README.md says that it makes of them: a clear keeps the counts (line 79)
Promised(c, op) == IF op = "clear" THEN [c EXCEPT !.size = 0] ELSE Counted(c, op)

NoConfig == [s \in Setting |-> None]
NoCopy   == [stats |-> NoStats, config |-> NoConfig]

\* Configuration.__enter__
Filled(c) == [s \in Setting |-> IF c[s] = None THEN Default ELSE c[s]]

Configured(c, x) == IF x.op = "set" THEN [Filled(c) EXCEPT ![x.setting] = x.value] ELSE Filled(c)

Idle(p) == phase[p] = "idle"

\* The section that a process is in, and the one that it reads or saves for now
Outer(p)  == Head(rest[p])
Within(p) == phase[p] \in {"fill", "keep"}
At(p)     == IF Within(p) THEN Fill ELSE Outer(p)

Locks(p) == At(p).lock = "statistics" \/ (At(p).lock = "cache" /\ ~remote[p])

Init ==
    /\ config \in [Setting -> {None, Default}]
    /\ stats = NoStats
    /\ owner = None
    /\ phase = [p \in Proc |-> "idle"] /\ rest = [p \in Proc |-> <<>>]
    /\ copy = [p \in Proc |-> NoCopy] /\ remote = [p \in Proc |-> FALSE]
    /\ commands = 0 /\ faults = 0
    /\ expected = stats /\ forgotten = 0 /\ wanted = Filled(config) /\ loose = {}

-----------------------------------------------------------------------------

Start(p) ==
    /\ Idle(p) /\ commands < MaxCommands
    /\ commands' = commands + 1
    /\ \E c \in Commands : rest' = [rest EXCEPT ![p] = c]
    /\ phase' = [phase EXCEPT ![p] = "enter"]
    /\ UNCHANGED <<files, owner, copy, remote, faults, ghosts>>

\* Mutant: a time-out counts as success
FreeOrLate == TRUE

Free == owner = None

\* CacheLock.acquire
Acquire(p) ==
    /\ phase[p] = "enter"
    /\ IF Locks(p) THEN Free /\ owner' = p ELSE UNCHANGED owner
    /\ phase' = [phase EXCEPT ![p] = "load"]
    /\ UNCHANGED <<files, rest, copy, remote, counts, ghosts>>

Ended(p) ==
    /\ phase' = [phase EXCEPT ![p] = "idle"] /\ rest' = [rest EXCEPT ![p] = <<>>]
    /\ copy' = [copy EXCEPT ![p] = NoCopy] /\ remote' = [remote EXCEPT ![p] = FALSE]
    /\ UNCHANGED <<files, ghosts>>

\* The exception ends the process
AcquireTimesOut(p) ==
    /\ phase[p] = "enter" /\ Locks(p) /\ ~Free
    /\ Ended(p)
    /\ UNCHANGED <<owner, counts>>

\* Mutant: a file cannot be opened while another process has read it, either
Using(f) == {p \in Proc : phase[p] \in {"keep", "save", "leave"} /\ At(p).file = f}

Saving(f) == {p \in Proc : phase[p] \in {"keep", "save"} /\ At(p).file = f}

Unchanged(p, c) == At(p).op \in {"open", "fill"} /\ Filled(c) = c

\* A file that cannot be opened, because it is being replaced, is taken for one that
\* is not there.  ACLCACHE_MEMCACHED names the servers, too
Load(p) ==
    /\ phase[p] \in {"load", "fill"}
    /\ LET x == At(p)
           there == IF x.file = "stats" THEN stats ELSE config
           nothing == IF x.file = "stats" THEN NoStats ELSE NoConfig
       IN  \E found \in {there} \cup (IF Saving(x.file) # {} THEN {nothing} ELSE {}) :
              /\ copy' = [copy EXCEPT ![p][x.file] = IF x.file = "stats" THEN Counted(found, x.op)
                                                     ELSE Configured(found, x)]
              /\ IF Unchanged(p, found)
                 THEN /\ phase' = [phase EXCEPT ![p] = IF Within(p) THEN "save" ELSE "leave"]
                      /\ UNCHANGED loose
                 ELSE /\ phase' = [phase EXCEPT ![p] = IF Within(p) THEN "keep"
                                                       ELSE IF x.reads THEN "fill" ELSE "save"]
                      /\ loose' = IF owner = p THEN loose ELSE loose \cup {x.file}
              /\ IF x.op = "open"
                 THEN \E r \in {Filled(found)[MemcachedServer] # Default, TRUE} :
                        remote' = [remote EXCEPT ![p] = r]
                 ELSE UNCHANGED remote
    /\ UNCHANGED <<files, owner, rest, counts, expected, forgotten, wanted>>

\* atomic_write
Replace(p) ==
    /\ phase[p] \in {"keep", "save"}
    /\ LET x == At(p)
       IN  IF x.file = "stats"
           THEN /\ stats' = copy[p].stats /\ expected' = Promised(expected, x.op)
                /\ forgotten' = CASE x.op = "clear" -> forgotten + stats.runs
                                  [] x.op = "reset" -> 0
                                  [] OTHER -> forgotten
                /\ UNCHANGED <<config, wanted>>
           ELSE /\ config' = copy[p].config /\ wanted' = Configured(wanted, x)
                /\ UNCHANGED <<stats, expected, forgotten>>
    /\ phase' = [phase EXCEPT ![p] = IF Within(p) THEN "save" ELSE "leave"]
    /\ UNCHANGED <<owner, rest, copy, remote, counts, loose>>

Leave(p) ==
    /\ phase[p] = "leave"
    /\ owner' = IF owner = p THEN None ELSE owner
    /\ IF Len(rest[p]) = 1 THEN Ended(p)
       ELSE /\ rest' = [rest EXCEPT ![p] = Tail(@)]
            /\ phase' = [phase EXCEPT ![p] = "enter"]
            /\ copy' = [copy EXCEPT ![p] = NoCopy]
            /\ UNCHANGED <<files, remote, ghosts>>
    /\ UNCHANGED counts

\* save sleeps and tries again, with the mutex in its hands
ReplaceFails(p) ==
    /\ phase[p] \in {"keep", "save"} /\ faults < MaxFaults
    /\ faults' = faults + 1
    /\ UNCHANGED <<files, owner, phase, rest, copy, remote, commands, ghosts>>

\* The mutex passes on; the temporary file stays
Crash(p) ==
    /\ ~Idle(p) /\ faults < MaxFaults
    /\ faults' = faults + 1
    /\ owner' = IF owner = p THEN None ELSE owner
    /\ Ended(p)
    /\ UNCHANGED commands

-----------------------------------------------------------------------------

Works(p) == Acquire(p) \/ AcquireTimesOut(p) \/ Load(p) \/ Replace(p) \/ Leave(p)

Next == \E p \in Proc : Start(p) \/ Works(p) \/ ReplaceFails(p) \/ Crash(p)

Spec == Init /\ [][Next]_vars

-----------------------------------------------------------------------------

Stats   == [runs : Nat, size : Nat]
Configs == [Setting -> Value \cup {None}]

CountSections == [file : {"stats"}, lock : {"statistics", "none"}, reads : BOOLEAN,
                  setting : {None}, value : {None},
                  op : {"count", "store", "clear", "reset", "print"}]
SetSections   == [file : {"config"}, lock : {"cache"}, reads : {FALSE},
                  setting : Setting, value : Value, op : {"set"}]
Sections      == {Open, Fill} \cup CountSections \cup SetSections

TypeOK ==
    /\ config \in Configs /\ wanted \in [Setting -> Value]
    /\ stats \in Stats /\ expected \in Stats /\ forgotten \in Nat
    /\ owner \in Proc \cup {None}
    /\ phase \in [Proc -> {"idle", "enter", "load", "fill", "keep", "save", "leave"}]
    /\ rest \in [Proc -> Seq(Sections)]
    /\ \A p \in Proc : ~Idle(p) => rest[p] # <<>>
    /\ \A p \in Proc : Within(p) => Outer(p).file = "stats"
    /\ copy \in [Proc -> [stats : Stats, config : Configs]]
    /\ remote \in [Proc -> BOOLEAN]
    /\ loose \subseteq {"config", "stats"}

(* No count is lost and none is made twice: the statistics are what the     *)
(* commands that saved them, one after the other, add up to, whoever timed  *)
(* out or ended in between - as long as nobody has printed them without the *)
(* mutex, which saves them (printStatistics2, __exit__).  The commands add  *)
(* up as README.md says, by which a clear keeps the counts.  The code does  *)
(* not: clear_stat throws them away, so those that a clear has thrown away  *)
(* are counted apart, and no others may be missing.                         *)
CountsAreExact ==
    "stats" \notin loose => /\ stats.runs + forgotten = expected.runs
                            /\ stats.size = expected.size

(* A setting keeps the value it was given last, although every process      *)
(* that starts, compiles, cleans or prints may write the whole file - as    *)
(* long as nobody has saved it without the mutex: to add settings that it   *)
(* lacks, or with the empty lock of a cache in memcached.                   *)
SettingsAreKept == "config" \notin loose => Filled(config) = wanted
=============================================================================
