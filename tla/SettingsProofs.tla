--------------------------- MODULE SettingsProofs ---------------------------
(***************************************************************************)
(* What becomes of the counters and the settings, for any number of        *)
(* processes, settings, commands and faults.                               *)
(***************************************************************************)
EXTENDS Settings, SequenceTheorems, TLAPS

\* A process has loaded the statistics, or the configuration, and has yet to
\* save what it makes of them
Counts(p)     == phase[p] \in {"fill", "keep", "save"} /\ Outer(p).file = "stats"
Configures(p) == phase[p] \in {"keep", "save"} /\ At(p).file = "config"

\* What a process is about to save is the file as it is now, with its own
\* change made: it holds the mutex, unless the file is loose
SavesAreCurrent ==
    \A p \in Proc :
      /\ Counts(p) /\ "stats" \notin loose =>
           owner = p /\ copy[p].stats = Counted(stats, Outer(p).op)
      /\ Configures(p) /\ "config" \notin loose =>
           owner = p /\ copy[p].config = Configured(config, At(p))

SettingsInv == TypeOK /\ SavesAreCurrent /\ CountsAreExact /\ SettingsAreKept

-----------------------------------------------------------------------------
\* Every section of every command is one of Sections.
LEMMA CommandType == ASSUME NEW c \in Commands PROVE c \in Seq(Sections) /\ c # <<>>
<1>1. /\ Open \in Sections /\ Fill \in Sections /\ Count \in Sections /\ Store \in Sections
      /\ CleanCache \in Sections /\ [Store EXCEPT !.reads = TRUE] \in Sections
  BY DEF Section, Sections, CountSections, Open, Fill, Count, Store, CleanCache
<1>2. \A l \in {"statistics", "none"} :
        [Section("stats", l, "print") EXCEPT !.reads = TRUE] \in Sections
  BY DEF Section, Sections, CountSections
<1>3. \A o \in {"clear", "reset"} : Section("stats", "statistics", o) \in Sections
  BY DEF Section, Sections, CountSections
<1>4. CASE c = PreInvoke  BY <1>1, <1>4 DEF PreInvoke
<1>5. CASE c = PostInvoke  BY <1>1, <1>5 DEF PostInvoke
<1>6. CASE c = PostClean  BY <1>1, <1>6 DEF PostClean
<1>7. CASE c = Clean  BY <1>1, <1>7 DEF Clean
<1>8. CASE c = Clear
  <2>1. Section("stats", "statistics", "clear") \in Sections
    BY <1>3
  <2> QED
    BY <1>1, <1>8, <2>1 DEF Clear
<1>9. CASE c = Reset
  <2>1. Section("stats", "statistics", "reset") \in Sections
    BY <1>3
  <2> QED
    BY <1>1, <1>9, <2>1 DEF Reset
<1>10. CASE c = HitJob  BY <1>1, <1>10 DEF HitJob
<1>11. CASE c = MissJob
  <2> DEFINE x == [Store EXCEPT !.reads = TRUE]
  <2>1. x \in Sections /\ c = <<Open, x>>
    BY <1>1, <1>11 DEF MissJob
  <2> HIDE DEF x
  <2> QED
    BY <1>1, <2>1
<1>12. ASSUME NEW l \in {"statistics", "none"}, c = PrintStats(l)
       PROVE  c \in Seq(Sections) /\ c # <<>>
  <2> DEFINE x == [Section("stats", l, "print") EXCEPT !.reads = TRUE]
  <2>1. x \in Sections
    BY <1>2
  <2>2. c = <<Open, x>>
    BY <1>12 DEF PrintStats
  <2> HIDE DEF x
  <2> QED
    BY <1>1, <2>1, <2>2
<1>13. ASSUME NEW s \in Setting, NEW v \in Value, c = Set(s, v)
       PROVE  c \in Seq(Sections) /\ c # <<>>
  <2>1. [file |-> "config", lock |-> "cache", op |-> "set", reads |-> FALSE,
         setting |-> s, value |-> v] \in Sections
    BY DEF Sections, SetSections
  <2> QED
    BY <1>1, <1>13, <2>1 DEF Set
<1> QED
  BY <1>4, <1>5, <1>6, <1>7, <1>8, <1>9, <1>10, <1>11, <1>12, <1>13
  DEF Commands

\* The section that a process is in, and those that come after it.
LEMMA SectionType ==
    ASSUME TypeOK, NEW p \in Proc, ~Idle(p)
    PROVE  /\ Outer(p) \in Sections /\ Tail(rest[p]) \in Seq(Sections)
           /\ Len(rest[p]) # 1 => Tail(rest[p]) # <<>>
<1>1. rest[p] \in Seq(Sections) /\ rest[p] # <<>>
  BY DEF TypeOK
<1>2. Outer(p) \in Sections /\ Tail(rest[p]) \in Seq(Sections) /\ Len(Tail(rest[p])) = Len(rest[p]) - 1
  BY <1>1, HeadTailProperties DEF Outer
<1>3. Len(rest[p]) \in Nat
  BY <1>1, LenProperties
<1>4. Tail(rest[p]) = <<>> => Len(rest[p]) = 1
  <2> SUFFICES ASSUME Tail(rest[p]) = <<>> PROVE Len(rest[p]) = 1
    OBVIOUS
  <2>1. Len(Tail(rest[p])) = 0
    BY EmptySeq
  <2> QED
    BY <1>2, <1>3, <2>1
<1> QED
  BY <1>2, <1>4

\* What a section makes of a file has the type of the file.
LEMMA ChangedType ==
    /\ \A x \in CountSections, c \in Stats :
         Counted(c, x.op) \in Stats /\ Promised(c, x.op) \in Stats
    /\ \A x \in {Open, Fill} \cup SetSections, c \in Configs :
         Configured(c, x) \in [Setting -> Value]
    /\ NoStats \in Stats /\ NoConfig \in Configs
<1>1. \A x \in CountSections, c \in Stats :
        Counted(c, x.op) \in Stats /\ Promised(c, x.op) \in Stats
  <2> TAKE x \in CountSections, c \in Stats
  <2>1. x.op \in {"count", "store", "clear", "reset", "print"}
    BY DEF CountSections
  <2>2. c.runs \in Nat /\ c.size \in Nat /\ c = [runs |-> c.runs, size |-> c.size]
    BY DEF Stats
  <2>3. /\ Counted(c, "count") = [runs |-> c.runs + 1, size |-> c.size]
        /\ Counted(c, "store") = [runs |-> c.runs + 1, size |-> c.size + 1]
        /\ Counted(c, "reset") = [runs |-> 0, size |-> c.size]
        /\ Counted(c, "clear") = NoStats /\ Counted(c, "print") = c
    BY <2>2 DEF Counted
  <2>4. Counted(c, x.op) \in Stats
    BY <2>1, <2>2, <2>3 DEF Stats, NoStats
  <2>5. [c EXCEPT !.size = 0] \in Stats
    BY <2>2 DEF Stats
  <2> QED
    BY <2>4, <2>5 DEF Promised
<1>2. \A c \in Configs : Filled(c) \in [Setting -> Value]
  BY SettingsAssumption DEF Configs, Filled
<1>3. \A x \in {Open, Fill} \cup SetSections, c \in Configs : Configured(c, x) \in [Setting -> Value]
  <2> TAKE x \in {Open, Fill} \cup SetSections, c \in Configs
  <2>1. CASE x \in {Open, Fill}
    BY <1>2, <2>1 DEF Configured, Open, Fill, Section
  <2>2. CASE x \in SetSections
    <3>1. x.op = "set" /\ x.setting \in Setting /\ x.value \in Value
      BY <2>2 DEF SetSections
    <3>2. Configured(c, x) = [Filled(c) EXCEPT ![x.setting] = x.value]
      BY <3>1 DEF Configured
    <3> QED
      BY <1>2, <3>1, <3>2
  <2> QED
    BY <2>1, <2>2
<1> QED
  BY <1>1, <1>3 DEF NoStats, NoConfig, Stats, Configs

\* To fill what a change has left is to change what was filled.
LEMMA FilledIsKept ==
    ASSUME NEW c \in Configs, NEW x \in {Open, Fill} \cup SetSections
    PROVE  Filled(Configured(c, x)) = Configured(Filled(c), x)
<1>1. None \notin Value /\ Default \in Value
  BY SettingsAssumption
<1>2. Configured(c, x) \in [Setting -> Value] /\ Filled(c) \in [Setting -> Value]
  BY <1>1, ChangedType DEF Filled, Configs
<1>3. \A f \in [Setting -> Value] : Filled(f) = f
  BY <1>1 DEF Filled
<1> QED
  BY <1>2, <1>3 DEF Configured

\* The initial state satisfies the invariant.
LEMMA InitInv == Init => SettingsInv
<1> SUFFICES ASSUME Init PROVE SettingsInv
  OBVIOUS
<1>1. NoCopy \in [stats : Stats, config : Configs]
  BY ChangedType DEF NoCopy
<1>2. TypeOK
  <2>1. config \in Configs /\ wanted \in [Setting -> Value] /\ stats \in Stats /\ expected \in Stats
    BY SettingsAssumption, ChangedType DEF Init, Configs, Filled
  <2>2. \A p \in Proc : phase[p] = "idle"
    BY DEF Init
  <2> QED
    BY <1>1, <2>1, <2>2 DEF Init, TypeOK, Idle, Within
<1> QED
  BY <1>2 DEF Init, SettingsInv, SavesAreCurrent, Counts, Configures, CountsAreExact, SettingsAreKept,
             NoStats

\* Start, Acquire, AcquireTimesOut, Leave, ReplaceFails and Crash leave the
\* files alone, and what the other processes are about to save.
LEMMA QuietType ==
    ASSUME TypeOK, NEW p \in Proc,
           Start(p) \/ Acquire(p) \/ AcquireTimesOut(p) \/ Leave(p) \/ ReplaceFails(p) \/ Crash(p)
    PROVE  TypeOK'
<1>0. NoCopy \in [stats : Stats, config : Configs]
  BY ChangedType DEF NoCopy
<1>1. CASE Start(p)
  <2>1. PICK c \in Commands : rest' = [rest EXCEPT ![p] = c]
    BY <1>1 DEF Start
  <2> QED
    BY <1>1, <2>1, CommandType DEF Start, TypeOK, Idle, Within, Outer, files, ghosts
<1>2. CASE Acquire(p)
  BY <1>2 DEF Acquire, TypeOK, Idle, Within, Outer, files, ghosts, counts
<1>3. CASE AcquireTimesOut(p)
  BY <1>0, <1>3 DEF AcquireTimesOut, Ended, TypeOK, Idle, Within, Outer, files, ghosts, counts
<1>4. CASE Leave(p)
  <2>1. ~Idle(p)
    BY <1>4 DEF Leave, Idle
  <2>2. CASE Len(rest[p]) = 1
    <3>1. <<>> \in Seq(Sections)
      OBVIOUS
    <3>2. /\ phase' = [phase EXCEPT ![p] = "idle"] /\ rest' = [rest EXCEPT ![p] = <<>>]
          /\ copy' = [copy EXCEPT ![p] = NoCopy] /\ remote' = [remote EXCEPT ![p] = FALSE]
      BY <1>4, <2>2 DEF Leave, Ended
    <3>3. owner' \in {owner, None} /\ UNCHANGED <<config, stats, wanted, expected, forgotten, loose>>
      BY <1>4, <2>2 DEF Leave, Ended, files, ghosts
    <3> QED
      BY <1>0, <3>1, <3>2, <3>3 DEF TypeOK, Idle, Within, Outer
  <2>3. CASE Len(rest[p]) # 1
    <3>1. Tail(rest[p]) \in Seq(Sections) /\ Tail(rest[p]) # <<>>
      BY <2>1, <2>3, SectionType
    <3>2. /\ rest' = [rest EXCEPT ![p] = Tail(rest[p])] /\ phase' = [phase EXCEPT ![p] = "enter"]
          /\ copy' = [copy EXCEPT ![p] = NoCopy] /\ remote' = remote
      BY <1>4, <2>3 DEF Leave
    <3>3. owner' \in {owner, None} /\ UNCHANGED <<config, stats, wanted, expected, forgotten, loose>>
      BY <1>4, <2>3 DEF Leave, files, ghosts
    <3> QED
      BY <1>0, <3>1, <3>2, <3>3 DEF TypeOK, Idle, Within, Outer
  <2> QED
    BY <2>2, <2>3
<1>5. CASE ReplaceFails(p)
  BY <1>5 DEF ReplaceFails, TypeOK, Idle, Within, Outer, files, ghosts
<1>6. CASE Crash(p)
  BY <1>0, <1>6 DEF Crash, Ended, TypeOK, Idle, Within, Outer, files, ghosts
<1> QED
  BY <1>1, <1>2, <1>3, <1>4, <1>5, <1>6

\* What another process is about to save stays what it was, and in its hands.
LEMMA QuietSaves ==
    ASSUME SettingsInv, NEW p \in Proc,
           Start(p) \/ Acquire(p) \/ AcquireTimesOut(p) \/ Leave(p) \/ ReplaceFails(p) \/ Crash(p)
    PROVE  SavesAreCurrent'
<1> SUFFICES ASSUME NEW q \in Proc, phase'[q] \in {"fill", "keep", "save"}
             PROVE  /\ Counts(q)' /\ "stats" \notin loose' =>
                         owner' = q /\ copy'[q].stats = Counted(stats', Outer(q)'.op)
                    /\ Configures(q)' /\ "config" \notin loose' =>
                         owner' = q /\ copy'[q].config = Configured(config', At(q)')
  BY DEF SavesAreCurrent, Counts, Configures
<1> USE DEF SettingsInv, TypeOK
<1>1. /\ phase'[q] = phase[q] /\ rest'[q] = rest[q] /\ copy'[q] = copy[q]
      /\ loose' = loose /\ stats' = stats /\ config' = config
      /\ owner = q => owner' = q
  <2>1. CASE Start(p)
    BY <2>1 DEF Start, Idle, files, ghosts
  <2>2. CASE Acquire(p)
    BY <2>2, SettingsAssumption DEF Acquire, Free, files, ghosts, counts
  <2>3. CASE AcquireTimesOut(p)
    BY <2>3 DEF AcquireTimesOut, Ended, files, ghosts
  <2>4. CASE Leave(p)
    BY <2>4 DEF Leave, Ended, files, ghosts
  <2>5. CASE ReplaceFails(p)
    BY <2>5 DEF ReplaceFails, files, ghosts
  <2>6. CASE Crash(p)
    BY <2>6 DEF Crash, Ended, files, ghosts
  <2> QED
    BY <2>1, <2>2, <2>3, <2>4, <2>5, <2>6
<1>2. /\ At(q)' = At(q) /\ Outer(q)' = Outer(q)
      /\ Counts(q)' = Counts(q) /\ Configures(q)' = Configures(q)
  BY <1>1 DEF At, Outer, Within, Counts, Configures
<1> QED
  BY <1>1, <1>2 DEF SavesAreCurrent

\* The type of the section that a process is in tells how it treats its file.
LEMMA FileOfSection ==
    ASSUME TypeOK, NEW p \in Proc, ~Idle(p)
    PROVE  /\ \/ At(p) \in CountSections /\ At(p).file = "stats" /\ At(p) = Outer(p) /\ ~Within(p)
                 /\ At(p).op \notin {"open", "fill"}
              \/ At(p) \in {Open, Fill} \cup SetSections /\ At(p).file = "config"
           /\ At(p).reads => At(p).file = "stats"
           /\ Outer(p).file = "stats" => Within(p) \/ At(p) = Outer(p)
<1>1. Outer(p) \in {Open, Fill} \cup SetSections \/ Outer(p) \in CountSections
  BY SectionType DEF Sections
<1>2. \A x \in CountSections : x.file = "stats" /\ x.op \notin {"open", "fill"}
  BY DEF CountSections
<1>3. \A x \in {Open, Fill} \cup SetSections : x.file = "config" /\ ~x.reads
  <2>1. \A x \in {Open, Fill} : x.file = "config" /\ ~x.reads
    BY DEF Open, Fill, Section
  <2>2. \A x \in SetSections : x.file = "config" /\ ~x.reads
    BY DEF SetSections
  <2> QED
    BY <2>1, <2>2
<1>4. CASE Within(p)
  <2>1. At(p) = Fill
    BY <1>4 DEF At
  <2> QED
    BY <1>3, <1>4, <2>1
<1>5. CASE ~Within(p)
  <2>1. At(p) = Outer(p)
    BY <1>5 DEF At
  <2> QED
    BY <1>1, <1>2, <1>3, <1>5, <2>1
<1> QED
  BY <1>4, <1>5

\* Load makes a change to the file as it is, or the file is loose.
LEMMA LoadInv == ASSUME SettingsInv, NEW p \in Proc, Load(p) PROVE SettingsInv'
<1> USE DEF SettingsInv
<1> DEFINE x == At(p)
           there == IF x.file = "stats" THEN stats ELSE config
           nothing == IF x.file = "stats" THEN NoStats ELSE NoConfig
           Change(c) == IF x.file = "stats" THEN Counted(c, x.op) ELSE Configured(c, x)
<1>0. PICK found \in {there} \cup (IF Saving(x.file) # {} THEN {nothing} ELSE {}) :
        /\ copy' = [copy EXCEPT ![p][x.file] = Change(found)]
        /\ IF Unchanged(p, found)
           THEN /\ phase' = [phase EXCEPT ![p] = IF Within(p) THEN "save" ELSE "leave"]
                /\ UNCHANGED loose
           ELSE /\ phase' = [phase EXCEPT ![p] = IF Within(p) THEN "keep"
                                                 ELSE IF x.reads THEN "fill" ELSE "save"]
                /\ loose' = IF owner = p THEN loose ELSE loose \cup {x.file}
        /\ IF x.op = "open"
           THEN \E r \in {Filled(found)[MemcachedServer] # Default, TRUE} :
                  remote' = [remote EXCEPT ![p] = r]
           ELSE UNCHANGED remote
  BY DEF Load
<1>1. remote' \in [Proc -> BOOLEAN]
  <2>1. {Filled(found)[MemcachedServer] # Default, TRUE} \subseteq BOOLEAN
    OBVIOUS
  <2>2. UNCHANGED remote \/ \E r \in BOOLEAN : remote' = [remote EXCEPT ![p] = r]
    BY <1>0, <2>1
  <2> QED
    BY <2>2 DEF TypeOK
<1>2. /\ phase[p] \in {"load", "fill"} /\ ~Idle(p)
      /\ UNCHANGED <<config, stats, owner, rest, expected, forgotten, wanted>>
  BY DEF Load, Idle, files
<1>3. /\ \/ x \in CountSections /\ x.file = "stats" /\ x = Outer(p) /\ ~Within(p)
            /\ x.op \notin {"open", "fill"}
         \/ x \in {Open, Fill} \cup SetSections /\ x.file = "config"
      /\ x.reads => x.file = "stats"
      /\ Outer(p).file = "stats" => Within(p) \/ x = Outer(p)
  BY <1>2, FileOfSection
<1>4. Change(found) \in IF x.file = "stats" THEN Stats ELSE Configs
  <2>1. [Setting -> Value] \subseteq Configs
    BY DEF Configs
  <2>2. found \in IF x.file = "stats" THEN Stats ELSE Configs
    BY <1>0, ChangedType DEF TypeOK
  <2> QED
    BY <1>3, <2>1, <2>2, ChangedType
<1>5. /\ \A q \in Proc : Outer(q)' = Outer(q)
      /\ \A q \in Proc : q # p => /\ phase'[q] = phase[q] /\ copy'[q] = copy[q]
                                  /\ At(q)' = At(q) /\ Within(q)' = Within(q)
  BY <1>0, <1>2 DEF At, Outer, Within, TypeOK
<1>6. /\ copy' \in [Proc -> [stats : Stats, config : Configs]]
      /\ copy'[p].stats = IF x.file = "stats" THEN Change(found) ELSE copy[p].stats
      /\ copy'[p].config = IF x.file = "config" THEN Change(found) ELSE copy[p].config
  <2>1. copy[p] \in [stats : Stats, config : Configs] /\ DOMAIN copy = Proc
    BY DEF TypeOK
  <2>2. CASE x.file = "stats"
    <3>1. copy' = [copy EXCEPT ![p] = [copy[p] EXCEPT !.stats = Change(found)]]
      BY <1>0, <2>2
    <3>2. [copy[p] EXCEPT !.stats = Change(found)] \in [stats : Stats, config : Configs]
      BY <1>4, <2>1, <2>2
    <3> HIDE DEF Change, x
    <3> QED
      BY <2>1, <2>2, <3>1, <3>2 DEF TypeOK
  <2>3. CASE x.file = "config"
    <3>1. copy' = [copy EXCEPT ![p] = [copy[p] EXCEPT !.config = Change(found)]]
      BY <1>0, <2>3
    <3>2. [copy[p] EXCEPT !.config = Change(found)] \in [stats : Stats, config : Configs]
      BY <1>4, <2>1, <2>3
    <3> HIDE DEF Change, x
    <3> QED
      BY <2>1, <2>3, <3>1, <3>2 DEF TypeOK
  <2> QED
    BY <1>3, <2>2, <2>3
<1>7. /\ phase'[p] \in {"fill", "keep", "save", "leave"}
      /\ phase'[p] = "fill" => x.file = "stats" /\ x = Outer(p)
      /\ phase'[p] = "keep" => Within(p)
      /\ phase'[p] = "leave" => ~Within(p)
      /\ phase' \in [Proc -> {"idle", "enter", "load", "fill", "keep", "save", "leave"}]
  BY <1>0, <1>3 DEF TypeOK
<1>8. Within(p) => Outer(p).file = "stats"
  BY DEF TypeOK
<1>9. TypeOK'
  <2>1. loose' \subseteq {"config", "stats"}
    BY <1>0, <1>3 DEF TypeOK
  <2>2. \A q \in Proc : ~Idle(q)' => rest'[q] # <<>>
    BY <1>2, <1>5 DEF TypeOK, Idle
  <2>3. \A q \in Proc : Within(q)' => Outer(q)'.file = "stats"
    BY <1>5, <1>7, <1>8 DEF TypeOK, Within
  <2> QED
    BY <1>1, <1>2, <1>6, <1>7, <2>1, <2>2, <2>3 DEF TypeOK
<1>10. loose \subseteq loose'
  BY <1>0
<1>11. SavesAreCurrent'
  <2> SUFFICES ASSUME NEW q \in Proc
               PROVE  /\ Counts(q)' /\ "stats" \notin loose' =>
                           owner = q /\ copy'[q].stats = Counted(stats, Outer(q).op)
                      /\ Configures(q)' /\ "config" \notin loose' =>
                           owner = q /\ copy'[q].config = Configured(config, At(q)')
    BY <1>2, <1>5 DEF SavesAreCurrent
  <2>1. CASE q # p
    BY <1>5, <1>10, <2>1 DEF SavesAreCurrent, Counts, Configures
  <2>2. CASE q = p
    <3>1. ASSUME x.file \notin loose', owner = p
          PROVE  found = there
      <4>1. Saving(x.file) = {}
        <5> SUFFICES ASSUME NEW r \in Proc, phase[r] \in {"keep", "save"}, At(r).file = x.file
                     PROVE  FALSE
          BY DEF Saving
        <5>1. Counts(r) \/ Configures(r)
          BY <1>3 DEF Counts, Configures, At, Fill, Section
        <5>2. owner = r
          <6>1. CASE x.file = "stats"
            <7>1. Counts(r)
              BY <6>1 DEF Counts, At, Fill, Section
            <7> QED
              BY <1>10, <3>1, <6>1, <7>1 DEF SavesAreCurrent
          <6>2. CASE x.file = "config"
            BY <1>10, <3>1, <6>2 DEF SavesAreCurrent, Configures
          <6> QED
            BY <1>3, <6>1, <6>2
        <5> QED
          BY <1>2, <3>1, <5>2
      <4> QED
        BY <1>0, <4>1
    <3>2. ~Unchanged(p, found) /\ x.file \notin loose' => owner = p /\ found = there
      BY <1>0, <3>1
    <3>3. CASE x.file = "stats"
      <4>1. ~Unchanged(p, found) /\ x = Outer(p)
        BY <1>3, <3>3 DEF Unchanged
      <4>2. Counts(p)' /\ "stats" \notin loose' => owner = p /\ copy'[p].stats = Counted(stats, Outer(p).op)
        BY <1>6, <3>2, <3>3, <4>1
      <4>3. ~Configures(p)'
        <5>1. phase'[p] \in {"fill", "save"}
          BY <1>0, <1>3, <3>3, <4>1 DEF TypeOK
        <5> QED
          BY <1>5, <3>3, <4>1, <5>1 DEF Configures, At, Within
      <4> QED
        BY <2>2, <4>2, <4>3
    <3>4. CASE x.file = "config"
      <4>1. Counts(p)' => Counts(p)
        BY <1>2, <1>3, <1>5, <1>7, <3>4 DEF Counts, Within
      <4>2. Counts(p)' /\ "stats" \notin loose' => owner = p /\ copy'[p].stats = Counted(stats, Outer(p).op)
        BY <1>6, <1>10, <3>4, <4>1 DEF SavesAreCurrent
      <4>3. Configures(p)' => ~Unchanged(p, found) /\ At(p)' = x
        <5>1. CASE Within(p)
          <6>1. x = Fill
            BY <5>1 DEF At
          <6>2. phase'[p] \in {"save", "keep"} /\ (Unchanged(p, found) => phase'[p] = "save")
            BY <1>0, <5>1 DEF TypeOK
          <6>3. phase'[p] = "save" => At(p)'.file = "stats"
            BY <1>5, <1>8, <5>1 DEF At, Within
          <6>4. phase'[p] = "keep" => At(p)' = Fill
            BY DEF At, Within
          <6> QED
            BY <6>1, <6>2, <6>3, <6>4 DEF Configures
        <5>2. CASE ~Within(p)
          <6>1. x = Outer(p)
            BY <5>2 DEF At
          <6>2. phase'[p] \in {"save", "leave"} /\ (Unchanged(p, found) => phase'[p] = "leave")
            BY <1>0, <1>3, <3>4, <5>2 DEF TypeOK
          <6>3. At(p)' = Outer(p)
            BY <1>5, <6>2 DEF At, Within
          <6> QED
            BY <6>1, <6>2, <6>3 DEF Configures
        <5> QED
          BY <5>1, <5>2
      <4>4. Configures(p)' /\ "config" \notin loose' =>
              owner = p /\ copy'[p].config = Configured(config, At(p)')
        BY <1>6, <3>2, <3>4, <4>3
      <4> QED
        BY <2>2, <4>2, <4>4
    <3> QED
      BY <1>3, <3>3, <3>4
  <2> QED
    BY <2>1, <2>2
<1> QED
  BY <1>2, <1>9, <1>10, <1>11 DEF CountsAreExact, SettingsAreKept, Filled

\* Replace carries the change of one process out, on the file and on what the
\* commands add up to alike.
LEMMA ReplaceInv == ASSUME SettingsInv, NEW p \in Proc, Replace(p) PROVE SettingsInv'
<1> USE DEF SettingsInv
<1> DEFINE x == At(p)
<1>1. /\ phase[p] \in {"keep", "save"} /\ ~Idle(p)
      /\ phase' = [phase EXCEPT ![p] = IF Within(p) THEN "save" ELSE "leave"]
      /\ UNCHANGED <<owner, rest, copy, remote, loose>>
  BY DEF Replace, Idle
<1>2. /\ \A q \in Proc : Outer(q)' = Outer(q)
      /\ \A q \in Proc : q # p => /\ phase'[q] = phase[q] /\ At(q)' = At(q)
                                  /\ Counts(q)' = Counts(q) /\ Configures(q)' = Configures(q)
      /\ phase'[p] = IF Within(p) THEN "save" ELSE "leave"
      /\ ~Within(p)'
      /\ Within(p) => Outer(p).file = "stats"
  BY <1>1 DEF At, Outer, Within, Counts, Configures, TypeOK
<1>3. /\ phase' \in [Proc -> {"idle", "enter", "load", "fill", "keep", "save", "leave"}]
      /\ \A q \in Proc : ~Idle(q)' => rest'[q] # <<>>
      /\ \A q \in Proc : Within(q)' => Outer(q)'.file = "stats"
  BY <1>1, <1>2 DEF TypeOK, Idle, Within
<1>4. CASE x \in CountSections /\ x.file = "stats" /\ x = Outer(p) /\ ~Within(p)
  <2>1. /\ stats' = copy[p].stats /\ expected' = Promised(expected, x.op)
        /\ forgotten' = CASE x.op = "clear" -> forgotten + stats.runs
                          [] x.op = "reset" -> 0
                          [] OTHER -> forgotten
        /\ UNCHANGED <<config, wanted>>
    BY <1>4 DEF Replace
  <2>2. Counts(p)
    BY <1>1, <1>4 DEF Counts
  <2>3. stats' \in Stats /\ expected' \in Stats /\ forgotten' \in Nat
    <3>1. stats.runs \in Nat /\ forgotten \in Nat /\ copy[p].stats \in Stats
      BY DEF TypeOK, Stats
    <3>2. expected' \in Stats
      BY <1>4, <2>1, ChangedType DEF TypeOK
    <3> QED
      BY <2>1, <3>1, <3>2
  <2>4. TypeOK'
    BY <1>1, <1>3, <2>1, <2>3 DEF TypeOK
  <2>5. SavesAreCurrent'
    <3> SUFFICES ASSUME NEW q \in Proc
                 PROVE  /\ Counts(q)' /\ "stats" \notin loose =>
                             owner = q /\ copy[q].stats = Counted(stats', Outer(q).op)
                        /\ Configures(q)' /\ "config" \notin loose =>
                             owner = q /\ copy[q].config = Configured(config, At(q)')
      BY <1>1, <1>2, <2>1 DEF SavesAreCurrent
    <3>1. CASE q = p
      BY <1>2, <1>4, <3>1 DEF Counts, Configures
    <3>2. CASE q # p
      <4>1. "stats" \notin loose => ~Counts(q)
        BY <2>2, <3>2 DEF SavesAreCurrent
      <4> QED
        BY <1>2, <3>2, <4>1 DEF SavesAreCurrent
    <3> QED
      BY <3>1, <3>2
  <2>6. CountsAreExact'
    <3> SUFFICES ASSUME "stats" \notin loose
                 PROVE  stats'.runs + forgotten' = expected'.runs /\ stats'.size = expected'.size
      BY <1>1 DEF CountsAreExact
    <3>1. /\ stats' = Counted(stats, x.op)
          /\ stats.runs + forgotten = expected.runs /\ stats.size = expected.size
      BY <1>4, <2>1, <2>2 DEF SavesAreCurrent, CountsAreExact
    <3>2. /\ stats.runs \in Nat /\ stats.size \in Nat /\ expected.runs \in Nat
          /\ expected.size \in Nat /\ forgotten \in Nat
          /\ stats = [runs |-> stats.runs, size |-> stats.size]
          /\ expected = [runs |-> expected.runs, size |-> expected.size]
      BY DEF TypeOK, Stats
    <3>3. CASE x.op = "count"
      <4>1. /\ stats' = [stats EXCEPT !.runs = @ + 1] /\ expected' = [expected EXCEPT !.runs = @ + 1]
            /\ forgotten' = forgotten
        BY <2>1, <3>1, <3>3 DEF Counted, Promised
      <4> QED
        BY <3>1, <3>2, <4>1
    <3>4. CASE x.op = "store"
      <4>1. /\ stats' = [stats EXCEPT !.runs = @ + 1, !.size = @ + 1]
            /\ expected' = [expected EXCEPT !.runs = @ + 1, !.size = @ + 1]
            /\ forgotten' = forgotten
        BY <2>1, <3>1, <3>4 DEF Counted, Promised
      <4> QED
        BY <3>1, <3>2, <4>1
    <3>5. CASE x.op = "reset"
      <4>1. /\ stats' = [stats EXCEPT !.runs = 0] /\ expected' = [expected EXCEPT !.runs = 0]
            /\ forgotten' = 0
        BY <2>1, <3>1, <3>5 DEF Counted, Promised
      <4> QED
        BY <3>1, <3>2, <4>1
    <3>6. CASE x.op = "clear"
      <4>1. /\ stats' = [runs |-> 0, size |-> 0] /\ expected' = [expected EXCEPT !.size = 0]
            /\ forgotten' = forgotten + stats.runs
        BY <2>1, <3>1, <3>6 DEF Counted, Promised, NoStats
      <4> QED
        BY <3>1, <3>2, <4>1
    <3>7. CASE x.op = "print"
      BY <2>1, <3>1, <3>7 DEF Counted, Promised
    <3>8. x.op \in {"count", "store", "clear", "reset", "print"}
      BY <1>4 DEF CountSections
    <3> QED
      BY <3>3, <3>4, <3>5, <3>6, <3>7, <3>8
  <2>7. SettingsAreKept'
    BY <1>1, <2>1 DEF SettingsAreKept, Filled
  <2> QED
    BY <2>4, <2>5, <2>6, <2>7
<1>5. CASE x \in {Open, Fill} \cup SetSections /\ x.file = "config"
  <2>1. /\ config' = copy[p].config /\ wanted' = Configured(wanted, x)
        /\ UNCHANGED <<stats, expected, forgotten>>
    BY <1>5 DEF Replace
  <2>2. Configures(p)
    BY <1>1, <1>5 DEF Configures
  <2>3. config' \in Configs /\ wanted' \in [Setting -> Value]
    <3>1. wanted \in Configs /\ copy[p].config \in Configs
      BY DEF TypeOK, Configs
    <3> QED
      BY <1>5, <2>1, <3>1, ChangedType
  <2>4. TypeOK'
    BY <1>1, <1>3, <2>1, <2>3 DEF TypeOK
  <2>5. SavesAreCurrent'
    <3> SUFFICES ASSUME NEW q \in Proc
                 PROVE  /\ Counts(q)' /\ "stats" \notin loose =>
                             owner = q /\ copy[q].stats = Counted(stats, Outer(q).op)
                        /\ Configures(q)' /\ "config" \notin loose =>
                             owner = q /\ copy[q].config = Configured(config', At(q)')
      BY <1>1, <1>2, <2>1 DEF SavesAreCurrent
    <3>1. CASE q = p
      <4>1. ~Configures(p)'
        BY <1>2 DEF Configures, At
      <4>2. Counts(p)' => Counts(p)
        BY <1>1, <1>2 DEF Counts, Within
      <4> QED
        BY <3>1, <4>1, <4>2 DEF SavesAreCurrent
    <3>2. CASE q # p
      <4>1. "config" \notin loose => ~Configures(q)
        BY <2>2, <3>2 DEF SavesAreCurrent
      <4> QED
        BY <1>2, <3>2, <4>1 DEF SavesAreCurrent
    <3> QED
      BY <3>1, <3>2
  <2>6. CountsAreExact'
    BY <1>1, <2>1 DEF CountsAreExact
  <2>7. SettingsAreKept'
    <3> SUFFICES ASSUME "config" \notin loose PROVE Filled(config') = wanted'
      BY <1>1 DEF SettingsAreKept, Filled
    <3>1. config' = Configured(config, x) /\ Filled(config) = wanted
      BY <2>1, <2>2 DEF SavesAreCurrent, SettingsAreKept
    <3>2. Filled(Configured(config, x)) = Configured(Filled(config), x)
      BY <1>5, FilledIsKept DEF TypeOK
    <3> QED
      BY <2>1, <3>1, <3>2
  <2> QED
    BY <2>4, <2>5, <2>6, <2>7
<1> QED
  BY <1>1, <1>4, <1>5, FileOfSection

\* Every step keeps the invariant.
LEMMA NextInv == SettingsInv /\ [Next]_vars => SettingsInv'
<1> SUFFICES ASSUME SettingsInv, [Next]_vars PROVE SettingsInv'
  OBVIOUS
<1>1. ASSUME NEW p \in Proc,
             Start(p) \/ Acquire(p) \/ AcquireTimesOut(p) \/ Leave(p) \/ ReplaceFails(p) \/ Crash(p)
      PROVE  SettingsInv'
  <2>1. UNCHANGED <<config, stats, expected, forgotten, wanted, loose>>
    <3>1. CASE Start(p)
      BY <3>1 DEF Start, files, ghosts
    <3>2. CASE Acquire(p)
      BY <3>2 DEF Acquire, files, ghosts
    <3>3. CASE AcquireTimesOut(p)
      BY <3>3 DEF AcquireTimesOut, Ended, files, ghosts
    <3>4. CASE Leave(p)
      BY <3>4 DEF Leave, Ended, files, ghosts
    <3>5. CASE ReplaceFails(p)
      BY <3>5 DEF ReplaceFails, files, ghosts
    <3>6. CASE Crash(p)
      BY <3>6 DEF Crash, Ended, files, ghosts
    <3> QED
      BY <1>1, <3>1, <3>2, <3>3, <3>4, <3>5, <3>6
  <2>2. TypeOK' /\ SavesAreCurrent'
    BY <1>1, QuietType, QuietSaves DEF SettingsInv
  <2> QED
    BY <2>1, <2>2 DEF SettingsInv, CountsAreExact, SettingsAreKept, Filled
<1>2. CASE UNCHANGED vars
  BY <1>2 DEF vars, files, counts, ghosts, SettingsInv, TypeOK, SavesAreCurrent, CountsAreExact,
              SettingsAreKept, Filled, Idle, Within, Outer, At, Counts, Configures
<1> QED
  BY <1>1, <1>2, LoadInv, ReplaceInv DEF Next, Works

\* The variables of Settings keep their types.
THEOREM SettingsType == Spec => []TypeOK
<1>1. SettingsInv => TypeOK
  BY DEF SettingsInv
<1> QED
  BY <1>1, InitInv, NextInv, PTL DEF Spec

\* Whatever number of processes count, time out, crash or fail to save: while
\* no one saves the statistics without the mutex, no count is lost but those
\* that a clear throws away.
THEOREM SettingsCounts == Spec => []CountsAreExact
<1>1. SettingsInv => CountsAreExact
  BY DEF SettingsInv
<1> QED
  BY <1>1, InitInv, NextInv, PTL DEF Spec

\* While no one saves the configuration without the mutex, each setting keeps
\* the value it was given last, and no process that starts undoes it.
THEOREM SettingsKept == Spec => []SettingsAreKept
<1>1. SettingsInv => SettingsAreKept
  BY DEF SettingsInv
<1> QED
  BY <1>1, InitInv, NextInv, PTL DEF Spec
=============================================================================
