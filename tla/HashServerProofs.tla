-------------------------- MODULE HashServerProofs --------------------------
(***************************************************************************)
(* What the server knows about the files it has hashed, and that the       *)
(* hashes its clients are answered are right, for any number of files,     *)
(* directories and clients, and for requests of any length.                *)
(***************************************************************************)
EXTENDS HashServer, SequenceTheorems, TLAPS

\* Nothing changes the request of the client that is being served
Served == serving # None => pc[serving] = "sent"

\* Every directory that the server has hashed a file of is watched, unless the
\* user does not want it to be
Watching ==
    /\ ~DisableWatching => known \ Excluded \subseteq watched
    /\ \A f \in File : cached[f] # None => DirOf[f] \in known

\* The hash that is going to be stored is right, or a change of the file is
\* pending or has been missed
HashedIsPending ==
    hashed # None => hashed = content[path] \/ path \in changes \cup missed

TypeInv == TypeOK /\ Served
ServerInv == TypeInv /\ Watching /\ HashedIsPending /\ StaleIsPending

-----------------------------------------------------------------------------
\* The file that the server works on is one of the request's.
LEMMA PathType ==
    ASSUME TypeInv, More
    PROVE  path \in File /\ DirOf[path] \in Dir
<1>1. serving \in Client /\ ask[serving] \in Seq(File) /\ got \in Seq(Version)
  BY DEF TypeInv, TypeOK, More
<1>2. Len(got) + 1 \in 1..Len(ask[serving])
  BY <1>1, LenProperties DEF More
<1>3. path \in File
  BY <1>1, <1>2, ElementOfSeq DEF path
<1> QED
  BY <1>3, ServerAssumption

\* CompilerEntry.__post_init__ makes an entry of any answer.
LEMMA PairedType ==
    ASSUME NEW fs \in Seq(File), NEW hs \in Seq(Version)
    PROVE  Paired(fs, hs) \in Entry
<1> DEFINE n == IF Len(hs) < Len(fs) THEN Len(hs) ELSE Len(fs)
<1>1. n \in 0..Len(fs)
  BY LenProperties
<1>2. SubSeq(fs, 1, n) \in Seq(File)
  <2>1. \A i \in 1..n : fs[i] \in File
    BY <1>1, LenProperties, ElementOfSeq
  <2> QED
    BY <1>1, <2>1, LenProperties, SubSeqProperties
<1> QED
  BY <1>2 DEF Paired, Entry

\* The initial state is one of TypeInv.
LEMMA InitType == Init => TypeInv
<1> SUFFICES ASSUME Init PROVE TypeInv
  OBVIOUS
<1>1. <<>> \in Seq(File) /\ <<>> \in Seq(Version)
  OBVIOUS
<1>2. [f \in File |-> None] \in [File -> Version \cup {None}]
  OBVIOUS
<1>3. /\ [c \in Client |-> "idle"] \in [Client -> {"idle", "open", "sent", "answered", "error"}]
      /\ [c \in Client |-> None] \in [Client -> Entry \cup {None}]
      /\ [c \in Client |-> {}] \in [Client -> SUBSET File]
      /\ [c \in Client |-> <<>>] \in [Client -> Seq(File)]
      /\ [c \in Client |-> <<>>] \in [Client -> Seq(Version)]
  BY <1>1
<1>4. 0 \in 0..MaxEdits /\ 0 \in 0..MaxStops /\ 0 \in 0..MaxAsks
  BY ServerAssumption
<1>5. content \in [File -> Version \cup {None}]
  BY DEF Init
<1>6. TypeOK
  BY <1>1, <1>2, <1>3, <1>4, <1>5 DEF Init, TypeOK
<1> QED
  BY <1>6 DEF Init, TypeInv, Served

\* Asking, sending and using an answer keep the types.
LEMMA ClientType ==
    ASSUME TypeInv, NEW c \in Client, AskNew(c) \/ AskMatch(c) \/ Proceed(c)
    PROVE  TypeInv'
<1> USE DEF TypeInv, TypeOK, Served, More, path, files, server, loop
<1>1. ASSUME NEW fs \in Seq(File), NEW e \in Entry \cup {None}, Ask(c, fs, e)
      PROVE  TypeInv'
  BY <1>1, ServerAssumption DEF Ask
<1>2. CASE AskNew(c)
  BY <1>1, <1>2, ServerAssumption DEF AskNew
<1>3. CASE AskMatch(c)
  BY <1>1, <1>3 DEF AskMatch, Entry
<1>4. CASE StartServer(c)
  BY <1>4 DEF StartServer, clients
<1>5. CASE Send(c)
  BY <1>5 DEF Send
<1>6. CASE Use(c)
  <2>1. entries' \subseteq Entry
    BY <1>6, PairedType DEF Use
  <2>2. <<>> \in Seq(File) /\ <<>> \in Seq(Version)
    OBVIOUS
  <2> QED
    BY <1>6, <2>1, <2>2 DEF Use
<1> QED
  BY <1>2, <1>3, <1>4, <1>5, <1>6 DEF Proceed

\* The event loop keeps the types.
LEMMA LoopType ==
    ASSUME TypeInv, EventLoop
    PROVE  TypeInv'
<1> USE DEF TypeInv, TypeOK, Served, More, path, files, server, clients
<1>1. ASSUME NEW c \in Client, Accept(c) PROVE TypeInv'
  BY <1>1 DEF Accept
<1>2. CASE UseCached
  <2>1. path \in File
    BY <1>2, PathType DEF UseCached
  <2>2. got' \in Seq(Version)
    BY <1>2, <2>1, AppendProperties DEF UseCached
  <2> QED
    BY <1>2, <2>2 DEF UseCached
<1>3. CASE ComputeHash
  <2>1. path \in File
    BY <1>3, PathType DEF ComputeHash
  <2> QED
    BY <1>3, <2>1 DEF ComputeHash
<1>4. CASE StoreHash
  <2>1. path \in File /\ DirOf[path] \in Dir
    BY <1>4, PathType DEF StoreHash
  <2>2. got' \in Seq(Version)
    BY <1>4, AppendProperties DEF StoreHash
  <2>3. watched' \subseteq known' /\ known' \subseteq Dir
    BY <1>4, <2>1 DEF StoreHash, NowWatched
  <2>4. cached' \in [File -> Version \cup {None}]
    BY <1>4, <2>1 DEF StoreHash
  <2> QED
    BY <1>4, <2>2, <2>3, <2>4 DEF StoreHash
<1>5. CASE NoFile
  BY <1>5 DEF NoFile
<1>6. CASE Answer
  BY <1>6 DEF Answer
<1>7. ASSUME NEW f \in File, Changed(f) PROVE TypeInv'
  BY <1>7 DEF Changed, loop
<1> QED
  BY <1>1, <1>2, <1>3, <1>4, <1>5, <1>6, <1>7 DEF EventLoop

\* Every step keeps the types.
LEMMA TypeStep == TypeInv /\ [Next]_vars => TypeInv'
<1> SUFFICES ASSUME TypeInv, [Next]_vars PROVE TypeInv'
  OBVIOUS
<1>1. CASE Stop
  <2> USE <1>1 DEF TypeInv, TypeOK, Stop
  <2>1. cached' \in [File -> Version \cup {None}]
    OBVIOUS
  <2>2. pc' \in [Client -> {"idle", "open", "sent", "answered", "error"}]
    OBVIOUS
  <2>3. serving' = None /\ hashed' = None /\ got' = <<>>
    BY DEF loop, More
  <2>4. stops' \in 0..MaxStops
    BY ServerAssumption
  <2> QED
    BY <2>1, <2>2, <2>3, <2>4 DEF Served, files, loop
<1>2. ASSUME NEW f \in File, NEW v \in Version \cup {None}, Edit(f, v) PROVE TypeInv'
  <2> USE <1>2 DEF TypeInv, TypeOK, Edit
  <2>1. content' \in [File -> Version \cup {None}] /\ changes' \subseteq File
    OBVIOUS
  <2>2. late' \in [Client -> SUBSET File]
    OBVIOUS
  <2>3. edits' \in 0..MaxEdits
    BY ServerAssumption
  <2>4. More' = More
    BY DEF loop, More
  <2> QED
    BY <2>1, <2>2, <2>3, <2>4 DEF Served, loop
<1>3. CASE UNCHANGED vars
  BY <1>3 DEF TypeInv, TypeOK, Served, More, path, vars, files, server, loop, clients
<1> QED
  BY <1>1, <1>2, <1>3, ClientType, LoopType DEF Next

\* Every state of the server and its clients has the declared types.
THEOREM Typed == Spec => []TypeOK
<1>1. TypeInv => TypeOK
  BY DEF TypeInv
<1> QED
  BY <1>1, InitType, TypeStep, PTL DEF Spec

-----------------------------------------------------------------------------
\* What is hashed, watched and pending stays so when only clients move.
LEMMA ClientsObserve ==
    ASSUME ServerInv, NEW c \in Client, AskNew(c) \/ AskMatch(c) \/ Proceed(c)
    PROVE  ServerInv'
<1>1. TypeInv'
  BY ClientType DEF ServerInv
<1>2. UNCHANGED <<content, cached, known, watched, changes, missed, serving, got, hashed>>
  BY DEF AskNew, AskMatch, Ask, Proceed, StartServer, Send, Use, files, server, loop
<1>3. hashed # None => ask'[serving] = ask[serving]
  <2> SUFFICES ASSUME hashed # None PROVE ask'[serving] = ask[serving]
    OBVIOUS
  <2>1. serving \in Client /\ pc[serving] = "sent" /\ ask \in [Client -> Seq(File)]
    BY DEF ServerInv, TypeInv, TypeOK, Served, More
  <2>2. c # serving \/ ask' = ask
    BY <2>1 DEF AskNew, AskMatch, Ask, Proceed, StartServer, Send, Use, clients
  <2> QED
    BY <2>1, <2>2 DEF AskNew, AskMatch, Ask, Proceed, StartServer, Send, Use, clients
<1>4. hashed # None => path' = path
  BY <1>2, <1>3 DEF path
<1> QED
  BY <1>1, <1>2, <1>4 DEF ServerInv, Watching, HashedIsPending, StaleIsPending, Observed

\* The event loop drops a hash before it forgets the notification, and watches
\* a directory when it stores the first hash of a file in it.
LEMMA LoopObserves ==
    ASSUME ServerInv, EventLoop
    PROVE  ServerInv'
<1>0. TypeInv /\ TypeInv'
  BY LoopType DEF ServerInv
<1> USE DEF ServerInv, Watching, HashedIsPending, StaleIsPending, Observed
<1>1. ASSUME NEW c \in Client, Accept(c) PROVE ServerInv'
  <2>1. hashed = None
    BY <1>0, <1>1 DEF Accept, TypeInv, TypeOK, More
  <2> QED
    BY <1>0, <1>1, <2>1 DEF Accept, files, server
<1>2. CASE UseCached
  BY <1>0, <1>2 DEF UseCached, files, server
<1>3. CASE ComputeHash
  <2>1. path' = path
    BY <1>3 DEF ComputeHash, path, clients
  <2> QED
    BY <1>0, <1>3, <2>1 DEF ComputeHash, files, server
<1>4. CASE StoreHash
  <2>1. path \in File /\ DirOf[path] \in Dir
    BY <1>0, <1>4, PathType DEF StoreHash, TypeInv, TypeOK
  <2>2. ~DisableWatching => known' \ Excluded \subseteq watched'
    BY <1>4 DEF StoreHash, NowWatched
  <2>3. \A f \in File : cached'[f] = IF f = path THEN hashed ELSE cached[f]
    BY <1>0, <1>4 DEF StoreHash, TypeInv, TypeOK
  <2>4. \A f \in File : cached'[f] # None => DirOf[f] \in known'
    BY <1>4, <2>3 DEF StoreHash
  <2>5. hashed' = None /\ UNCHANGED <<content, changes, missed>>
    BY <1>4 DEF StoreHash, files
  <2>6. StaleIsPending'
    BY <1>4, <2>1, <2>3, <2>5 DEF StoreHash
  <2> QED
    BY <1>0, <2>2, <2>4, <2>5, <2>6
<1>5. CASE NoFile
  BY <1>0, <1>5 DEF NoFile, files, server
<1>6. CASE Answer
  <2>1. hashed = None
    BY <1>0, <1>6 DEF Answer, TypeInv, TypeOK
  <2> QED
    BY <1>0, <1>6, <2>1 DEF Answer, files, server
<1>7. ASSUME NEW f \in File, Changed(f) PROVE ServerInv'
  <2>1. hashed = None /\ hashed' = None
    BY <1>0, <1>7 DEF Changed, loop, TypeInv, TypeOK, More
  <2>2. /\ UNCHANGED <<content, known, watched>>
        /\ changes' = changes \ {f} /\ missed \ {f} \subseteq missed'
    BY <1>7 DEF Changed, files
  <2>3. \A g \in File : cached'[g] # None => cached'[g] = cached[g]
    BY <1>0, <1>7 DEF Changed, TypeInv, TypeOK
  <2>4. cached'[f] # None => f \in missed'
    BY <1>0, <1>7 DEF Changed, TypeInv, TypeOK
  <2>5. Watching'
    BY <2>2, <2>3
  <2>6. StaleIsPending'
    BY <2>2, <2>3, <2>4
  <2> QED
    BY <1>0, <2>1, <2>5, <2>6
<1> QED
  BY <1>1, <1>2, <1>3, <1>4, <1>5, <1>6, <1>7 DEF EventLoop

\* A file that changes while the server holds its hash is in a watched directory,
\* or its change is missed.
LEMMA EditObserved ==
    ASSUME ServerInv, NEW f \in File, NEW v \in Version \cup {None}, Edit(f, v)
    PROVE  ServerInv'
<1>0. TypeInv /\ TypeInv'
  BY TypeStep DEF ServerInv, Next
<1>1. UNCHANGED <<cached, known, watched, serving, got, hashed, ask>>
  BY DEF Edit, loop
<1>2. \A g \in File : content'[g] = IF g = f THEN v ELSE content[g]
  BY <1>0 DEF Edit, TypeInv, TypeOK
<1>3. /\ changes \subseteq changes' /\ missed \subseteq missed'
      /\ DirOf[f] \in watched => f \in changes'
      /\ Unwatched(f) => f \in missed'
  BY DEF Edit
<1>4. Watching'
  BY <1>1 DEF ServerInv, Watching
<1>5. HashedIsPending'
  <2> SUFFICES ASSUME hashed # None
               PROVE  hashed = content'[path] \/ path \in changes' \cup missed'
    BY <1>1 DEF HashedIsPending, path
  <2>1. path \in File
    BY <1>0, PathType DEF TypeInv, TypeOK
  <2>2. CASE f = path
    BY <1>3, <2>2 DEF Unwatched
  <2>3. CASE f # path
    BY <1>2, <1>3, <2>1, <2>3 DEF ServerInv, HashedIsPending
  <2> QED
    BY <2>2, <2>3
<1>6. StaleIsPending'
  <2> SUFFICES ASSUME NEW g \in File, cached[g] \notin {None, content'[g]}, Observed(g)
               PROVE  g \in changes' \cup missed'
    BY <1>1 DEF StaleIsPending, Observed
  <2>1. CASE g = f
    BY <1>3, <2>1 DEF ServerInv, Watching, Observed
  <2>2. CASE g # f
    BY <1>2, <1>3, <2>2 DEF ServerInv, StaleIsPending
  <2> QED
    BY <2>1, <2>2
<1> QED
  BY <1>0, <1>4, <1>5, <1>6 DEF ServerInv

\* Every step keeps the invariant.
LEMMA ServerStep == ServerInv /\ [Next]_vars => ServerInv'
<1> SUFFICES ASSUME ServerInv, [Next]_vars PROVE ServerInv'
  OBVIOUS
<1>0. TypeInv /\ TypeInv'
  BY TypeStep DEF ServerInv
<1>1. CASE Stop
  BY <1>0, <1>1 DEF ServerInv, Watching, HashedIsPending, StaleIsPending, Observed, Stop,
                    files, loop, TypeInv, TypeOK, More
<1>2. CASE UNCHANGED vars
  BY <1>0, <1>2 DEF ServerInv, Watching, HashedIsPending, StaleIsPending, Observed, path,
                    vars, files, server, loop, clients
<1> QED
  BY <1>1, <1>2, ClientsObserve, LoopObserves, EditObserved DEF Next

\* Every stale hash of a file that the user lets the server observe has a
\* notification pending that will drop it, or was missed: the file changed
\* between being hashed and being watched, or the change was notified with an
\* upper-case letter in its name (HashCache.getFileHash, _onPathChange).
THEOREM StaleHashes == Spec => []StaleIsPending
<1>1. Init => ServerInv
  <2> SUFFICES ASSUME Init PROVE ServerInv
    OBVIOUS
  <2> QED
    BY InitType DEF Init, ServerInv, Watching, HashedIsPending, StaleIsPending
<1>2. ServerInv => StaleIsPending
  BY DEF ServerInv
<1>3. ServerInv /\ [Next]_vars => ServerInv'
  BY ServerStep
<1> QED
  BY <1>1, <1>2, <1>3, PTL DEF Spec

-----------------------------------------------------------------------------
(* Answers.  A client knows which files have changed since it asked, or    *)
(* had a change pending when it did (late); the hashes it is answered are  *)
(* right for all others, whatever the server had in memory.                *)

\* The hash h of f is one that c may be answered
Current(c, f, h) == Observed(f) => h = content[f] \/ f \in late[c]

Answering(c) ==
    /\ pc[c] # "idle" => changes \cup missed \subseteq late[c]
    /\ pc[c] # "answered" => reply[c] = <<>>
    /\ \A i \in 1..Len(reply[c]) : Current(c, ask[c][i], reply[c][i])

\* The answer that is being put together
Gathering ==
    serving # None =>
        /\ \A i \in 1..Len(got) : Current(serving, ask[serving][i], got[i])
        /\ hashed # None => Current(serving, path, hashed)

AnswerInv ==
    /\ ServerInv
    /\ \A c \in Client : Answering(c)
    /\ Gathering

\* A hash that the server has in memory may be answered.
LEMMA CachedIsCurrent ==
    ASSUME AnswerInv, NEW c \in Client, pc[c] # "idle", NEW f \in File, cached[f] # None
    PROVE  Current(c, f, cached[f])
BY DEF AnswerInv, ServerInv, StaleIsPending, Answering, Current

\* One more hash of the answer
LEMMA GatherOne ==
    ASSUME TypeInv, More, Gathering, NEW h \in Version, Current(serving, path, h),
           got' = Append(got, h), hashed' = None,
           UNCHANGED <<serving, ask, content, late>>
    PROVE  Gathering'
<1>1. got \in Seq(Version) /\ Len(got) \in Nat
  BY LenProperties DEF TypeInv, TypeOK
<1>2. /\ Len(got') = Len(got) + 1
      /\ \A i \in 1..Len(got) : got'[i] = got[i]
      /\ got'[Len(got) + 1] = h
  BY <1>1, AppendProperties
<1> SUFFICES ASSUME NEW i \in 1..Len(got')
             PROVE  Current(serving, ask[serving][i], got'[i])
  BY DEF Gathering, Current, Observed
<1>3. CASE i = Len(got) + 1
  BY <1>2, <1>3 DEF path
<1>4. CASE i # Len(got) + 1
  <2>1. i \in 1..Len(got)
    BY <1>1, <1>2, <1>4
  <2> QED
    BY <1>2, <2>1 DEF Gathering, More
<1> QED
  BY <1>3, <1>4

\* What a client is about to be answered stays right while clients move.
LEMMA ClientsAnswered ==
    ASSUME AnswerInv, NEW c \in Client, AskNew(c) \/ AskMatch(c) \/ Proceed(c)
    PROVE  (\A d \in Client : Answering(d)') /\ Gathering'
<1>0. TypeInv /\ TypeOK /\ Served
  BY DEF AnswerInv, ServerInv, TypeInv
<1>1. UNCHANGED <<content, changes, missed, serving, got, hashed>>
  BY DEF AskNew, AskMatch, Ask, Proceed, StartServer, Send, Use, files, server, loop
<1>2. \A d \in Client \ {c} : /\ pc'[d] = pc[d] /\ ask'[d] = ask[d]
                              /\ reply'[d] = reply[d] /\ late'[d] = late[d]
  BY <1>0 DEF AskNew, AskMatch, Ask, Proceed, StartServer, Send, Use, clients, TypeOK
<1>3. ASSUME NEW d \in Client, d # c PROVE Answering(d)'
  BY <1>1, <1>2, <1>3 DEF AnswerInv, Answering, Current, Observed
<1>4. serving # None => serving # c \/ StartServer(c)
  BY <1>0 DEF AskNew, AskMatch, Ask, Proceed, Send, Use, Served
<1>5. Gathering'
  <2>1. serving # None => serving \in Client
    BY <1>0 DEF TypeOK
  <2>2. serving # None => ask'[serving] = ask[serving] /\ late'[serving] = late[serving]
    BY <1>2, <1>4, <2>1 DEF StartServer, clients
  <2> QED
    BY <1>1, <2>2 DEF AnswerInv, Gathering, Current, Observed, path
<1>6. Answering(c)'
  <2>1. Answering(c)
    BY DEF AnswerInv
  <2>2. CASE AskNew(c) \/ AskMatch(c)
    <3>1. pc[c] = "idle" /\ reply' = reply /\ late'[c] = changes \cup missed /\ pc'[c] = "open"
      BY <1>0, <2>2 DEF AskNew, AskMatch, Ask, TypeOK
    <3>2. reply'[c] = <<>>
      BY <2>1, <3>1 DEF Answering
    <3> QED
      BY <1>1, <3>1, <3>2 DEF Answering
  <2>3. CASE StartServer(c) \/ Send(c)
    <3>1. /\ UNCHANGED <<ask, reply, late>>
          /\ pc[c] = "open" /\ pc'[c] \in {"open", "sent"}
      BY <1>0, <2>3 DEF StartServer, Send, clients, TypeOK
    <3> QED
      BY <1>1, <2>1, <3>1 DEF Answering, Current, Observed
  <2>4. CASE Use(c)
    <3>1. pc'[c] = "idle" /\ reply'[c] = <<>>
      BY <1>0, <2>4 DEF Use, TypeOK
    <3> QED
      BY <3>1 DEF Answering
  <2> QED
    BY <2>2, <2>3, <2>4 DEF Proceed
<1> QED
  BY <1>3, <1>5, <1>6

\* The event loop answers what is right.
LEMMA LoopAnswers ==
    ASSUME AnswerInv, EventLoop
    PROVE  (\A d \in Client : Answering(d)') /\ Gathering'
<1>0. TypeInv /\ TypeOK /\ Served /\ Gathering
  BY DEF AnswerInv, ServerInv, TypeInv
<1>1. ASSUME UNCHANGED <<content, pc, ask, reply, late>>,
             changes' \cup missed' \subseteq changes \cup missed
      PROVE  \A d \in Client : Answering(d)'
  BY <1>1 DEF AnswerInv, Answering, Current, Observed
<1>2. ASSUME NEW c \in Client, Accept(c) PROVE Gathering'
  <2>1. got' = <<>> /\ hashed' = None
    BY <1>0, <1>2 DEF Accept, TypeOK, More
  <2> QED
    BY <2>1 DEF Gathering
<1>3. CASE UseCached
  <2>1. Current(serving, path, cached[path]) /\ cached[path] \in Version
    BY <1>0, <1>3, PathType, CachedIsCurrent DEF UseCached, TypeOK, Served, More
  <2> QED
    BY <1>0, <1>1, <1>3, <2>1, GatherOne DEF UseCached, files, server, clients
<1>4. CASE ComputeHash
  <2>1. path' = path /\ UNCHANGED <<content, changes, missed, pc, ask, reply, late, serving, got>>
        /\ hashed' = content[path]
    BY <1>4 DEF ComputeHash, path, files, server, clients
  <2> QED
    BY <1>0, <1>1, <2>1 DEF Gathering, Current, Observed
<1>5. CASE StoreHash
  <2>1. More /\ hashed \in Version /\ serving # None
    BY <1>0, <1>5 DEF StoreHash, TypeOK, More
  <2>2. Current(serving, path, hashed)
    BY <1>0, <1>5, <2>1 DEF StoreHash, Gathering
  <2> QED
    BY <1>0, <1>1, <1>5, <2>1, <2>2, GatherOne DEF StoreHash, files, clients
<1>6. CASE NoFile \/ Answer
  <2>1. PICK c \in Client : c = serving
    BY <1>0, <1>6 DEF NoFile, Answer, TypeOK, More
  <2>2. /\ pc[c] = "sent" /\ serving' = None
        /\ UNCHANGED <<content, changes, missed, ask, late>>
        /\ \A d \in Client \ {c} : pc'[d] = pc[d] /\ reply'[d] = reply[d]
    <3>1. pc[c] = "sent"
      BY <1>0, <1>6, <2>1 DEF NoFile, Answer, More, Served
    <3>2. CASE NoFile
      BY <1>0, <2>1, <3>1, <3>2 DEF NoFile, TypeOK, files, server
    <3>3. CASE Answer
      BY <1>0, <2>1, <3>1, <3>3 DEF Answer, TypeOK, files, server
    <3> QED
      BY <1>6, <3>2, <3>3
  <2>3. Gathering'
    BY <2>2 DEF Gathering
  <2>4. ASSUME NEW d \in Client, d # c PROVE Answering(d)'
    BY <2>2, <2>4 DEF AnswerInv, Answering, Current, Observed
  <2>5. Answering(c)
    BY DEF AnswerInv
  <2>6. CASE NoFile
    <3>1. pc'[c] = "error" /\ reply'[c] = <<>>
      BY <1>0, <2>1, <2>2, <2>5, <2>6 DEF NoFile, Answering, TypeOK
    <3>2. Answering(c)'
      BY <2>2, <2>5, <3>1 DEF Answering
    <3> QED
      BY <2>3, <2>4, <3>2
  <2>7. CASE Answer
    <3>1. pc'[c] = "answered" /\ reply'[c] = got
      BY <1>0, <2>1, <2>2, <2>7 DEF Answer, TypeOK
    <3>2. \A i \in 1..Len(got) : Current(c, ask[c][i], got[i])
      BY <1>0, <2>1, <2>7 DEF Answer, Gathering
    <3>3. Answering(c)'
      BY <2>2, <2>5, <3>1, <3>2 DEF Answering, Current, Observed
    <3> QED
      BY <2>3, <2>4, <3>3
  <2> QED
    BY <1>6, <2>6, <2>7
<1>7. ASSUME NEW f \in File, Changed(f)
      PROVE  (\A d \in Client : Answering(d)') /\ Gathering'
  <2>1. /\ UNCHANGED <<content, pc, ask, reply, late, serving>> /\ serving = None
        /\ changes' \cup missed' \subseteq changes \cup missed
    BY <1>7 DEF Changed, files, clients, loop
  <2> QED
    BY <1>1, <2>1 DEF Gathering
<1>8. ASSUME NEW c \in Client, Accept(c)
      PROVE  \A d \in Client : Answering(d)'
  BY <1>1, <1>8 DEF Accept, files, server, clients
<1> QED
  BY <1>2, <1>3, <1>4, <1>5, <1>6, <1>7, <1>8 DEF EventLoop

\* A client that waits notes every change.
LEMMA EditAnswered ==
    ASSUME AnswerInv, NEW f \in File, NEW v \in Version \cup {None}, Edit(f, v)
    PROVE  (\A d \in Client : Answering(d)') /\ Gathering'
<1>0. TypeInv /\ TypeOK /\ Served /\ Gathering
  BY DEF AnswerInv, ServerInv, TypeInv
<1>1. /\ UNCHANGED <<pc, ask, reply, serving, got, hashed>>
      /\ changes' \cup missed' \subseteq changes \cup missed \cup {f}
      /\ \A g : g # f => content'[g] = content[g]
      /\ \A c \in Client : late'[c] = IF pc[c] = "idle" THEN {} ELSE late[c] \cup {f}
  BY <1>0 DEF Edit, loop, TypeOK
<1>2. ASSUME NEW c \in Client, pc[c] # "idle", NEW g, NEW h, Current(c, g, h)
      PROVE  Current(c, g, h)'
  BY <1>1, <1>2 DEF Current, Observed
<1>3. ASSUME NEW d \in Client PROVE Answering(d)'
  <2>1. Answering(d)
    BY DEF AnswerInv
  <2>2. CASE pc[d] = "idle"
    BY <1>1, <2>1, <2>2 DEF Answering
  <2>3. CASE pc[d] # "idle"
    BY <1>1, <1>2, <2>1, <2>3 DEF Answering
  <2> QED
    BY <2>2, <2>3
<1>4. Gathering'
  <2> SUFFICES ASSUME serving # None PROVE Gathering'
    BY <1>1 DEF Gathering
  <2>1. serving \in Client /\ pc[serving] # "idle"
    BY <1>0 DEF TypeOK, Served
  <2>2. path' = path
    BY <1>1 DEF path
  <2> QED
    BY <1>0, <1>1, <1>2, <2>1, <2>2 DEF Gathering
<1> QED
  BY <1>3, <1>4

\* Every step keeps the invariant.
LEMMA AnswerStep == AnswerInv /\ [Next]_vars => AnswerInv'
<1> SUFFICES ASSUME AnswerInv, [Next]_vars PROVE AnswerInv'
  OBVIOUS
<1>0. TypeInv /\ TypeOK /\ ServerInv'
  BY ServerStep DEF AnswerInv, ServerInv, TypeInv
<1>1. CASE Stop
  <2>1. /\ UNCHANGED <<content, ask, reply, late, serving>> /\ serving = None
        /\ changes' = {} /\ missed' = {}
        /\ pc' = [c \in Client |-> IF pc[c] = "sent" THEN "answered" ELSE pc[c]]
    BY <1>1 DEF Stop, files, loop
  <2>2. Gathering'
    BY <2>1 DEF Gathering
  <2>3. \A d \in Client : Answering(d)'
    BY <2>1 DEF AnswerInv, Answering, Current, Observed
  <2> QED
    BY <1>0, <2>2, <2>3 DEF AnswerInv
<1>2. CASE UNCHANGED vars
  BY <1>0, <1>2 DEF AnswerInv, Answering, Gathering, Current, Observed, path, vars, files, server,
     loop, clients
<1> QED
  BY <1>0, <1>1, <1>2, ClientsAnswered, LoopAnswers, EditAnswered DEF Next, AnswerInv

\* An answer is what the observed files contained when it was asked for, but for
\* those that have changed since, or whose last change was pending or missed then
\* (AnswersAreCurrent), however many clients ask, however often the server is
\* stopped and started again.
THEOREM AlwaysCurrent == Spec => []AnswersAreCurrent
<1>1. Init => AnswerInv
  <2> SUFFICES ASSUME Init PROVE AnswerInv
    OBVIOUS
  <2>1. ServerInv
    BY InitType DEF Init, ServerInv, Watching, HashedIsPending, StaleIsPending
  <2>2. (\A c \in Client : Answering(c)) /\ Gathering
    BY DEF Init, Answering, Gathering
  <2> QED
    BY <2>1, <2>2 DEF AnswerInv
<1>2. AnswerInv => AnswersAreCurrent
  BY DEF AnswerInv, Answering, Current, AnswersAreCurrent
<1>3. AnswerInv /\ [Next]_vars => AnswerInv'
  BY AnswerStep
<1> QED
  BY <1>1, <1>2, <1>3, PTL DEF Spec
=============================================================================
