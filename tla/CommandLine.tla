---------------------------- MODULE CommandLine ----------------------------
(***************************************************************************)
(* A compile request of the compiler wrapper, from its words to its exit   *)
(* code.                                                                   *)
(*                                                                         *)
(* The environment variables CL and _CL_ and the response files hold text, *)
(* which is scanned one character at a time.  The words it gives are       *)
(* joined with the arguments and analysed: either the compiler gets the    *)
(* arguments as they are, or each source becomes a job with a command of   *)
(* its own, and the jobs run side by side, as many at a time as /MP says.  *)
(*                                                                         *)
(* A word is a sequence of atoms: a blank, a quotation mark, a backslash,  *)
(* the sign that starts an option, the name of an option, and the rest.    *)
(***************************************************************************)
EXTENDS Naturals, Sequences, FiniteSets, SequencesExt

CONSTANTS
    Requests,   \* the requests: arguments, variables and response file
    Cpus        \* multiprocessing.cpu_count()

\* A list of words, each a sequence of atoms
WordList(ws) == ws \in Seq(ToSet(ws)) /\ \A w \in ToSet(ws) : w \in Seq(ToSet(w))

ASSUME CpusAssumption == Cpus \in Nat \ {0}
ASSUME RequestsAssumption == \A r \in Requests :
    /\ r.all \in BOOLEAN /\ r.direct \in BOOLEAN
    /\ \A ws \in {r.args, r.CL, r._CL_, r.file} : WordList(ws)

VARIABLES
    request,    \* what was asked, which no step changes
    phase,      \* where processCompileRequest is
    scan,       \* the tokenizer and the text it reads
    todo,       \* the words that expandCommandLine has still to look at
    cmdLine,    \* the expanded command line
    jobs,       \* the jobs, in the order of submission
    exit,       \* the exit code so far
    cleanup,    \* does a job that was collected require a cleanup?
    cleaned     \* has the cache been cleaned?

lineVars == <<request, phase, scan, todo, cmdLine, jobs, exit, cleanup, cleaned>>

Blank == "blank"  Mark == "quote"  Backslash == "backslash"

-----------------------------------------------------------------------------
(* How a list of words is written as text, by whoever sets CL or writes a  *)
(* response file: a word that holds a blank, or every word, is quoted.     *)

\* Is the run of backslashes around the i-th atom followed by a quotation mark?
BeforeMark(w, i, quoted) ==
    LET after == {j \in i .. Len(w) : w[j] # Backslash}
    IN  IF after = {} THEN quoted
        ELSE \E j \in after : w[j] = Mark /\ \A k \in after : j <= k

Escaped(w, quoted) == FlattenSeq([i \in 1 .. Len(w) |->
    IF w[i] = Mark \/ (w[i] = Backslash /\ BeforeMark(w, i, quoted))
    THEN <<Backslash, w[i]>> ELSE <<w[i]>>])

Written(w, all) ==
    IF all \/ w = <<>> \/ Blank \in ToSet(w)
    THEN <<Mark>> \o Escaped(w, TRUE) \o <<Mark>>
    ELSE Escaped(w, FALSE)

Text(words, all) == FlattenSeq([i \in 1 .. Len(words) |->
    (IF i = 1 THEN <<>> ELSE IF all THEN <<Blank, Blank>> ELSE <<Blank>>)
    \o Written(words[i], all)])

-----------------------------------------------------------------------------
(* CommandLineTokenizer                                                    *)

Scan(words) == [words |-> words, content |-> Text(words, request.all), pos |-> 1,
                token |-> <<>>, argv |-> <<>>, parser |-> "initial"]

Atoms(a, n) == [i \in 1 .. n |-> a]

\* Mutant: the quotation mark after the backslashes is always passed over
PassMark(s) ==
    LET run   == {i \in s.pos .. Len(s.content) :
                    \A j \in s.pos .. i : s.content[j] = Backslash}
        n     == Cardinality(run)
        after == s.pos + n
        followedByMark == after <= Len(s.content) /\ s.content[after] = Mark
    IN  [s EXCEPT
          !.token = @ \o Atoms(Backslash, IF followedByMark THEN n \div 2 ELSE n)
                      \o (IF followedByMark /\ n % 2 = 1 THEN <<Mark>> ELSE <<>>),
          !.pos   = IF followedByMark THEN after ELSE after - 1]

\* _parseBackslash; afterwards pos is that of the last atom consumed
ParseBackslash(s) ==
    LET run   == {i \in s.pos .. Len(s.content) :
                    \A j \in s.pos .. i : s.content[j] = Backslash}
        n     == Cardinality(run)
        after == s.pos + n
        followedByMark == after <= Len(s.content) /\ s.content[after] = Mark
    IN  [s EXCEPT
          !.token = @ \o Atoms(Backslash, IF followedByMark THEN n \div 2 ELSE n)
                      \o (IF followedByMark /\ n % 2 = 1 THEN <<Mark>> ELSE <<>>),
          !.pos   = IF followedByMark /\ n % 2 = 1 THEN after ELSE after - 1]

\* _initialState, _unquotedState and _quotedState
Parse(s) ==
    LET c       == s.content[s.pos]
        outside == s.parser # "quoted"
        within  == IF outside THEN "unquoted" ELSE "quoted"
    IN  IF outside /\ c = Blank
        THEN [s EXCEPT !.parser = "initial", !.token = <<>>,
               !.argv = IF s.parser = "initial" THEN @ ELSE Append(@, s.token)]
        ELSE IF c = Mark
        THEN [s EXCEPT !.parser = IF outside THEN "quoted" ELSE "unquoted"]
        ELSE IF c = Backslash
        THEN [ParseBackslash(s) EXCEPT !.parser = within]
        ELSE [s EXCEPT !.parser = within, !.token = Append(@, c)]

\* A last word that is empty is not appended
Tokens(s) == IF s.token = <<>> THEN s.argv ELSE Append(s.argv, s.token)

Scanned == scan.pos > Len(scan.content)

LineInit ==
    /\ request \in Requests
    /\ phase = "CL" /\ scan = Scan(request.CL)
    /\ todo = request.args /\ cmdLine = <<>> /\ jobs = <<>>
    /\ exit = 0 /\ cleanup = FALSE /\ cleaned = FALSE

results == <<jobs, exit, cleanup, cleaned>>

Character ==
    /\ phase \in {"CL", "_CL_", "file"} /\ ~Scanned
    /\ LET s == Parse(scan) IN scan' = [s EXCEPT !.pos = @ + 1]
    /\ UNCHANGED <<request, phase, todo, cmdLine, results>>

\* extendCommandLineFromEnvironment
Prepend ==
    /\ phase = "CL" /\ Scanned
    /\ todo' = Tokens(scan) \o todo
    /\ scan' = Scan(request._CL_) /\ phase' = "_CL_"
    /\ UNCHANGED <<request, cmdLine, results>>

Extend ==
    /\ phase = "_CL_" /\ Scanned
    /\ todo' = todo \o Tokens(scan) /\ phase' = "expand"
    /\ UNCHANGED <<request, scan, cmdLine, results>>

-----------------------------------------------------------------------------
(* expandCommandLine.  The words of a response file are looked at before   *)
(* those that follow it.                                                   *)

Keep ==
    /\ phase = "expand" /\ todo # <<>> /\ Head(todo) # <<>> /\ Head(todo)[1] # "@"
    /\ cmdLine' = Append(cmdLine, Head(todo)) /\ todo' = Tail(todo)
    /\ UNCHANGED <<request, phase, scan, results>>

ReadFile ==
    /\ phase = "expand" /\ todo # <<>> /\ Head(todo) # <<>> /\ Head(todo)[1] = "@"
    /\ scan' = Scan(request.file) /\ todo' = Tail(todo) /\ phase' = "file"
    /\ UNCHANGED <<request, cmdLine, results>>

Include ==
    /\ phase = "file" /\ Scanned
    /\ todo' = Tokens(scan) \o todo /\ phase' = "expand"
    /\ UNCHANGED <<request, scan, cmdLine, results>>

\* A word without a first character, or a response file that is not there
ExpandFails ==
    /\ phase = "expand" /\ todo # <<>>
    /\ Head(todo) # <<>> => Head(todo)[1] = "@"
    /\ phase' = "raised"
    /\ UNCHANGED <<request, scan, todo, cmdLine, results>>

-----------------------------------------------------------------------------
(* CommandLineAnalyzer                                                     *)

NoSpace  == {"Ob", "Yl", "Zm"}
Optional == {"doc", "FA", "FR", "Fr", "Gs", "MP", "Yc", "Yu", "Zp", "Fa", "Fd",
             "Fe", "Fi", "Fm", "Fo", "Fp", "Wv"}
Spaced   == {"AI", "D", "Tc", "Tp", "FI", "U", "I", "F", "FU", "w1", "w2", "w3",
             "w4", "wd", "we", "wo", "V"}

Name(w)  == IF Len(w) > 1 THEN w[2] ELSE Blank
Value(w) == SubSeq(w, 3, Len(w))

Option(name, value) == <<[name |-> name, value |-> value]>>

\* One turn of the loop of parseArgumentsAndInputFiles
ParseWord(p, w) ==
    IF p.error # "none" THEN p
    ELSE IF p.awaits # <<>>
    THEN [p EXCEPT !.options = @ \o Option(p.awaits, w), !.awaits = <<>>]
    ELSE IF w[1] \notin {"/", "-"} THEN [p EXCEPT !.inputFiles = Append(@, w)]
    ELSE IF Name(w) \in NoSpace /\ Value(w) = <<>>
    THEN [p EXCEPT !.error = "InvalidArgument"]
    ELSE IF Name(w) \in Spaced /\ Value(w) = <<>> THEN [p EXCEPT !.awaits = <<w[2]>>]
    ELSE IF Name(w) \in NoSpace \cup Optional \cup Spaced
    THEN [p EXCEPT !.options = @ \o Option(<<w[2]>>, Value(w))]
    ELSE [p EXCEPT !.options = @ \o Option(Tail(w), <<>>)]

\* An option that awaits the word after the last one: IndexError
Parsed(words) ==
    LET p == FoldLeft(ParseWord, [options |-> <<>>, inputFiles |-> <<>>,
                                  awaits |-> <<>>, error |-> "none"], words)
    IN  IF p.error = "none" /\ p.awaits # <<>> THEN [p EXCEPT !.error = "IndexError"] ELSE p

\* The elements of a list that are wanted
Only(list, wanted) ==
    FlattenSeq([i \in DOMAIN list |-> IF list[i] \in wanted THEN <<list[i]>> ELSE <<>>])

Has(p, name) == \E i \in DOMAIN p.options : p.options[i].name = <<name>>

Values(p, name) ==
    LET given == Only(p.options, {o \in ToSet(p.options) : o.name = <<name>>})
    IN  [i \in DOMAIN given |-> given[i].value]

Language(p, f) ==
    CASE f \in ToSet(Values(p, "Tc")) -> <<"/", "Tc">>
      [] f \in ToSet(Values(p, "Tp")) \ ToSet(Values(p, "Tc")) -> <<"/", "Tp">>
      [] OTHER -> <<>>

\* The source files, each once, with its language
Sources(p) ==
    LET files == p.inputFiles \o Values(p, "Tp") \o Values(p, "Tc")
    IN  FlattenSeq([i \in DOMAIN files |->
          IF \E k \in 1 .. i - 1 : files[k] = files[i] THEN <<>>
          ELSE <<[file |-> files[i], lang |-> Language(p, files[i])]>>])

\* What analyze has reason to raise
Exceptions(p) ==
    LET If(name, raised) == IF raised THEN {name} ELSE {}
    IN  If(p.error, p.error # "none")
        \cup If("NoSourceFile", Sources(p) = <<>>)
        \cup If("Preprocessing", \E o \in {"E", "EP", "P"} : Has(p, o))
        \cup If("DebugInfo", Has(p, "Zi"))
        \cup If("Pch", (Has(p, "Yc") \/ Has(p, "Yu")) /\ ~Has(p, "Y-"))
        \cup If("Link", Has(p, "link") \/ ~Has(p, "c"))
        \cup If("MultipleSources", Len(Sources(p)) > 1 /\ (Has(p, "Tp") \/ Has(p, "Tc")))

\* invokeRealCompiler with the arguments of the request
PassOn ==
    /\ phase = "expand" /\ todo = <<>>
    /\ Exceptions(Parsed(cmdLine)) # {}
    /\ IF "IndexError" \in Exceptions(Parsed(cmdLine))
       THEN phase' = "raised" /\ UNCHANGED exit
       ELSE phase' = "passed" /\ exit' \in {0, 2}
    /\ UNCHANGED <<request, scan, todo, cmdLine, jobs, cleanup, cleaned>>

-----------------------------------------------------------------------------
(* scheduleJobs                                                            *)

MP      == <<"/", "MP">>
Skipped == {<<a, n>> : a \in {"/", "-"}, n \in {"Tc", "Tp"}}

\* Mutant: the language options are left in
FilterNames(words, sources) ==
    Only(words, {w \in ToSet(words) : \A i \in DOMAIN sources : w # sources[i].file})

FilterSourceFiles(words, sources) == Only(words, {w \in ToSet(words) :
    /\ \A i \in DOMAIN sources : w # sources[i].file
    /\ ~\E a \in Skipped : IsPrefix(a, w)})

BaseCmdLine(words, sources) ==
    LET rest == FilterSourceFiles(words, sources)
    IN  Only(rest, {w \in ToSet(rest) : ~IsPrefix(MP, w)})

Digit == {"0", "1", "2"}
Number(d) == CASE d = "0" -> 0 [] d = "1" -> 1 [] d = "2" -> 2

\* The last /MP or /MP<count> counts
JobCount(words) ==
    LET mp == Only(words, {w \in ToSet(words) : IsPrefix(MP, w)
                 /\ (Value(w) = <<>> \/ (Len(w) = 3 /\ w[3] \in Digit))})
    IN  IF mp = <<>> THEN 1
        ELSE IF Value(Last(mp)) = <<>> THEN Cpus ELSE Number(Last(mp)[3])

Submitted(word) == [cmd |-> word, state |-> "queued", rc |-> 0, cleanup |-> FALSE]

\* An executor with no worker at all raises
Schedule ==
    /\ phase = "expand" /\ todo = <<>>
    /\ LET p == Parsed(cmdLine)
       IN  /\ Exceptions(p) = {}
           /\ IF JobCount(cmdLine) = 0 THEN phase' = "raised" /\ UNCHANGED jobs
              ELSE /\ phase' = "collect"
                   /\ jobs' = [i \in DOMAIN Sources(p) |->
                        Submitted(Append(BaseCmdLine(cmdLine, Sources(p)),
                                         Sources(p)[i].lang \o Sources(p)[i].file))]
    /\ UNCHANGED <<request, scan, todo, cmdLine, exit, cleanup, cleaned>>

InState(s) == {i \in DOMAIN jobs : jobs[i].state = s}

\* A worker takes the job that was submitted first
JobStarts(i) ==
    /\ i \in InState("queued") /\ \A k \in InState("queued") : i <= k
    /\ Cardinality(InState("running")) < JobCount(cmdLine)
    /\ jobs' = [jobs EXCEPT ![i].state = "running"]
    /\ UNCHANGED <<request, phase, scan, todo, cmdLine, exit, cleanup, cleaned>>

\* processSingleSource: only a compilation that succeeded can fill the cache
JobEnds(i) ==
    /\ i \in InState("running")
    /\ \E rc \in {0, 2}, clean \in BOOLEAN :
         /\ clean => rc = 0
         /\ jobs' = [jobs EXCEPT ![i].state = "done", ![i].rc = rc, ![i].cleanup = clean]
    /\ UNCHANGED <<request, phase, scan, todo, cmdLine, exit, cleanup, cleaned>>

\* An exception; or an include that was not found, after which the compiler
\* runs once more and the result has not the form that is expected
JobBreaks(i) ==
    /\ i \in InState("running")
    /\ jobs' = [jobs EXCEPT ![i].state = "broken"]
    /\ UNCHANGED <<request, phase, scan, todo, cmdLine, exit, cleanup, cleaned>>

\* Mutant: the loop goes on after a failure
CollectOn(i) ==
    /\ phase = "collect" /\ i \in InState("done")
    /\ jobs' = [jobs EXCEPT ![i].state = "collected"]
    /\ exit' = jobs[i].rc /\ cleanup' = (cleanup \/ jobs[i].cleanup)
    /\ UNCHANGED <<request, phase, scan, todo, cmdLine, cleaned>>

\* as_completed: the first result that is not 0 ends the loop
Collect(i) ==
    /\ phase = "collect" /\ i \in InState("done")
    /\ jobs' = [jobs EXCEPT ![i].state = "collected"]
    /\ exit' = jobs[i].rc /\ cleanup' = (cleanup \/ jobs[i].cleanup)
    /\ phase' = IF jobs[i].rc # 0 THEN "shutdown" ELSE "collect"
    /\ UNCHANGED <<request, scan, todo, cmdLine, cleaned>>

CollectFails(i) ==
    /\ phase = "collect" /\ i \in InState("broken")
    /\ phase' = "failing"
    /\ UNCHANGED <<request, scan, todo, cmdLine, results>>

CollectEnds ==
    /\ phase = "collect" /\ InState("collected") = DOMAIN jobs
    /\ phase' = "shutdown"
    /\ UNCHANGED <<request, scan, todo, cmdLine, results>>

\* The executor waits for all the jobs, those in the queue included
Shutdown ==
    /\ phase \in {"shutdown", "failing"}
    /\ InState("queued") \cup InState("running") = {}
    /\ phase' = IF phase = "failing" THEN "raised" ELSE "done"
    /\ cleaned' = (phase = "shutdown" /\ cleanup)
    /\ UNCHANGED <<request, scan, todo, cmdLine, jobs, exit, cleanup>>

-----------------------------------------------------------------------------
LineNext ==
    \/ Character \/ Prepend \/ Extend \/ Keep \/ ReadFile \/ Include \/ ExpandFails
    \/ PassOn \/ Schedule \/ CollectEnds \/ Shutdown
    \/ \E i \in DOMAIN jobs :
         JobStarts(i) \/ JobEnds(i) \/ JobBreaks(i) \/ Collect(i) \/ CollectFails(i)

LineSpec == LineInit /\ [][LineNext]_lineVars

-----------------------------------------------------------------------------
(* What must hold                                                          *)

\* CommandLineTokenizer takes a text apart into the words that were written,
\* whatever blanks, quotation marks and backslashes they hold.  One thing is
\* lost: a last word that is empty.
TokensAreRight ==
    Scanned => LET n == Len(scan.words)
               IN  Tokens(scan) = IF n > 0 /\ scan.words[n] = <<>>
                                  THEN Front(scan.words) ELSE scan.words

\* The words that the compiler of a job sees.  It reads CL and _CL_ itself:
\* processDirect does not hand on the environment without them.
Seen(i) == IF request.direct THEN request.CL \o jobs[i].cmd \o request._CL_ ELSE jobs[i].cmd

\* A word that could be a source or an option, or a parameter: the filter
\* goes by its text alone
Ambiguous ==
    LET sources == {s.file : s \in ToSet(Sources(Parsed(cmdLine)))}
    IN  \/ \E f \in sources : f[1] \in {"/", "-"}
        \/ \E i \in 2 .. Len(cmdLine) :
             /\ Len(cmdLine[i - 1]) = 2 /\ cmdLine[i - 1][1] \in {"/", "-"}
             /\ cmdLine[i - 1][2] \in Spaced \ {"Tc", "Tp"}
             /\ cmdLine[i] \in sources \/ \E a \in Skipped \cup {MP} : IsPrefix(a, cmdLine[i])

Switches(p) == {o \in ToSet(p.options) : o.name \notin {<<"Tc">>, <<"Tp">>, <<"MP">>}}

\* The words of a variable make sense by themselves and name no source and no
\* response file
Separate(words) ==
    /\ \A w \in ToSet(words) : w # <<>> /\ w[1] # "@"
    /\ LET p == Parsed(words) IN p.error = "none" /\ Sources(p) = <<>>

\* ... and so do the words before those of _CL_: the last is not an option that
\* awaits a parameter
Ready == Parsed(SubSeq(cmdLine, 1, Len(cmdLine) - Len(request._CL_))).error = "none"

\* scheduleJobs cuts a command line with several sources into commands of
\* one source each.  Analysed again, the command of each job names its own
\* source in its own language and no other, and has all the options of the
\* whole command line and no others.  No parameter may be spelled like a source,
\* nor a source like an option; and in direct mode, where the compiler reads them
\* again, CL and _CL_ must make sense by themselves and name no source.
JobsAreRight ==
    /\ jobs # <<>> /\ ~Ambiguous
    /\ request.direct => Separate(request.CL) /\ Separate(request._CL_) /\ Ready
    =>
      LET whole == Parsed(cmdLine)
      IN  /\ Len(jobs) = Len(Sources(whole))
          /\ \A i \in DOMAIN jobs :
               LET p == Parsed(Seen(i))
               IN  /\ p.error = "none" /\ Switches(p) = Switches(whole)
                   /\ Sources(p) = <<Sources(whole)[i]>>

\* The exit code of a parallel build.  It is 0 only if every source compiled,
\* and then the cleanup that any job asked for has been done.  No job is left
\* behind, whether the loop over the results ended early or not; and the
\* program raises only when a job's result cannot be used.
ExitCodeIsRight ==
    /\ phase = "done" =>
         /\ InState("queued") \cup InState("running") = {}
         /\ exit = 0 <=> \A i \in DOMAIN jobs : jobs[i].state # "broken" /\ jobs[i].rc = 0
         /\ exit = 0 /\ (\E i \in DOMAIN jobs : jobs[i].cleanup) => cleaned
    /\ phase = "raised" /\ jobs # <<>> => InState("broken") # {}
=============================================================================
