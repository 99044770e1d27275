--------------------------- MODULE MemcacheClient ---------------------------
(***************************************************************************)
(* The clients of memcached: the connection to each server, the            *)
(* bookkeeping of the servers that fail, and the calls that the cache      *)
(* makes through them.                                                     *)
(*                                                                         *)
(* One server is asked directly, and what is to be done for several keys   *)
(* is sent at once.  Several servers share the keys: each key belongs to   *)
(* one of them, found by rendezvous hashing of their host names.  A server *)
(* that fails is left alone for a while, and one that fails RetryAttempts  *)
(* times is taken for dead.  The process is single threaded; the servers,  *)
(* the network and the clock do as they please.                            *)
(*                                                                         *)
(* An answer is a line, with the values of the keys that were asked for.   *)
(* flush_all is one of the ways in which a server forgets.                 *)
(***************************************************************************)
EXTENDS Naturals, Sequences, SequencesExt

CONSTANTS
    Key, Value, Nothing,
    Host, Port,
    Configured,     \* the lists of servers that may be configured
    Score,          \* murmur3_32 of a host name and a key
    RetryAttempts,
    KeyList,        \* bound: the lists of keys of a call
    MaxCopies       \* bound: equal requests that may be under way at once

Server == [host : Host, port : Port]

Request == [op : {"get", "set", "append", "touch"}, keys : (SUBSET Key) \ {{}},
            value : Value \cup {Nothing}, copy : 1..MaxCopies]

ASSUME ClientAssumption ==
    /\ Configured \subseteq Seq(Server) \ {<<>>}
    /\ KeyList \subseteq Seq(Key) \ {<<>>} /\ \A q \in KeyList : IsInjective(q)
    /\ Score \in [Host -> [Key -> Nat]]
    /\ (Host \X Port) \cap Host = {}
    /\ Nothing \notin Value \cup Request
    /\ RetryAttempts \in Nat \ {0} /\ MaxCopies \in Nat \ {0}

VARIABLES
    memory,     \* the servers: what is stored under each key
    late,       \* stores that were sent over connections the client has closed

    sock,       \* the servers to which there is a connection
    cut,        \* of these, those whose other end is gone
    toServer,   \* what was sent over the connection and is not yet dealt with
    toClient,   \* what was answered and is not yet read

    servers,    \* the servers that are configured
    nodes,      \* hasher.nodes
    failed,     \* _failed_clients: attempts, and is retry_timeout still running?
    dead,       \* _dead_clients: is dead_timeout still running?
    checked,    \* was it less than dead_timeout ago that the dead were looked at?

    phase,
    call,       \* the requests of the call at hand
    queue,      \* those still to be dealt with, in order
    results,    \* what those that were answered have found
    reply       \* what the last call returned

net   == <<late, sock, cut, toServer, toClient>>
state == <<servers, nodes, failed, dead, checked>>
calls == <<phase, call, queue, results, reply>>
clientVars == <<memory, net, state, calls>>

-----------------------------------------------------------------------------
(* Which server a key belongs to.                                          *)

\* HashClient is used for several servers, Client for one
Hashed == Len(servers) > 1

\* clients: of two servers on one host the last one is kept
clients(n) == servers[CHOOSE i \in DOMAIN servers :
                        /\ servers[i].host = n
                        /\ \A j \in DOMAIN servers : servers[j].host = n => j <= i]

get_node(k) == CHOOSE n \in nodes : \A o \in nodes : Score[o][k] <= Score[n][k]

Home(k) == clients(get_node(k))
Asked(r) == Home(CHOOSE k \in r.keys : TRUE)

\* The name under which remove_server wants to take a server out of the hasher
NodeName(s) == <<s.host, s.port>>

\* get_many asks each server for all its keys at once; the rest is done key by key
Parts(op, keys) ==
    IF op # "get" THEN [i \in DOMAIN keys |-> {keys[i]}]
    ELSE SetToSeq({{k \in Range(keys) : get_node(k) = n} : n \in nodes} \ {{}})

\* What is sent at once
Batch == IF Hashed THEN <<Head(queue)>> ELSE queue

-----------------------------------------------------------------------------
(* What the servers answer, and what the client makes of it.               *)

After(r, d) == [k \in Key |-> IF r.op = "set" /\ k \in r.keys THEN r.value ELSE d[k]]

Line(r, d) ==
    CASE r.op = "get" -> "END"
      [] r.op = "set" -> "STORED"
      [] r.op = "append" -> IF \A k \in r.keys : d[k] # Nothing THEN "STORED" ELSE "NOT_STORED"
      [] r.op = "touch" -> IF \A k \in r.keys : d[k] # Nothing THEN "TOUCHED" ELSE "NOT_FOUND"

Values(r, d) ==
    IF r.op = "get" THEN [k \in {x \in r.keys : d[x] # Nothing} |-> d[k]] ELSE <<>>

AnswerTo(r, d) == [line |-> Line(r, d), values |-> Values(r, d), to |-> r]
Error(m) == [line |-> "ERROR", values |-> <<>>, to |-> m]

\* _fetch_cmd, _store_cmd and _misc_cmd: answers that raise no exception
Understood(r, a) ==
    /\ a.line # "ERROR"
    /\ r.op = "get" => a.line = "END" /\ DOMAIN a.values \subseteq r.keys
    /\ r.op \in {"set", "append"} => a.line \in {"STORED", "NOT_STORED"}

\* The keys that the answer says exist, get's with their values
Found(r, a) ==
    CASE r.op = "get" -> a.values
      [] r.op \in {"set", "append"} -> [k \in r.keys \ {x \in r.keys : a.line # "STORED"} |-> TRUE]
      [] r.op = "touch" -> [k \in r.keys \ {x \in r.keys : a.line # "TOUCHED"} |-> TRUE]

Stores(q) == {r \in Range(q) \ {Nothing} : r.op = "set"}

OnTheWay == (UNION {late[s] \cup Range(toServer[s]) : s \in Server}) \ {Nothing}

-----------------------------------------------------------------------------

ClientInit ==
    /\ memory = [s \in Server |-> [k \in Key |-> Nothing]]
    /\ late = [s \in Server |-> {}] /\ sock = {} /\ cut = {}
    /\ toServer = [s \in Server |-> <<>>] /\ toClient = [s \in Server |-> <<>>]
    /\ servers \in Configured
    /\ nodes = {servers[i].host : i \in DOMAIN servers}
    /\ failed = <<>> /\ dead = <<>> /\ checked = TRUE
    /\ phase = "idle" /\ call = {} /\ queue = <<>> /\ results = <<>> /\ reply = Nothing

(* What client steps are made of.                                          *)

\* Mutant: the connection is kept
KeepOpen(s, sent) == UNCHANGED net

\* close: the server may still find what was sent to it
Close(s, sent) ==
    /\ sock' = sock \ {s} /\ cut' = cut \ {s}
    /\ late' = [late EXCEPT ![s] = @ \cup Stores(sent)]
    /\ toServer' = [toServer EXCEPT ![s] = <<>>]
    /\ toClient' = [toClient EXCEPT ![s] = <<>>]

\* The exception ends the call
Raise == /\ queue' = <<>> /\ phase' = "run"
         /\ UNCHANGED <<call, results, reply>>

\* Mutant: nothing is taken out
All(f, s) == f

Without(f, s) == [x \in DOMAIN f \ {s} |-> f[x]]
With(f, s, v) == [x \in DOMAIN f \cup {s} |-> IF x = s THEN v ELSE f[x]]

\* _mark_failed_server
MarkFailed(s) ==
    /\ failed' = IF ~Hashed THEN failed
                 ELSE With(failed, s, [recent |-> TRUE, attempts |->
                          IF s \in DOMAIN failed THEN failed[s].attempts + 1 ELSE 0])
    /\ UNCHANGED <<servers, nodes, dead, checked>>

-----------------------------------------------------------------------------
(* The client.                                                             *)

\* A call of fetch, fetch_file, exist, store or store_file
BeginCall(op, keys, v) ==
    /\ phase = "idle"
    /\ LET part == Parts(op, keys)
           same(c, K) == [op |-> op, keys |-> K, value |-> v, copy |-> c]
           free(K) == {c \in 1..MaxCopies : same(c, K) \notin OnTheWay}
       IN  /\ \A i \in DOMAIN part : free(part[i]) # {}
           /\ queue' = [i \in DOMAIN part |->
                        same(CHOOSE c \in free(part[i]) : \A d \in free(part[i]) : c <= d, part[i])]
           /\ call' = Range(queue')
    /\ phase' = "run" /\ results' = <<>> /\ reply' = Nothing
    /\ UNCHANGED <<memory, net, state>>

\* A store says what, and exist asks one server by append and several by touch
Call ==
    \E keys \in KeyList :
        \/ BeginCall("get", keys, Nothing)
        \/ BeginCall(IF Hashed THEN "touch" ELSE "append", keys, Nothing)
        \/ \E v \in Value : BeginCall("set", keys, v)

Running == phase = "run" /\ queue # <<>>
Target == Asked(Head(queue))

MustRetryDead == dead # <<>> /\ ~checked

\* _retry_dead, with a new client and its own connection
RetryDead ==
    /\ Running /\ MustRetryDead
    /\ LET back == {s \in DOMAIN dead : ~dead[s]}
       IN  /\ dead' = [s \in DOMAIN dead \ back |-> dead[s]]
           /\ nodes' = nodes \cup {s.host : s \in back}
           /\ sock' = sock \ back /\ cut' = cut \ back
           /\ toServer' = [s \in Server |-> IF s \in back THEN <<>> ELSE toServer[s]]
           /\ toClient' = [s \in Server |-> IF s \in back THEN <<>> ELSE toClient[s]]
    /\ checked' = TRUE
    /\ UNCHANGED <<memory, late, servers, failed, calls>>

Proceeds == Running /\ ~MustRetryDead

\* _safely_run_func, with a server that failed a short while ago
Skip ==
    /\ Proceeds /\ Target \in DOMAIN failed
    /\ failed[Target].attempts < RetryAttempts /\ failed[Target].recent
    /\ queue' = IF Head(queue).op = "get" THEN Tail(queue) ELSE <<>>
    /\ UNCHANGED <<memory, net, state, phase, call, results, reply>>

\* _safely_run_func, with a server that has failed too often.  The hasher knows
\* no node of that name, which raises an exception.  When the dead were last looked
\* at matters from here on
GiveUp ==
    /\ Proceeds /\ Target \in DOMAIN failed
    /\ failed[Target].attempts >= RetryAttempts
    /\ failed' = Without(failed, Target)
    /\ dead' = With(dead, Target, TRUE)
    /\ nodes' = nodes \ {NodeName(Target)}
    /\ checked' \in {checked, FALSE}
    /\ Raise
    /\ UNCHANGED <<memory, net, servers>>

Asks ==
    /\ Proceeds
    /\ Target \in DOMAIN failed =>
         failed[Target].attempts < RetryAttempts /\ ~failed[Target].recent

ConnectFails ==
    /\ Asks /\ Target \notin sock
    /\ MarkFailed(Target) /\ Raise
    /\ UNCHANGED <<memory, net>>

\* A store whose length is a multiple of 1024 is followed by an empty line
Send ==
    /\ Asks
    /\ sock' = sock \cup {Target}
    /\ \E pad \in IF Head(queue).op \in {"set", "append"} THEN {<<>>, <<Nothing>>} ELSE {<<>>} :
          toServer' = IF Target \in cut THEN toServer
                      ELSE [toServer EXCEPT ![Target] = @ \o Batch \o pad]
    /\ phase' = "read"
    /\ UNCHANGED <<memory, late, cut, toClient, state, call, queue, results, reply>>

\* The send times out, or the connection turns out to be gone
SendFails ==
    /\ Asks /\ Target \in sock
    /\ \E n \in 0..Len(Batch) : Close(Target, IF Target \in cut THEN <<>> ELSE SubSeq(Batch, 1, n))
    /\ MarkFailed(Target) /\ Raise
    /\ UNCHANGED memory

\* What is left of the last chunk that was received is thrown away with it
Read ==
    /\ phase = "read" /\ toClient[Target] # <<>>
    /\ LET r == Head(queue)
           a == Head(toClient[Target])
           rest == Tail(toClient[Target])
           found == Found(r, a)
           last == Hashed \/ Len(queue) = 1
       IN  /\ Understood(r, a)
           /\ results' = With(results, r, found)
           /\ queue' = IF Hashed /\ r.op # "get" /\ DOMAIN found # r.keys
                       THEN <<>> ELSE Tail(queue)
           /\ IF last
              THEN /\ phase' = "run" /\ failed' = Without(failed, Target)
                   /\ \E n \in 0..Len(rest) :
                        toClient' = [toClient EXCEPT ![Target] = SubSeq(rest, n + 1, Len(rest))]
              ELSE /\ toClient' = [toClient EXCEPT ![Target] = rest]
                   /\ UNCHANGED <<phase, failed>>
    /\ UNCHANGED <<memory, late, sock, cut, toServer, servers, nodes, dead, checked, call, reply>>

\* An error, an answer to something else, or the end of the stream
ReadFails ==
    /\ phase = "read"
    /\ IF toClient[Target] = <<>> THEN Target \in cut
       ELSE ~Understood(Head(queue), Head(toClient[Target]))
    /\ Close(Target, toServer[Target]) /\ Raise
    /\ UNCHANGED <<memory, state>>

\* socket.timeout and the other errors of a socket
ReadTimesOut ==
    /\ phase = "read" /\ toClient[Target] = <<>>
    /\ Close(Target, toServer[Target]) /\ MarkFailed(Target) /\ Raise
    /\ UNCHANGED memory

\* Nothing stands for the default, for False and for the exception that retry catches
Return ==
    /\ phase = "run" /\ queue = <<>>
    /\ reply' = IF /\ DOMAIN results = call
                   /\ \A r \in call : DOMAIN results[r] = r.keys
                THEN results ELSE Nothing
    /\ phase' = "idle" /\ call' = {} /\ results' = <<>>
    /\ UNCHANGED <<memory, net, state, queue>>

-----------------------------------------------------------------------------
(* The servers, the network and the clock.                                 *)

Serve(s) ==
    /\ toServer[s] # <<>>
    /\ LET m == Head(toServer[s])
       IN  /\ toServer' = [toServer EXCEPT ![s] = Tail(@)]
           /\ \/ /\ m # Nothing
                 /\ memory' = [memory EXCEPT ![s] = After(m, @)]
                 /\ toClient' = [toClient EXCEPT ![s] = Append(@, AnswerTo(m, memory[s]))]
              \/ /\ toClient' = [toClient EXCEPT ![s] = Append(@, Error(m))]
                 /\ UNCHANGED memory
    /\ UNCHANGED <<late, sock, cut, state, calls>>

ServeLate(s, r) ==
    /\ r \in late[s]
    /\ late' = [late EXCEPT ![s] = @ \ {r}]
    /\ \/ memory' = [memory EXCEPT ![s] = After(r, @)]
       \/ UNCHANGED memory
    /\ UNCHANGED <<sock, cut, toServer, toClient, state, calls>>

ForgetKey(s, k) ==
    /\ memory[s][k] # Nothing
    /\ memory' = [memory EXCEPT ![s][k] = Nothing]
    /\ UNCHANGED <<net, state, calls>>

\* The other end of the connection goes; what it has answered may still arrive
Hangup(s) ==
    /\ cut' = cut \cup ({s} \cap sock)
    /\ toServer' = [toServer EXCEPT ![s] = <<>>]
    /\ \E q \in {<<>>, toClient[s]} : toClient' = [toClient EXCEPT ![s] = q]

\* A server that is not running is one to which connecting fails
Restart(s) ==
    /\ memory' = [memory EXCEPT ![s] = [k \in Key |-> Nothing]]
    /\ Hangup(s)
    /\ late' = [late EXCEPT ![s] = {}]
    /\ UNCHANGED <<sock, state, calls>>

Disconnect(s) ==
    /\ s \in sock \ cut /\ Hangup(s)
    /\ late' = [late EXCEPT ![s] = @ \cup Stores(toServer[s])]
    /\ UNCHANGED <<memory, sock, state, calls>>

RetryTimeout(s) ==
    /\ s \in DOMAIN failed /\ failed[s].recent
    /\ failed' = [failed EXCEPT ![s].recent = FALSE]
    /\ UNCHANGED <<memory, net, servers, nodes, dead, checked, calls>>

DeadTimeout ==
    /\ dead # <<>> /\ (checked \/ \E s \in DOMAIN dead : dead[s])
    /\ checked' = FALSE
    /\ dead' = [s \in DOMAIN dead |-> FALSE]
    /\ UNCHANGED <<memory, net, servers, nodes, failed, calls>>

-----------------------------------------------------------------------------

Client == RetryDead \/ Skip \/ GiveUp \/ ConnectFails \/ Send \/ SendFails
          \/ Read \/ ReadFails \/ ReadTimesOut \/ Return

Environment(s) ==
    \/ Serve(s) \/ (\E r \in late[s] : ServeLate(s, r))
    \/ (\E k \in Key : ForgetKey(s, k))
    \/ Restart(s) \/ Disconnect(s) \/ RetryTimeout(s)

ClientNext == Call \/ Client \/ DeadTimeout \/ \E n \in nodes : Environment(clients(n))

ClientSpec == ClientInit /\ [][ClientNext]_clientVars

(* The process runs; a time-out ends; and a server that is up answers or   *)
(* closes the connection, if only after the client's patience has ended.   *)
Fairness ==
    /\ WF_clientVars(Client)
    /\ WF_clientVars(DeadTimeout)
    /\ \A n \in Host : /\ WF_clientVars(n \in nodes /\ Serve(clients(n)))
                       /\ WF_clientVars(n \in nodes /\ RetryTimeout(clients(n)))

ClientFairSpec == ClientSpec /\ Fairness

-----------------------------------------------------------------------------

\* Requests that are not sent yet
Unsent == IF phase = "run" THEN Range(queue)
          ELSE IF phase = "read" /\ Hashed THEN Range(Tail(queue)) ELSE {}

\* Answers to the call at hand that the client has not read
Coming == {a \in UNION {Range(toClient[s]) : s \in Server} : a.line # "ERROR" /\ a.to \in call}

Heard == [r \in DOMAIN results \cup {a.to : a \in Coming} |->
            IF r \in DOMAIN results THEN results[r]
            ELSE Found(r, CHOOSE a \in Coming : a.to = r)]

Promise == INSTANCE KeyValueCalls WITH
    Copy <- 1..MaxCopies, None <- Nothing,
    data <- [k \in Key |-> memory[Home(k)][k]],
    asked <- OnTheWay \cup Unsent,
    answer <- Heard

(* The clients keep the promise of KeyValueCalls.  A request takes effect   *)
(* at most once.  What a call returns was said of its own keys, by the one  *)
(* server that each key belongs to, after the call began - whatever was     *)
(* left on a connection by a call that failed, by a time-out, by a server   *)
(* that refused something, or by the empty line after some of the stores.   *)
KeepsPromise == Promise!Spec

(* A server is not left alone for ever.  Once no call to it runs into       *)
(* trouble any more, and as long as the process asks for its keys, it is    *)
(* taken off the list of those that fail, for good.                         *)
IsAsked(n) == Running /\ n \in nodes /\ Target = clients(n)

Trouble(n) ==
    /\ ConnectFails \/ SendFails \/ ReadFails \/ ReadTimesOut
    /\ n \in nodes /\ Target = clients(n)

LeftAlone(n) == n \in nodes /\ clients(n) \in DOMAIN failed

ServersRecover ==
    \A n \in Host :
        <>[][~Trouble(n)]_clientVars /\ []<>IsAsked(n) => <>[]~LeftAlone(n)
=============================================================================
