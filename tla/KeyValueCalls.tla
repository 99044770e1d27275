---------------------------- MODULE KeyValueCalls ----------------------------
(***************************************************************************)
(* What the clients of memcached promise to the cache: calls, one at a     *)
(* time, each made of requests about keys.                                 *)
(*                                                                         *)
(* A request takes effect at most once, and may do so long after its call  *)
(* has ended.  A call that succeeds returns what each of its own requests  *)
(* found when it took effect; a call that fails returns None, which says   *)
(* nothing.  The servers may forget a key at any time.                     *)
(***************************************************************************)
EXTENDS Naturals, Functions

CONSTANTS Key, Value, Copy, None

VARIABLES
    data,   \* what is stored under each key
    asked,  \* requests that may still take effect
    call,   \* the requests of the call that is being made, {} when there is none
    answer, \* what those that took effect have found
    reply   \* what the last call returned

vars == <<data, asked, call, answer, reply>>

Request == [op : {"get", "set", "append", "touch"}, keys : (SUBSET Key) \ {{}},
            value : Value \cup {None}, copy : Copy]

After(r, d) == [k \in DOMAIN d |-> IF r.op = "set" /\ k \in r.keys THEN r.value ELSE d[k]]

\* The keys that exist once r has taken effect; a get returns their values
Outcome(r, d) ==
    [k \in {x \in r.keys : After(r, d)[x] # None} |-> IF r.op = "get" THEN d[k] ELSE TRUE]

Succeeded(r, found) == DOMAIN found = r.keys

TypeOK ==
    /\ data \in [Key -> Value \cup {None}]
    /\ asked \subseteq Request /\ call \subseteq Request
    /\ DOMAIN answer \subseteq call

Init ==
    /\ data = [k \in Key |-> None]
    /\ asked = {} /\ call = {} /\ answer = <<>> /\ reply = None

Ask ==
    /\ call = {} /\ call' # {}
    /\ call' \subseteq Request \ asked
    /\ asked' = asked \cup call' /\ reply' = None
    /\ UNCHANGED <<data, answer>>

\* The answer of a request of the call at hand may reach it
Serve(r) ==
    /\ asked' = asked \ {r}
    /\ data' = After(r, data)
    /\ \/ UNCHANGED answer
       \/ /\ r \in call
          /\ answer' = [q \in DOMAIN answer \cup {r} |->
                            IF q = r THEN Outcome(r, data) ELSE answer[q]]
    /\ UNCHANGED <<call, reply>>

\* Requests, answers and what is stored are lost
Lose ==
    /\ asked' \subseteq asked
    /\ DOMAIN answer' \subseteq DOMAIN answer
    /\ answer' = Restrict(answer, DOMAIN answer')
    /\ \E K \in SUBSET Key : data' = [k \in Key |-> IF k \in K THEN None ELSE data[k]]
    /\ UNCHANGED <<call, reply>>

Return ==
    /\ call # {} /\ call' = {} /\ answer' = <<>>
    /\ \/ reply' = None
       \/ /\ DOMAIN answer = call
          /\ \A r \in call : Succeeded(r, answer[r])
          /\ reply' = answer
    /\ UNCHANGED <<data, asked>>

Next == Ask \/ (\E r \in asked : Serve(r)) \/ Lose \/ Return

Spec == Init /\ [][Next]_vars
=============================================================================
