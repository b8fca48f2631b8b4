---------------------------- MODULE Idempotency ----------------------------
(***************************************************************************)
(* The idempotent replay of POST requests (internal/api/idempotency.go)    *)
(* over its two stores: a bounded map per daemon, or a Postgres table that *)
(* the replicas share (internal/coordination); the lock per key that       *)
(* coalesces concurrent duplicates on one node; and the index of recent    *)
(* probe runs an answered POST refers to (internal/api/runs.go).           *)
(*                                                                         *)
(* A call is one HTTP request with an Idempotency-Key.  A key stands for   *)
(* idemKey: calls with one key repeat the same method, path and body.  An  *)
(* answer below 500 is the number of the execution that gave it, which is  *)
(* the id of the probe run too.  A record expires by an action of its own. *)
(***************************************************************************)
EXTENDS Integers, Sequences, FiniteSets, SequencesExt

CONSTANTS
    Nodes,          \* the daemons
    Calls,          \* the requests
    Keys,           \* the idempotency keys
    Targets,        \* the node and the key that each request may have
    Backends,       \* whether the store is Postgres: a set of BOOLEAN
    MaxEntries,     \* memoryIdempotency.max: 4096
    MaxIndexed,     \* runIndex.max: 256
    MaxExpiries,    \* bound: records that expire
    MaxFailures     \* bound: clients that give up, and 5xx answers

ASSUME IdempotencyAssumption ==
    /\ Nodes # {} /\ Keys # {}
    /\ Targets \in [Calls -> SUBSET (Nodes \X Keys)]
    /\ Backends \subseteq BOOLEAN
    /\ {MaxEntries, MaxIndexed} \subseteq Nat \ {0}
    /\ {MaxExpiries, MaxFailures} \subseteq Nat

CONSTANT NoCall, Postgres
ASSUME NoValueAssumption == NoCall \notin Calls /\ Postgres \notin Nodes

VARIABLES
    shared,     \* the store is Postgres
    recs,       \* per store: the answer recorded for each key, or 0
    expired,    \* per store: the recorded keys that have expired
    order,      \* per node: memoryIdempotency.order
    locks,      \* per node: keyMutex.locks, the lock of each key, or 0
    refs,       \* the references to each lock ever made
    holder,     \* the call that holds it
    index,      \* per node: runIndex.order, which lists the keys of byID
    call,       \* what each call is: its node, its key, where it is, its lock, the answer it stores
    gone,       \* the calls whose client has given up
    runs,       \* history: the executions that answered below 500: node and key
    lost,       \* history: the keys a record of which expired, was evicted or not stored
    budget      \* expiries and failures left

vars == <<shared, recs, expired, order, locks, refs, holder, index, call, gone, runs, lost, budget>>
storeVars == <<shared, recs, expired, order>>
lockVars  == <<locks, refs, holder>>

Stores == Nodes \cup {Postgres}
StoreOf(n) == IF shared THEN Postgres ELSE n

NewCall == [at |-> "new", node |-> CHOOSE n \in Nodes : TRUE, key |-> CHOOSE k \in Keys : TRUE,
            lock |-> 0, answer |-> 0]

Init ==
    /\ shared \in Backends
    /\ recs = [s \in Stores |-> [k \in Keys |-> 0]]
    /\ expired = [s \in Stores |-> {}]
    /\ order = [n \in Nodes |-> <<>>]
    /\ locks = [n \in Nodes |-> [k \in Keys |-> 0]]
    /\ refs = <<>>
    /\ holder = <<>>
    /\ index = [n \in Nodes |-> <<>>]
    /\ call = [c \in Calls |-> NewCall]
    /\ gone = {}
    /\ runs = <<>>
    /\ lost = {}
    /\ budget = [expiries |-> MaxExpiries, failures |-> MaxFailures]

-----------------------------------------------------------------------------
(* The store. *)

Found(n, k) == recs[StoreOf(n)][k] # 0 /\ k \notin expired[StoreOf(n)]

(* Get: an expired record is not found; the map deletes it, and leaves its *)
(* key in the order.                                                       *)
Get(n, k) ==
    IF ~shared /\ k \in expired[n]
    THEN /\ recs' = [recs EXCEPT ![n][k] = 0]
         /\ expired' = [expired EXCEPT ![n] = @ \ {k}]
    ELSE UNCHANGED <<recs, expired>>

(* A record outlives its TTL. *)
Expire(s, k) ==
    /\ recs[s][k] # 0 /\ k \notin expired[s]
    /\ budget.expiries > 0
    /\ budget' = [budget EXCEPT !.expiries = @ - 1]
    /\ expired' = [expired EXCEPT ![s] = @ \cup {k}]
    /\ lost' = lost \cup {k}
    /\ UNCHANGED <<shared, recs, order, lockVars, index, call, gone, runs>>

Queued(n, k) == IF recs[n][k] = 0 THEN Append(order[n], k) ELSE order[n]

(* A plausible bug: the cap is never enforced. *)
PutUncapped(n, k, answer) ==
    /\ order' = [order EXCEPT ![n] = Queued(n, k)]
    /\ recs' = [recs EXCEPT ![n][k] = answer]
    /\ expired' = [expired EXCEPT ![n] = @ \ {k}]
    /\ lost' = lost

(* Put of the map: the order is never longer than the cap, so one key goes *)
(* at most, the one at its head: it may be k itself, queued before its     *)
(* record expired.                                                         *)
PutMemory(n, k, answer) ==
    LET queue   == Queued(n, k)
        full    == Len(queue) > MaxEntries
        evicted == IF full THEN {Head(queue)} ELSE {}
    IN  /\ order' = [order EXCEPT ![n] = IF full THEN Tail(queue) ELSE queue]
        /\ recs' = [recs EXCEPT ![n] = [j \in Keys |-> IF j \in evicted THEN 0
                                                       ELSE IF j = k THEN answer ELSE @[j]]]
        /\ expired' = [expired EXCEPT ![n] = @ \ (evicted \cup {k})]
        /\ lost' = lost \cup evicted

(* Put of the table, with the request's context: nothing is stored when    *)
(* that is over, and the error is ignored.                                 *)
PutPostgres(c, k, answer) ==
    /\ order' = order
    /\ IF c \in gone
       THEN UNCHANGED <<recs, expired>> /\ lost' = lost \cup {k}
       ELSE /\ recs' = [recs EXCEPT ![Postgres][k] = answer]
            /\ expired' = [expired EXCEPT ![Postgres] = @ \ {k}]
            /\ lost' = lost

-----------------------------------------------------------------------------
(* A call, from its arrival to its answer. *)

At(c, place) == call[c].at = place
Goes(c, place) == call' = [call EXCEPT ![c].at = place]

(* Replay the record, or go on.  Postgres answers a context that is over   *)
(* with an error, which is taken for a miss.                               *)
LookUp(c, n, k, hit, miss) ==
    /\ Get(n, k)
    /\ IF Found(n, k) /\ ~(shared /\ c \in gone)
       THEN /\ call' = [call EXCEPT ![c] = [@ EXCEPT !.at = hit, !.node = n, !.key = k]]
            /\ lost' = lost
       ELSE /\ call' = [call EXCEPT ![c] = [@ EXCEPT !.at = miss, !.node = n, !.key = k]]
            /\ lost' = IF Found(n, k) THEN lost \cup {k} ELSE lost

(* The first Get. *)
Arrive(c, n, k) ==
    /\ At(c, "new")
    /\ LookUp(c, n, k, "done", "join")
    /\ UNCHANGED <<shared, order, lockVars, index, gone, runs, budget>>

(* keyMutex.lock, up to the lock itself. *)
Join(c) ==
    /\ At(c, "join")
    /\ LET n == call[c].node
           k == call[c].key
           l == IF locks[n][k] = 0 THEN Len(refs) + 1 ELSE locks[n][k]
       IN  /\ locks' = [locks EXCEPT ![n][k] = l]
           /\ refs' = IF locks[n][k] = 0 THEN Append(refs, 1) ELSE [refs EXCEPT ![l] = @ + 1]
           /\ holder' = IF locks[n][k] = 0 THEN Append(holder, NoCall) ELSE holder
           /\ call' = [call EXCEPT ![c].at = "wait", ![c].lock = l]
    /\ UNCHANGED <<storeVars, index, gone, runs, lost, budget>>

Acquire(c) ==
    /\ At(c, "wait")
    /\ holder[call[c].lock] = NoCall
    /\ holder' = [holder EXCEPT ![call[c].lock] = c]
    /\ Goes(c, "check")
    /\ UNCHANGED <<storeVars, locks, refs, index, gone, runs, lost, budget>>

(* The second Get, under the lock. *)
Check(c) ==
    /\ At(c, "check")
    /\ LookUp(c, call[c].node, call[c].key, "unlock", "run")
    /\ UNCHANGED <<shared, order, lockVars, index, gone, runs, budget>>

(* A plausible bug: the index is cut before it is full. *)
IndexedShort(n, id) ==
    LET queue == Append(index[n], id)
    IN  IF Len(queue) >= MaxIndexed THEN Tail(queue) ELSE queue

(* runIndex.put. *)
Indexed(n, id) ==
    LET queue == Append(index[n], id)
    IN  IF Len(queue) > MaxIndexed THEN Tail(queue) ELSE queue

(* What GET /v1/probes/runs/{run_id} finds on a node. *)
GetRun(n, id) == id \in Range(index[n])

(* The handler answers below 500; a probe run is indexed on its node. *)
Execute(c) ==
    /\ At(c, "run")
    /\ LET n == call[c].node
           id == Len(runs) + 1
       IN  /\ runs' = Append(runs, [node |-> n, key |-> call[c].key])
           /\ index' = [index EXCEPT ![n] = Indexed(n, id)]
           /\ call' = [call EXCEPT ![c].at = "put", ![c].answer = id]
    /\ UNCHANGED <<storeVars, lockVars, gone, lost, budget>>

(* A plausible bug: the error path returns with the lock. *)
ExecuteErrorLocked(c) ==
    /\ At(c, "run")
    /\ budget.failures > 0
    /\ budget' = [budget EXCEPT !.failures = @ - 1]
    /\ Goes(c, "done")
    /\ UNCHANGED <<storeVars, lockVars, index, gone, runs, lost>>

(* It answers with a 5xx, or panics: nothing is stored. *)
ExecuteError(c) ==
    /\ At(c, "run")
    /\ budget.failures > 0
    /\ budget' = [budget EXCEPT !.failures = @ - 1]
    /\ Goes(c, "unlock")
    /\ UNCHANGED <<storeVars, lockVars, index, gone, runs, lost>>

Put(c) ==
    /\ At(c, "put")
    /\ IF shared THEN PutPostgres(c, call[c].key, call[c].answer)
                 ELSE PutMemory(call[c].node, call[c].key, call[c].answer)
    /\ call' = [call EXCEPT ![c].at = "unlock", ![c].answer = 0]
    /\ UNCHANGED <<shared, lockVars, index, gone, runs, budget>>

(* A plausible bug: the reference is given back here too. *)
UnlockTwice(c) ==
    /\ At(c, "unlock")
    /\ LET l == locks[call[c].node][call[c].key]
       IN  /\ holder' = [holder EXCEPT ![l] = NoCall]
           /\ refs' = [refs EXCEPT ![l] = @ - 1]
    /\ Goes(c, "release")
    /\ UNCHANGED <<storeVars, locks, index, gone, runs, lost, budget>>

(* keyMutex.unlock: the lock that the map has for the key. *)
Unlock(c) ==
    /\ At(c, "unlock")
    /\ LET l == locks[call[c].node][call[c].key]
       IN  /\ holder' = [holder EXCEPT ![l] = NoCall]
           /\ call' = [call EXCEPT ![c].at = "release", ![c].lock = l]
    /\ UNCHANGED <<storeVars, locks, refs, index, gone, runs, lost, budget>>

(* A plausible bug: whoever is done deletes the lock. *)
ReleaseEager(c) ==
    /\ At(c, "release")
    /\ LET l == call[c].lock
       IN  /\ refs' = [refs EXCEPT ![l] = @ - 1]
           /\ locks' = [locks EXCEPT ![call[c].node][call[c].key] = 0]
    /\ Goes(c, "done")
    /\ UNCHANGED <<storeVars, holder, index, gone, runs, lost, budget>>

(* A plausible bug: the map keeps every lock. *)
ReleaseLeaky(c) ==
    /\ At(c, "release")
    /\ refs' = [refs EXCEPT ![call[c].lock] = @ - 1]
    /\ Goes(c, "done")
    /\ UNCHANGED <<storeVars, locks, holder, index, gone, runs, lost, budget>>

(* ... and the reference to it: the last one removes the lock. *)
Release(c) ==
    /\ At(c, "release")
    /\ LET l == call[c].lock
       IN  /\ refs' = [refs EXCEPT ![l] = @ - 1]
           /\ locks' = [locks EXCEPT ![call[c].node][call[c].key] = IF refs[l] = 1 THEN 0 ELSE @]
    /\ call' = [call EXCEPT ![c].at = "done", ![c].lock = 0]
    /\ UNCHANGED <<storeVars, holder, index, gone, runs, lost, budget>>

(* The client gives up, or the 60 seconds of a request are over: its       *)
(* context ends and its handler does not.                                  *)
GiveUp(c) ==
    /\ c \notin gone
    /\ call[c].at \notin {"new", "done"}
    /\ budget.failures > 0
    /\ budget' = [budget EXCEPT !.failures = @ - 1]
    /\ gone' = gone \cup {c}
    /\ UNCHANGED <<storeVars, lockVars, index, call, runs, lost>>

Serve(c) ==
    \/ Join(c) \/ Acquire(c) \/ Check(c) \/ Execute(c) \/ ExecuteError(c)
    \/ Put(c) \/ Unlock(c) \/ Release(c)

Next ==
    \/ \E c \in Calls :
           \/ \E t \in Targets[c] : Arrive(c, t[1], t[2])
           \/ Serve(c)
           \/ GiveUp(c)
    \/ \E s \in Stores, k \in Keys : Expire(s, k)

Spec == Init /\ [][Next]_vars

(* Handlers end, the probes' requests by their timeouts; a mutex does not  *)
(* starve a waiter.                                                        *)
Fairness ==
    \A c \in Calls : SF_vars(Acquire(c)) /\ WF_vars(Serve(c))

FairSpec == Spec /\ Fairness

-----------------------------------------------------------------------------
Places == {"new", "join", "wait", "check", "run", "put", "unlock", "release", "done"}

TypeOK ==
    /\ shared \in BOOLEAN
    /\ recs \in [Stores -> [Keys -> 0..Len(runs)]]
    /\ expired \in [Stores -> SUBSET Keys]
    /\ \A s \in Stores : \A k \in expired[s] : recs[s][k] # 0
    /\ order \in [Nodes -> Seq(Keys)]
    /\ locks \in [Nodes -> [Keys -> 0..Len(refs)]]
    /\ refs \in Seq(Nat)
    /\ holder \in [DOMAIN refs -> Calls \cup {NoCall}]
    /\ index \in [Nodes -> Seq(1..Len(runs))]
    /\ call \in [Calls -> [at : Places, node : Nodes, key : Keys, lock : 0..Len(refs),
                           answer : 0..Len(runs)]]
    /\ gone \subseteq Calls
    /\ runs \in Seq([node : Nodes, key : Keys])
    /\ lost \subseteq Keys
    /\ budget \in [expiries : Nat, failures : Nat]

(* "Concurrent duplicates [...] find the cached result to replay instead   *)
(* of re-executing" (idempotency.go, KI-29): on one node a key is executed *)
(* once, unless its record was lost: it expired, a full map evicted it, or *)
(* Postgres was asked with a context that was over.                        *)
OncePerNode ==
    \A n \in Nodes, k \in Keys :
        k \notin lost => Cardinality({i \in DOMAIN runs : runs[i] = [node |-> n, key |-> k]}) <= 1

(* "each lock is removed once no request references it": the lock of a key *)
(* is in the map exactly while calls are between their join and their      *)
(* release; those all share it, and it counts as many references.          *)
LocksReferenced ==
    \A n \in Nodes, k \in Keys :
        LET users == {c \in Calls : /\ call[c].at \in {"wait", "check", "run", "put", "unlock", "release"}
                                    /\ call[c].node = n /\ call[c].key = k}
        IN  /\ locks[n][k] = 0 <=> users = {}
            /\ \A c \in users : call[c].lock = locks[n][k]
            /\ users # {} => refs[locks[n][k]] = Cardinality(users)

(* "a hard FIFO cap [...] so a burst of distinct keys cannot exhaust       *)
(* memory": whatever expires in between, neither the map nor its order     *)
(* outgrows the cap.                                                       *)
CapHeld ==
    \A n \in Nodes :
        /\ Len(order[n]) <= MaxEntries
        /\ {k \in Keys : recs[n][k] # 0} \subseteq Range(order[n])

(* A run that a POST answered with can be fetched from its node until it   *)
(* has indexed MaxIndexed later ones.                                      *)
RunFound ==
    \A i \in DOMAIN runs :
        \/ GetRun(runs[i].node, i)
        \/ Cardinality({j \in DOMAIN runs : j > i /\ runs[j].node = runs[i].node}) >= MaxIndexed

(* Every call that arrives is answered: the lock of its key is free again  *)
(* sooner or later, whatever the calls before it met.                      *)
CallsAnswered == \A c \in Calls : At(c, "join") ~> At(c, "done")
=============================================================================
