------------------------- MODULE IdempotencyProofs -------------------------
(* Theorems about Idempotency: any number of daemons, calls and keys, any  *)
(* limits, both stores, any expiries and failures.                         *)
EXTENDS Idempotency, FiniteSetTheorems, SequenceTheorems, TLAPS

(***************************************************************************)
(* The inductive invariant.                                                *)
(***************************************************************************)

Using(c) == call[c].at \in {"wait", "check", "run", "put", "unlock", "release"}
Inside(c) == call[c].at \in {"check", "run", "put", "unlock"}
Users(l) == {c \in Calls : Using(c) /\ call[c].lock = l}

(* Two keys never share a lock. *)
LocksDistinct ==
    \A n, m \in Nodes, k, j \in Keys :
        locks[n][k] # 0 /\ locks[n][k] = locks[m][j] => n = m /\ k = j

(* A call that counts on a lock counts on the one that the map has. *)
LockOfUser ==
    \A c \in Calls :
        Using(c) => call[c].lock # 0 /\ call[c].lock = locks[call[c].node][call[c].key]

LockInUse ==
    \A n \in Nodes, k \in Keys :
        locks[n][k] # 0 => \E c \in Calls : Using(c) /\ call[c].node = n /\ call[c].key = k

(* keyLock.refs counts the calls between their join and their release. *)
RefsCounted ==
    \A l \in DOMAIN refs : IsFiniteSet(Users(l)) /\ refs[l] = Cardinality(Users(l))

HolderInside ==
    \A l \in DOMAIN refs, c \in Calls : holder[l] = c <=> Inside(c) /\ call[c].lock = l

LockInv == LocksDistinct /\ LockOfUser /\ LockInUse /\ RefsCounted /\ HolderInside

(* Whoever executes found no answer, and nobody else is ahead of it. *)
RunsAreFirst ==
    \A c \in Calls :
        /\ call[c].at = "run" /\ call[c].key \notin lost
        => \A i \in DOMAIN runs : runs[i] # [node |-> call[c].node, key |-> call[c].key]

AnswersInHand == \A c \in Calls : call[c].at = "put" => call[c].answer # 0

(* The answer of an execution is found, or about to be stored. *)
RunsRecorded ==
    \A i \in DOMAIN runs :
        runs[i].key \notin lost =>
            \/ Found(runs[i].node, runs[i].key)
            \/ \E c \in Calls : /\ call[c].at = "put"
                                /\ call[c].node = runs[i].node /\ call[c].key = runs[i].key

RunsOnce ==
    \A i, j \in DOMAIN runs : runs[i].key \notin lost /\ runs[i] = runs[j] => i = j

OnceInv == RunsAreFirst /\ AnswersInHand /\ RunsRecorded /\ RunsOnce

(* runIndex lists the last executions of its node, in their order. *)
IndexInv ==
    \A n \in Nodes :
        /\ Len(index[n]) <= MaxIndexed
        /\ \A p \in DOMAIN index[n] : runs[index[n][p]].node = n
        /\ \A p, q \in DOMAIN index[n] : p < q => index[n][p] < index[n][q]

IInv == TypeOK /\ LockInv /\ OnceInv /\ CapHeld /\ IndexInv /\ RunFound

(***************************************************************************)
(* The calls of a step: one moves, the others stay.                        *)
(***************************************************************************)

LEMMA CallType ==
    ASSUME TypeOK, NEW c \in Calls
    PROVE  /\ call[c].at \in Places /\ call[c].node \in Nodes /\ call[c].key \in Keys
           /\ call[c].lock \in Nat /\ call[c].lock \in 0..Len(refs)
           /\ call[c].answer \in Nat /\ call[c].answer \in 0..Len(runs)
           /\ DOMAIN refs = 1..Len(refs) /\ Len(refs) \in Nat
           /\ DOMAIN runs = 1..Len(runs) /\ Len(runs) \in Nat
<1>1. call[c] \in [at : Places, node : Nodes, key : Keys, lock : 0..Len(refs),
                   answer : 0..Len(runs)]
  BY DEF TypeOK
<1>2. Len(refs) \in Nat /\ Len(runs) \in Nat /\ DOMAIN refs = 1..Len(refs) /\ DOMAIN runs = 1..Len(runs)
  BY DEF TypeOK
<1>3. QED
  BY <1>1, <1>2

LEMMA Moves ==
    ASSUME TypeOK, NEW c \in Calls, NEW place \in Places, Goes(c, place)
    PROVE  /\ call' \in [Calls -> [at : Places, node : Nodes, key : Keys, lock : 0..Len(refs),
                                   answer : 0..Len(runs)]]
           /\ call'[c].at = place
           /\ call'[c].node = call[c].node /\ call'[c].key = call[c].key
           /\ call'[c].lock = call[c].lock /\ call'[c].answer = call[c].answer
           /\ \A d \in Calls : d # c => call'[d] = call[d]
BY DEF TypeOK, Goes

LEMMA SeqOfFunction ==
    ASSUME NEW S, NEW n \in Nat, NEW f \in [1..n -> S]
    PROVE  f \in Seq(S) /\ Len(f) = n
BY SeqDef

(***************************************************************************)
(* The lock of each key.                                                   *)
(***************************************************************************)

(* Calls that move outside the lock, or inside it, change nothing. *)
LEMMA LockQuiet ==
    ASSUME LockInv, UNCHANGED lockVars,
           \A c \in Calls :
               /\ Using(c)' <=> Using(c)
               /\ Inside(c)' <=> Inside(c)
               /\ Using(c) => /\ call'[c].lock = call[c].lock /\ call'[c].node = call[c].node
                              /\ call'[c].key = call[c].key
    PROVE  LockInv'
<1>1. \A l : Users(l)' = Users(l)
  BY DEF Users
<1>2. LocksDistinct'
  BY DEF LockInv, LocksDistinct, lockVars
<1>3. LockOfUser'
  BY DEF LockInv, LockOfUser, lockVars
<1>4. LockInUse'
  BY DEF LockInv, LockInUse, lockVars
<1>5. RefsCounted'
  BY <1>1 DEF LockInv, RefsCounted, lockVars
<1>6. HolderInside'
  <2>1. \A c : Inside(c) => Using(c)
    BY DEF Inside, Using
  <2>2. QED
    BY <2>1 DEF LockInv, HolderInside, lockVars
<1>7. QED
  BY <1>2, <1>3, <1>4, <1>5, <1>6 DEF LockInv

(* Everyone that uses a lock uses it for the same key. *)
LEMMA OneKeyPerLock ==
    ASSUME TypeOK, LockInv, NEW c \in Calls, NEW d \in Calls, Using(c), Using(d),
           call[c].lock = call[d].lock
    PROVE  call[c].node = call[d].node /\ call[c].key = call[d].key
BY CallType DEF LockInv, LockOfUser, LocksDistinct

LEMMA SharedLock ==
    ASSUME TypeOK, LockInv, NEW c \in Calls, NEW d \in Calls, Using(c), Using(d),
           call[c].node = call[d].node, call[c].key = call[d].key
    PROVE  call[c].lock = call[d].lock
BY DEF LockInv, LockOfUser

(* Mutual exclusion: one call of a node and a key is inside. *)
LEMMA OneInside ==
    ASSUME TypeOK, LockInv, NEW c \in Calls, NEW d \in Calls, Inside(c), Inside(d),
           call[c].node = call[d].node, call[c].key = call[d].key
    PROVE  c = d
<1>1. Using(c) /\ Using(d)
  BY DEF Inside, Using
<1>2. call[c].lock = call[d].lock /\ call[c].lock # 0
  BY <1>1, SharedLock DEF LockInv, LockOfUser
<1>3. call[c].lock \in DOMAIN refs
  BY <1>2, CallType
<1>4. holder[call[c].lock] = c /\ holder[call[c].lock] = d
  BY <1>2, <1>3 DEF LockInv, HolderInside
<1>5. QED
  BY <1>4

LEMMA ArriveLocks == ASSUME TypeOK, LockInv, NEW c \in Calls, NEW n, NEW k, Arrive(c, n, k) PROVE LockInv'
<1>1. /\ call[c].at = "new"
      /\ call'[c].at \in {"done", "join"}
      /\ \A d \in Calls : d # c => call'[d] = call[d]
  BY DEF Arrive, LookUp, At, TypeOK
<1>2. \A d \in Calls :
         /\ Using(d)' <=> Using(d)
         /\ Inside(d)' <=> Inside(d)
         /\ Using(d) => d # c
  BY <1>1 DEF Using, Inside
<1>3. UNCHANGED lockVars
  BY DEF Arrive
<1>4. QED
  BY <1>1, <1>2, <1>3, LockQuiet

LEMMA InsideLocks ==
    ASSUME TypeOK, LockInv, NEW c \in Calls,
           Check(c) \/ Execute(c) \/ ExecuteError(c) \/ Put(c)
    PROVE  LockInv'
<1>1. /\ call[c].at \in {"check", "run", "put"}
      /\ call'[c].at \in {"run", "put", "unlock"}
      /\ call'[c].lock = call[c].lock /\ call'[c].node = call[c].node /\ call'[c].key = call[c].key
      /\ \A d \in Calls : d # c => call'[d] = call[d]
  <2>1. CASE Check(c)
    BY <2>1 DEF Check, LookUp, At, TypeOK
  <2>2. CASE Execute(c)
    BY <2>2 DEF Execute, At, TypeOK
  <2>3. CASE ExecuteError(c)
    BY <2>3 DEF ExecuteError, Goes, At, TypeOK
  <2>4. CASE Put(c)
    BY <2>4 DEF Put, At, TypeOK
  <2>5. QED
    BY <2>1, <2>2, <2>3, <2>4
<1>2. \A d \in Calls : (Using(d)' <=> Using(d)) /\ (Inside(d)' <=> Inside(d))
  BY <1>1 DEF Using, Inside
<1>3. UNCHANGED lockVars
  BY DEF Check, Execute, ExecuteError, Put, lockVars
<1>4. QED
  BY <1>1, <1>2, <1>3, LockQuiet

LEMMA JoinLocks == ASSUME TypeOK, LockInv, NEW c \in Calls, Join(c) PROVE LockInv'
<1> DEFINE n == call[c].node
           k == call[c].key
<1>0. PICK l : l = IF locks[n][k] = 0 THEN Len(refs) + 1 ELSE locks[n][k]
  OBVIOUS
<1>1. /\ n \in Nodes /\ k \in Keys /\ Len(refs) \in Nat /\ DOMAIN refs = 1..Len(refs)
      /\ locks[n][k] \in 0..Len(refs)
      /\ \A m \in Nodes, j \in Keys : locks[m][j] \in 0..Len(refs)
      /\ DOMAIN holder = 1..Len(refs)
      /\ l \in Nat \ {0}
  <2>1. /\ n \in Nodes /\ k \in Keys /\ Len(refs) \in Nat /\ DOMAIN refs = 1..Len(refs)
    BY CallType
  <2>2. \A m \in Nodes, j \in Keys : locks[m][j] \in 0..Len(refs)
    BY DEF TypeOK
  <2>3. DOMAIN holder = DOMAIN refs
    BY DEF TypeOK
  <2>4. locks[n][k] \in 0..Len(refs)
    BY <2>1, <2>2
  <2>5. l \in Nat \ {0}
    BY <1>0, <2>1, <2>4
  <2>6. QED
    BY <2>1, <2>2, <2>3, <2>4, <2>5
<1>2. /\ call[c].at = "join" /\ call'[c].at = "wait"
      /\ call'[c].lock = l /\ call'[c].node = n /\ call'[c].key = k
      /\ \A d \in Calls : d # c => call'[d] = call[d]
  BY <1>0 DEF Join, At, TypeOK
<1>3. /\ ~Using(c) /\ Using(c)' /\ ~Inside(c) /\ ~Inside(c)'
      /\ \A d \in Calls : d # c => (Using(d)' <=> Using(d)) /\ (Inside(d)' <=> Inside(d))
  BY <1>2 DEF Using, Inside
<1>4. \A m \in Nodes, j \in Keys : locks'[m][j] = IF m = n /\ j = k THEN l ELSE locks[m][j]
  BY <1>0, <1>1 DEF Join, TypeOK
<1>5. \A d \in Calls : Using(d) => call[d].lock \in 1..Len(refs)
  BY CallType DEF LockInv, LockOfUser
<1>6. Users(l)' = Users(l) \cup {c} /\ c \notin Users(l)
  BY <1>2, <1>3 DEF Users
<1>7. \A i : i # l => Users(i)' = Users(i)
  BY <1>2, <1>3 DEF Users
<1>8. CASE locks[n][k] = 0
  <2>1. l = Len(refs) + 1
    BY <1>0, <1>8
  <2>2. refs' = Append(refs, 1) /\ holder' = Append(holder, NoCall)
    BY <1>8 DEF Join
  <2>3. /\ DOMAIN refs' = 1..(Len(refs) + 1)
        /\ refs'[l] = 1
        /\ \A i \in DOMAIN refs : refs'[i] = refs[i]
    BY <1>1, <2>1, <2>2 DEF TypeOK
  <2>4. holder \in Seq(Calls \cup {NoCall}) /\ Len(holder) = Len(refs)
    BY <1>1, SeqOfFunction DEF TypeOK
  <2>5. holder'[l] = NoCall /\ \A i \in DOMAIN refs : holder'[i] = holder[i]
    BY <1>1, <2>1, <2>2, <2>4
  <2>6. LocksDistinct'
    BY <1>1, <1>4, <2>1 DEF LockInv, LocksDistinct
  <2>7. \A d \in Calls : Using(d) => ~(call[d].node = n /\ call[d].key = k)
    BY <1>8 DEF LockInv, LockOfUser
  <2>8. LockOfUser'
    <3> SUFFICES ASSUME NEW d \in Calls, Using(d)'
                 PROVE  call'[d].lock # 0 /\ call'[d].lock = locks'[call'[d].node][call'[d].key]
      BY DEF LockOfUser
    <3>1. CASE d = c
      BY <3>1, <1>1, <1>2, <1>4
    <3>2. CASE d # c
      BY <3>2, <1>2, <1>3, <1>4, <2>7, CallType DEF LockInv, LockOfUser
    <3>3. QED
      BY <3>1, <3>2
  <2>9. LockInUse'
    BY <1>2, <1>3, <1>4 DEF LockInv, LockInUse
  <2>10. RefsCounted'
    <3> SUFFICES ASSUME NEW i \in DOMAIN refs'
                 PROVE  IsFiniteSet(Users(i)') /\ refs'[i] = Cardinality(Users(i)')
      BY DEF RefsCounted
    <3>1. CASE i = l
      <4>1. Users(l) = {}
        BY <1>5, <2>1, <1>1 DEF Users
      <4>2. Users(l)' = {c}
        BY <4>1, <1>6
      <4>3. QED
        BY <4>2, <3>1, <2>3, FS_Singleton
    <3>2. CASE i # l
      BY <3>2, <1>7, <2>3, <1>1, <2>1 DEF LockInv, RefsCounted
    <3>3. QED
      BY <3>1, <3>2
  <2>11. HolderInside'
    <3> SUFFICES ASSUME NEW i \in DOMAIN refs', NEW d \in Calls
                 PROVE  holder'[i] = d <=> Inside(d)' /\ call'[d].lock = i
      BY DEF HolderInside
    <3>1. CASE i = l
      <4>1. holder'[i] # d
        BY <3>1, <2>5, NoValueAssumption
      <4>2. Inside(d)' => Using(d) /\ d # c
        BY <1>3 DEF Inside, Using
      <4>3. QED
        BY <4>1, <4>2, <1>2, <1>5, <3>1, <2>1, <1>1
    <3>2. CASE i # l
      <4>1. i \in DOMAIN refs /\ holder'[i] = holder[i]
        BY <3>2, <2>3, <2>1, <1>1, <2>5
      <4>2. QED
        BY <4>1, <1>2, <1>3 DEF LockInv, HolderInside
    <3>3. QED
      BY <3>1, <3>2
  <2>12. QED
    BY <2>6, <2>8, <2>9, <2>10, <2>11 DEF LockInv
<1>9. CASE locks[n][k] # 0
  <2>1. l = locks[n][k] /\ l \in DOMAIN refs
    BY <1>0, <1>9, <1>1
  <2>2. /\ DOMAIN refs' = DOMAIN refs
        /\ \A i \in DOMAIN refs : refs'[i] = IF i = l THEN refs[i] + 1 ELSE refs[i]
        /\ holder' = holder
    BY <1>0, <1>9 DEF Join
  <2>3. \A m \in Nodes, j \in Keys : locks'[m][j] = locks[m][j]
    BY <1>4, <2>1
  <2>4. LocksDistinct'
    BY <2>3 DEF LockInv, LocksDistinct
  <2>5. LockOfUser'
    <3> SUFFICES ASSUME NEW d \in Calls, Using(d)'
                 PROVE  call'[d].lock # 0 /\ call'[d].lock = locks'[call'[d].node][call'[d].key]
      BY DEF LockOfUser
    <3>1. CASE d = c
      BY <3>1, <1>1, <1>2, <2>1, <2>3
    <3>2. CASE d # c
      <4>1. Using(d) /\ call'[d] = call[d]
        BY <3>2, <1>2, <1>3
      <4>2. QED
        BY <4>1, <2>3, CallType DEF LockInv, LockOfUser
    <3>3. QED
      BY <3>1, <3>2
  <2>6. LockInUse'
    BY <1>2, <1>3, <2>3 DEF LockInv, LockInUse
  <2>7. RefsCounted'
    <3> SUFFICES ASSUME NEW i \in DOMAIN refs
                 PROVE  IsFiniteSet(Users(i)') /\ refs'[i] = Cardinality(Users(i)')
      BY <2>2 DEF RefsCounted
    <3>1. CASE i = l
      BY <3>1, <1>6, <2>2, FS_AddElement DEF LockInv, RefsCounted
    <3>2. CASE i # l
      BY <3>2, <1>7, <2>2 DEF LockInv, RefsCounted
    <3>3. QED
      BY <3>1, <3>2
  <2>8. HolderInside'
    BY <2>2, <1>2, <1>3 DEF LockInv, HolderInside
  <2>9. QED
    BY <2>4, <2>5, <2>6, <2>7, <2>8 DEF LockInv
<1>10. QED
  BY <1>8, <1>9

LEMMA AcquireLocks == ASSUME TypeOK, LockInv, NEW c \in Calls, Acquire(c) PROVE LockInv'
<1> DEFINE l == call[c].lock
<1>1. /\ call[c].at = "wait" /\ call'[c].at = "check"
      /\ call'[c].lock = l /\ call'[c].node = call[c].node /\ call'[c].key = call[c].key
      /\ \A d \in Calls : d # c => call'[d] = call[d]
  BY Moves DEF Acquire, At, Places
<1>2. /\ Using(c) /\ Using(c)' /\ ~Inside(c) /\ Inside(c)'
      /\ \A d \in Calls : d # c => (Using(d)' <=> Using(d)) /\ (Inside(d)' <=> Inside(d))
  BY <1>1 DEF Using, Inside
<1>3. l \in DOMAIN refs
  BY <1>2, CallType DEF LockInv, LockOfUser
<1>4. /\ holder[l] = NoCall
      /\ \A i \in DOMAIN refs : holder'[i] = IF i = l THEN c ELSE holder[i]
  BY <1>3 DEF Acquire, TypeOK
<1>5. UNCHANGED <<locks, refs>>
  BY DEF Acquire
<1>6. \A i : Users(i)' = Users(i)
  BY <1>1, <1>2 DEF Users
<1>7. LocksDistinct' /\ LockOfUser' /\ LockInUse'
  BY <1>1, <1>2, <1>5 DEF LockInv, LocksDistinct, LockOfUser, LockInUse
<1>8. RefsCounted'
  BY <1>5, <1>6 DEF LockInv, RefsCounted
<1>9. HolderInside'
  <2> SUFFICES ASSUME NEW i \in DOMAIN refs, NEW d \in Calls
               PROVE  holder'[i] = d <=> Inside(d)' /\ call'[d].lock = i
    BY <1>5 DEF HolderInside
  <2>1. NoCall # d
    BY NoValueAssumption
  <2>2. QED
    BY <2>1, <1>1, <1>2, <1>4 DEF LockInv, HolderInside
<1>10. QED
  BY <1>7, <1>8, <1>9 DEF LockInv

LEMMA UnlockLocks == ASSUME TypeOK, LockInv, NEW c \in Calls, Unlock(c) PROVE LockInv'
<1> DEFINE l == call[c].lock
<1>1. call[c].at = "unlock"
  BY DEF Unlock, At
<1>2. Using(c) /\ Inside(c)
  BY <1>1 DEF Using, Inside
<1>3. l = locks[call[c].node][call[c].key] /\ l \in DOMAIN refs
  BY <1>2, CallType DEF LockInv, LockOfUser
<1>4. /\ call'[c].at = "release"
      /\ call'[c].lock = l /\ call'[c].node = call[c].node /\ call'[c].key = call[c].key
      /\ \A d \in Calls : d # c => call'[d] = call[d]
  BY <1>3 DEF Unlock, TypeOK
<1>5. /\ Using(c)' /\ ~Inside(c)'
      /\ \A d \in Calls : d # c => (Using(d)' <=> Using(d)) /\ (Inside(d)' <=> Inside(d))
  BY <1>4 DEF Using, Inside
<1>6. holder[l] = c
  BY <1>2, <1>3 DEF LockInv, HolderInside
<1>7. \A i \in DOMAIN refs : holder'[i] = IF i = l THEN NoCall ELSE holder[i]
  BY <1>3 DEF Unlock, TypeOK
<1>8. UNCHANGED <<locks, refs>>
  BY DEF Unlock
<1>9. \A i : Users(i)' = Users(i)
  BY <1>2, <1>4, <1>5 DEF Users
<1>10. LocksDistinct' /\ LockOfUser' /\ LockInUse'
  BY <1>2, <1>4, <1>5, <1>8 DEF LockInv, LocksDistinct, LockOfUser, LockInUse
<1>11. RefsCounted'
  BY <1>8, <1>9 DEF LockInv, RefsCounted
<1>12. HolderInside'
  <2> SUFFICES ASSUME NEW i \in DOMAIN refs, NEW d \in Calls
               PROVE  holder'[i] = d <=> Inside(d)' /\ call'[d].lock = i
    BY <1>8 DEF HolderInside
  <2>1. NoCall # d
    BY NoValueAssumption
  <2>2. QED
    BY <2>1, <1>4, <1>5, <1>6, <1>7 DEF LockInv, HolderInside
<1>13. QED
  BY <1>10, <1>11, <1>12 DEF LockInv

LEMMA ReleaseLocks == ASSUME TypeOK, LockInv, NEW c \in Calls, Release(c) PROVE LockInv'
<1> DEFINE n == call[c].node
           k == call[c].key
<1>0. PICK l : l = call[c].lock
  OBVIOUS
<1>1. /\ call[c].at = "release" /\ call'[c].at = "done"
      /\ \A d \in Calls : d # c => call'[d] = call[d]
  BY DEF Release, At, TypeOK
<1>2. /\ Using(c) /\ ~Using(c)' /\ ~Inside(c) /\ ~Inside(c)'
      /\ \A d \in Calls : d # c => (Using(d)' <=> Using(d)) /\ (Inside(d)' <=> Inside(d))
  BY <1>1 DEF Using, Inside
<1>3. /\ l = locks[n][k] /\ l # 0 /\ l \in DOMAIN refs
      /\ n \in Nodes /\ k \in Keys
  BY <1>0, <1>2, CallType DEF LockInv, LockOfUser
<1>4. /\ DOMAIN refs' = DOMAIN refs
      /\ \A i \in DOMAIN refs : refs'[i] = IF i = l THEN refs[i] - 1 ELSE refs[i]
      /\ holder' = holder
  BY <1>0 DEF Release
<1>5. \A m \in Nodes, j \in Keys :
         locks'[m][j] = IF m = n /\ j = k /\ refs[l] = 1 THEN 0 ELSE locks[m][j]
  BY <1>0, <1>3 DEF Release, TypeOK
<1>6. Users(l)' = Users(l) \ {c} /\ c \in Users(l)
  BY <1>0, <1>1, <1>2 DEF Users
<1>7. \A i : i # l => Users(i)' = Users(i)
  BY <1>0, <1>1, <1>2 DEF Users
<1>8. IsFiniteSet(Users(l)) /\ refs[l] = Cardinality(Users(l))
  BY <1>3 DEF LockInv, RefsCounted
<1>9. LocksDistinct'
  BY <1>5 DEF LockInv, LocksDistinct
<1>10. \A d \in Calls : Using(d)' /\ call[d].node = n /\ call[d].key = k => refs[l] # 1
  <2> SUFFICES ASSUME NEW d \in Calls, Using(d)', call[d].node = n, call[d].key = k
               PROVE  refs[l] # 1
    OBVIOUS
  <2>1. d # c /\ Using(d)
    BY <1>2
  <2>2. d \in Users(l)
    BY <1>0, <2>1, <1>2, SharedLock DEF Users
  <2>3. Users(l) # {} /\ \A x : Users(l) # {x}
    BY <2>1, <2>2, <1>6
  <2>4. QED
    BY <2>3, <1>8, FS_Singleton
<1>11. LockOfUser'
  BY <1>0, <1>1, <1>2, <1>3, <1>5, <1>10, CallType DEF LockInv, LockOfUser
<1>12. RefsCounted'
  <2> SUFFICES ASSUME NEW i \in DOMAIN refs
               PROVE  IsFiniteSet(Users(i)') /\ refs'[i] = Cardinality(Users(i)')
    BY <1>4 DEF RefsCounted
  <2>1. CASE i = l
    BY <2>1, <1>6, <1>8, <1>4, FS_RemoveElement
  <2>2. CASE i # l
    BY <2>2, <1>7, <1>4 DEF LockInv, RefsCounted
  <2>3. QED
    BY <2>1, <2>2
<1>13. LockInUse'
  <2> SUFFICES ASSUME NEW m \in Nodes, NEW j \in Keys, locks'[m][j] # 0
               PROVE  \E d \in Calls : Using(d)' /\ call'[d].node = m /\ call'[d].key = j
    BY DEF LockInUse
  <2>1. locks[m][j] # 0 /\ locks'[m][j] = locks[m][j]
    BY <1>5
  <2>2. CASE m = n /\ j = k
    <3>1. refs[l] # 1
      BY <2>2, <1>5
    <3>2. Users(l) # {c}
      BY <3>1, <1>8, FS_Singleton
    <3>3. PICK d \in Users(l) : d # c
      BY <3>2, <1>6
    <3>4. d \in Calls /\ Using(d) /\ call[d].lock = l
      BY DEF Users
    <3>5. call[d].node = n /\ call[d].key = k
      BY <1>0, <3>4, <1>2, OneKeyPerLock
    <3>6. QED
      BY <3>3, <3>4, <3>5, <1>1, <1>2, <2>2
  <2>3. CASE ~(m = n /\ j = k)
    BY <2>1, <2>3, <1>1, <1>2 DEF LockInv, LockInUse
  <2>4. QED
    BY <2>2, <2>3
<1>14. HolderInside'
  BY <1>1, <1>2, <1>4 DEF LockInv, HolderInside
<1>15. QED
  BY <1>9, <1>11, <1>12, <1>13, <1>14 DEF LockInv

(***************************************************************************)
(* The store.                                                              *)
(***************************************************************************)

LEMMA StoreType ==
    ASSUME TypeOK, NEW n \in Nodes
    PROVE  /\ n \in Stores /\ StoreOf(n) \in Stores /\ Postgres \in Stores
           /\ ~shared => StoreOf(n) = n
           /\ shared => StoreOf(n) = Postgres
           /\ n # Postgres
BY NoValueAssumption DEF Stores, StoreOf

(* A lookup forgets what has expired, and nothing else. *)
LEMMA GetKeeps ==
    ASSUME TypeOK, NEW n \in Nodes, NEW k \in Keys, Get(n, k), UNCHANGED shared
    PROVE  /\ recs' \in [Stores -> [Keys -> 0..Len(runs)]]
           /\ expired' \in [Stores -> SUBSET Keys]
           /\ \A s \in Stores : \A j \in expired'[s] : recs'[s][j] # 0
           /\ \A s \in Stores, j \in Keys : recs'[s][j] # 0 => recs[s][j] # 0
           /\ \A m \in Nodes, j \in Keys : Found(m, j)' <=> Found(m, j)
<1>1. CASE ~shared /\ k \in expired[n]
  <2>1. n \in Stores /\ 0 \in 0..Len(runs)
    BY StoreType DEF TypeOK
  <2>2. /\ recs' = [recs EXCEPT ![n][k] = 0]
        /\ expired' = [expired EXCEPT ![n] = @ \ {k}]
    BY <1>1 DEF Get
  <2>3. \A s \in Stores, j \in Keys :
           /\ recs'[s][j] = IF s = n /\ j = k THEN 0 ELSE recs[s][j]
           /\ j \in expired'[s] <=> j \in expired[s] /\ ~(s = n /\ j = k)
    BY <2>1, <2>2 DEF TypeOK
  <2>4. recs' \in [Stores -> [Keys -> 0..Len(runs)]]
    BY <2>1, <2>2 DEF TypeOK
  <2>5. expired' \in [Stores -> SUBSET Keys]
    BY <2>1, <2>2 DEF TypeOK
  <2>6. \A s \in Stores : \A j \in expired'[s] : recs'[s][j] # 0
    BY <2>3, <2>5 DEF TypeOK
  <2>7. \A m \in Nodes, j \in Keys : Found(m, j)' <=> Found(m, j)
    BY <2>3, <1>1, StoreType DEF Found, StoreOf
  <2>8. QED
    BY <2>3, <2>4, <2>5, <2>6, <2>7
<1>2. CASE ~(~shared /\ k \in expired[n])
  BY <1>2 DEF Get, TypeOK, Found, StoreOf
<1>3. QED
  BY <1>1, <1>2

LEMMA QueuedType ==
    ASSUME TypeOK, NEW n \in Nodes, NEW k \in Keys
    PROVE  /\ Queued(n, k) \in Seq(Keys)
           /\ Len(Queued(n, k)) \in {Len(order[n]), Len(order[n]) + 1}
           /\ Range(order[n]) \subseteq Range(Queued(n, k))
           /\ Range(Queued(n, k)) \subseteq Range(order[n]) \cup {k}
           /\ recs[n][k] = 0 => k \in Range(Queued(n, k))
<1>1. order[n] \in Seq(Keys)
  BY DEF TypeOK
<1>2. CASE recs[n][k] = 0
  <2>1. Queued(n, k) = Append(order[n], k)
    BY <1>2 DEF Queued
  <2>2. /\ Append(order[n], k) \in Seq(Keys)
        /\ Len(Append(order[n], k)) = Len(order[n]) + 1
        /\ DOMAIN order[n] = 1..Len(order[n]) /\ Len(order[n]) \in Nat
        /\ DOMAIN Append(order[n], k) = 1..(Len(order[n]) + 1)
        /\ \A i \in DOMAIN order[n] : Append(order[n], k)[i] = order[n][i]
        /\ Append(order[n], k)[Len(order[n]) + 1] = k
    BY <1>1
  <2>3. \A i \in 1..(Len(order[n]) + 1) : i \in DOMAIN order[n] \/ i = Len(order[n]) + 1
    BY <2>2
  <2>4. QED
    BY <2>1, <2>2, <2>3 DEF Range
<1>3. CASE recs[n][k] # 0
  BY <1>1, <1>3 DEF Queued
<1>4. QED
  BY <1>2, <1>3

(* What is left of a queue without its head. *)
LEMMA TailRange ==
    ASSUME NEW S, NEW q \in Seq(S), q # <<>>
    PROVE  /\ Tail(q) \in Seq(S) /\ Len(Tail(q)) = Len(q) - 1
           /\ Head(q) \in S
           /\ Range(q) \subseteq Range(Tail(q)) \cup {Head(q)}
<1>1. /\ Tail(q) \in Seq(S) /\ Len(Tail(q)) = Len(q) - 1
      /\ Head(q) \in S /\ Head(q) = q[1]
      /\ DOMAIN q = 1..Len(q) /\ DOMAIN Tail(q) = 1..(Len(q) - 1) /\ Len(q) \in Nat
      /\ \A i \in 1..(Len(q) - 1) : Tail(q)[i] = q[i + 1]
  OBVIOUS
<1>2. ASSUME NEW i \in DOMAIN q, i # 1 PROVE q[i] \in Range(Tail(q))
  <2>1. i - 1 \in DOMAIN Tail(q) /\ Tail(q)[i - 1] = q[i]
    BY <1>1, <1>2
  <2>2. QED
    BY <2>1 DEF Range
<1>3. QED
  BY <1>1, <1>2 DEF Range

(* What a Put of the map does: the answer is there unless its key was the  *)
(* one evicted, and what has gone is listed as lost.                       *)
LEMMA PutMemoryEffect ==
    ASSUME TypeOK, CapHeld, NEW n \in Nodes, NEW k \in Keys, NEW answer \in 1..Len(runs),
           PutMemory(n, k, answer)
    PROVE  \E evicted \in SUBSET Keys :
           /\ recs' = [recs EXCEPT ![n] = [j \in Keys |-> IF j \in evicted THEN 0
                                                          ELSE IF j = k THEN answer ELSE recs[n][j]]]
           /\ expired' = [expired EXCEPT ![n] = @ \ (evicted \cup {k})]
           /\ lost' = lost \cup evicted
           /\ order' = [order EXCEPT ![n] = order'[n]]
           /\ order'[n] \in Seq(Keys) /\ Len(order'[n]) <= MaxEntries
           /\ Range(Queued(n, k)) \subseteq Range(order'[n]) \cup evicted
<1> DEFINE queue == Queued(n, k)
           full == Len(queue) > MaxEntries
           evicted == IF full THEN {Head(queue)} ELSE {}
<1>1. MaxEntries \in Nat /\ MaxEntries > 0
  BY IdempotencyAssumption
<1>2. /\ queue \in Seq(Keys) /\ Len(queue) \in Nat
      /\ Len(order[n]) <= MaxEntries /\ Len(order[n]) \in Nat
      /\ Len(queue) <= MaxEntries + 1
  <2>1. Len(order[n]) <= MaxEntries /\ Len(order[n]) \in Nat
    BY DEF CapHeld, TypeOK
  <2>2. queue \in Seq(Keys) /\ Len(queue) \in {Len(order[n]), Len(order[n]) + 1}
    BY QueuedType
  <2>3. QED
    BY <1>1, <2>1, <2>2
<1>3. /\ order' = [order EXCEPT ![n] = IF full THEN Tail(queue) ELSE queue]
      /\ recs' = [recs EXCEPT ![n] = [j \in Keys |-> IF j \in evicted THEN 0
                                                     ELSE IF j = k THEN answer ELSE recs[n][j]]]
      /\ expired' = [expired EXCEPT ![n] = @ \ (evicted \cup {k})]
      /\ lost' = lost \cup evicted
  BY DEF PutMemory
<1>4. order'[n] = IF full THEN Tail(queue) ELSE queue
  BY <1>3 DEF TypeOK
<1>5. CASE full
  <2>1. queue # <<>>
    BY <1>5, <1>1, <1>2
  <2>2. /\ Tail(queue) \in Seq(Keys) /\ Len(Tail(queue)) = Len(queue) - 1
        /\ Head(queue) \in Keys
        /\ Range(queue) \subseteq Range(Tail(queue)) \cup {Head(queue)}
    BY <1>2, <2>1, TailRange
  <2>3. evicted \in SUBSET Keys /\ evicted = {Head(queue)}
    BY <1>5, <2>2
  <2>4. order'[n] \in Seq(Keys) /\ Len(order'[n]) <= MaxEntries
    BY <1>1, <1>2, <1>4, <1>5, <2>2
  <2>5. Range(queue) \subseteq Range(order'[n]) \cup evicted
    BY <1>4, <1>5, <2>2, <2>3
  <2>6. order' = [order EXCEPT ![n] = order'[n]]
    BY <1>3, <1>4
  <2>7. QED
    BY <1>3, <2>3, <2>4, <2>5, <2>6
<1>6. CASE ~full
  <2>1. order'[n] \in Seq(Keys) /\ Len(order'[n]) <= MaxEntries
    BY <1>1, <1>2, <1>4, <1>6
  <2>2. Range(queue) \subseteq Range(order'[n]) \cup evicted
    BY <1>4, <1>6
  <2>3. order' = [order EXCEPT ![n] = order'[n]]
    BY <1>3, <1>4
  <2>4. evicted \in SUBSET Keys
    BY <1>6
  <2>5. QED
    BY <1>3, <2>1, <2>2, <2>3, <2>4
<1>7. QED
  BY <1>5, <1>6

(* What either Put does to the records. *)
LEMMA PutEffect ==
    ASSUME TypeOK, CapHeld, AnswersInHand, NEW c \in Calls, Put(c)
    PROVE  \E s \in Stores, evicted \in SUBSET Keys, kept \in BOOLEAN :
           /\ s = StoreOf(call[c].node)
           /\ \A t \in Stores, j \in Keys :
                 recs'[t][j] = IF t # s \/ ~kept THEN recs[t][j]
                               ELSE IF j \in evicted THEN 0
                               ELSE IF j = call[c].key THEN call[c].answer ELSE recs[t][j]
           /\ \A t \in Stores, j \in Keys :
                 j \in expired'[t] <=> /\ j \in expired[t]
                                       /\ ~(t = s /\ kept /\ (j \in evicted \/ j = call[c].key))
           /\ recs' \in [Stores -> [Keys -> 0..Len(runs)]]
           /\ expired' \in [Stores -> SUBSET Keys]
           /\ lost' = lost \cup evicted \cup (IF kept THEN {} ELSE {call[c].key})
<1> DEFINE n == call[c].node
           k == call[c].key
           answer == call[c].answer
<1>1. /\ n \in Nodes /\ k \in Keys /\ answer \in 1..Len(runs)
      /\ Len(runs) \in Nat /\ answer \in 0..Len(runs) /\ 0 \in 0..Len(runs)
  BY CallType DEF AnswersInHand, Put, At
<1>2. n \in Stores /\ StoreOf(n) \in Stores /\ Postgres \in Stores
  BY <1>1, StoreType
<1> USE <1>2
<1>3. CASE shared
  <2>1. PutPostgres(c, k, answer) /\ StoreOf(n) = Postgres
    BY <1>1, <1>3, StoreType DEF Put
  <2>2. CASE c \in gone
    <3>1. UNCHANGED <<recs, expired>> /\ lost' = lost \cup {k}
      BY <2>1, <2>2 DEF PutPostgres
    <3>2. WITNESS Postgres \in Stores, {} \in SUBSET Keys, FALSE \in BOOLEAN
    <3>3. QED
      BY <2>1, <3>1 DEF TypeOK
  <2>3. CASE c \notin gone
    <3>1. /\ recs' = [recs EXCEPT ![Postgres][k] = answer]
          /\ expired' = [expired EXCEPT ![Postgres] = @ \ {k}]
          /\ lost' = lost
      BY <2>1, <2>3 DEF PutPostgres
    <3>2. WITNESS Postgres \in Stores, {} \in SUBSET Keys, TRUE \in BOOLEAN
    <3>3. \A t \in Stores, j \in Keys :
             /\ recs'[t][j] = IF t = Postgres /\ j = k THEN answer ELSE recs[t][j]
             /\ j \in expired'[t] <=> j \in expired[t] /\ ~(t = Postgres /\ j = k)
      BY <1>1, <1>2, <3>1 DEF TypeOK
    <3>4. recs' \in [Stores -> [Keys -> 0..Len(runs)]] /\ expired' \in [Stores -> SUBSET Keys]
      BY <1>1, <1>2, <3>1 DEF TypeOK
    <3>5. QED
      BY <2>1, <3>1, <3>3, <3>4
  <2>4. QED
    BY <2>2, <2>3
<1>4. CASE ~shared
  <2>1. PutMemory(n, k, answer) /\ StoreOf(n) = n
    BY <1>1, <1>4, StoreType DEF Put
  <2>2. PICK evicted \in SUBSET Keys :
           /\ recs' = [recs EXCEPT ![n] = [j \in Keys |-> IF j \in evicted THEN 0
                                                          ELSE IF j = k THEN answer ELSE recs[n][j]]]
           /\ expired' = [expired EXCEPT ![n] = @ \ (evicted \cup {k})]
           /\ lost' = lost \cup evicted
           /\ order' = [order EXCEPT ![n] = order'[n]]
           /\ order'[n] \in Seq(Keys) /\ Len(order'[n]) <= MaxEntries
           /\ Range(Queued(n, k)) \subseteq Range(order'[n]) \cup evicted
    BY <1>1, <2>1, PutMemoryEffect
  <2>3. \A t \in Stores, j \in Keys :
           /\ recs'[t][j] = IF t # n THEN recs[t][j]
                            ELSE IF j \in evicted THEN 0
                            ELSE IF j = k THEN answer ELSE recs[t][j]
           /\ j \in expired'[t] <=> j \in expired[t] /\ ~(t = n /\ (j \in evicted \/ j = k))
    BY <1>1, <1>2, <2>2 DEF TypeOK
  <2>4. [j \in Keys |-> IF j \in evicted THEN 0 ELSE IF j = k THEN answer ELSE recs[n][j]]
           \in [Keys -> 0..Len(runs)]
    BY <1>1, <1>2 DEF TypeOK
  <2>5. recs' \in [Stores -> [Keys -> 0..Len(runs)]] /\ expired' \in [Stores -> SUBSET Keys]
    BY <1>1, <1>2, <2>2, <2>4 DEF TypeOK
  <2>6. WITNESS n \in Stores, evicted \in SUBSET Keys, TRUE \in BOOLEAN
  <2>7. QED
    BY <2>1, <2>2, <2>3, <2>5
<1>5. QED
  BY <1>3, <1>4

(***************************************************************************)
(* The index of recent runs.                                               *)
(***************************************************************************)

LEMMA IndexedType ==
    ASSUME NEW q, NEW R \in Nat, q \in Seq(1..R)
    PROVE  LET all == Append(q, R + 1)
           IN  /\ all \in Seq(1..(R + 1)) /\ all # <<>>
               /\ Tail(all) \in Seq(1..(R + 1))
               /\ Len(all) = Len(q) + 1 /\ Len(q) \in Nat
               /\ \A p \in 1..Len(q) : all[p] = q[p] /\ q[p] \in 1..R
               /\ all[Len(q) + 1] = R + 1
               /\ Len(Tail(all)) = Len(q)
               /\ \A p \in 1..Len(q) : Tail(all)[p] = all[p + 1]
<1> DEFINE all == Append(q, R + 1)
<1>1. q \in Seq(1..(R + 1))
  BY SeqMonotonic
<1>2. R + 1 \in 1..(R + 1)
  OBVIOUS
<1>3. /\ all \in Seq(1..(R + 1)) /\ Len(all) = Len(q) + 1 /\ Len(q) \in Nat
      /\ \A p \in 1..Len(q) : all[p] = q[p]
      /\ all[Len(q) + 1] = R + 1
  BY <1>1, <1>2, AppendProperties
<1>4. \A p \in 1..Len(q) : q[p] \in 1..R
  BY ElementOfSeq
<1>5. all # <<>>
  BY <1>1, <1>2, AppendProperties
<1>6. /\ Tail(all) \in Seq(1..(R + 1)) /\ Len(Tail(all)) = Len(q)
      /\ \A p \in 1..Len(q) : Tail(all)[p] = all[p + 1]
  BY <1>3, <1>5
<1>7. QED
  BY <1>3, <1>4, <1>5, <1>6

(***************************************************************************)
(* Type correctness.                                                       *)
(***************************************************************************)

LEMMA BudgetSpent ==
    ASSUME TypeOK
    PROVE  /\ budget.failures > 0 =>
                  [budget EXCEPT !.failures = @ - 1] \in [expiries : Nat, failures : Nat]
           /\ budget.expiries > 0 =>
                  [budget EXCEPT !.expiries = @ - 1] \in [expiries : Nat, failures : Nat]
<1>1. budget \in [expiries : Nat, failures : Nat]
  BY DEF TypeOK
<1>2. /\ budget.failures > 0 => budget.failures - 1 \in Nat
      /\ budget.expiries > 0 => budget.expiries - 1 \in Nat
  BY <1>1
<1>3. QED
  BY <1>1, <1>2

LEMMA LookUpType ==
    ASSUME TypeOK, NEW c \in Calls, NEW n \in Nodes, NEW k \in Keys,
           NEW hit \in Places, NEW miss \in Places, LookUp(c, n, k, hit, miss),
           UNCHANGED <<shared, order, lockVars, index, gone, runs, budget>>
    PROVE  TypeOK'
<1>1. /\ recs' \in [Stores -> [Keys -> 0..Len(runs)]]
      /\ expired' \in [Stores -> SUBSET Keys]
      /\ \A s \in Stores : \A j \in expired'[s] : recs'[s][j] # 0
  BY GetKeeps DEF LookUp
<1>2. call' \in [Calls -> [at : Places, node : Nodes, key : Keys, lock : 0..Len(refs),
                           answer : 0..Len(runs)]]
  <2>1. ASSUME NEW place \in Places,
               call' = [call EXCEPT ![c] = [@ EXCEPT !.at = place, !.node = n, !.key = k]]
        PROVE  call' \in [Calls -> [at : Places, node : Nodes, key : Keys, lock : 0..Len(refs),
                                    answer : 0..Len(runs)]]
    BY <2>1 DEF TypeOK
  <2>2. QED
    BY <2>1 DEF LookUp
<1>3. lost' \subseteq Keys
  BY DEF LookUp, TypeOK
<1>4. QED
  BY <1>1, <1>2, <1>3 DEF TypeOK, lockVars, Stores

LEMMA ArriveType ==
    ASSUME TypeOK, NEW c \in Calls, NEW t \in Targets[c], Arrive(c, t[1], t[2])
    PROVE  TypeOK' /\ t[1] \in Nodes /\ t[2] \in Keys
<1>1. t \in Nodes \X Keys
  BY IdempotencyAssumption
<1>2. t[1] \in Nodes /\ t[2] \in Keys
  BY <1>1
<1>3. "done" \in Places /\ "join" \in Places
  BY DEF Places
<1>4. QED
  BY <1>2, <1>3, LookUpType DEF Arrive

LEMMA JoinType == ASSUME TypeOK, NEW c \in Calls, Join(c) PROVE TypeOK'
<1> DEFINE n == call[c].node
           k == call[c].key
           l == IF locks[n][k] = 0 THEN Len(refs) + 1 ELSE locks[n][k]
<1>1. /\ n \in Nodes /\ k \in Keys /\ Len(refs) \in Nat /\ DOMAIN refs = 1..Len(refs)
  BY CallType
<1>2. locks[n][k] \in 0..Len(refs)
  BY <1>1 DEF TypeOK
<1>3. /\ refs' \in Seq(Nat) /\ Len(refs') \in Nat /\ Len(refs') >= Len(refs)
      /\ l \in 1..Len(refs')
      /\ holder' \in [DOMAIN refs' -> Calls \cup {NoCall}]
  <2>1. CASE locks[n][k] = 0
    <3>1. refs' = Append(refs, 1) /\ holder' = Append(holder, NoCall)
      BY <2>1 DEF Join
    <3>2. refs' \in Seq(Nat) /\ Len(refs') = Len(refs) + 1 /\ DOMAIN refs' = 1..(Len(refs) + 1)
      BY <3>1 DEF TypeOK
    <3>3. holder \in [1..Len(refs) -> Calls \cup {NoCall}]
      BY <1>1 DEF TypeOK
    <3>4. holder \in Seq(Calls \cup {NoCall}) /\ Len(holder) = Len(refs)
      BY <1>1, <3>3, SeqOfFunction
    <3>5. holder' \in [1..(Len(refs) + 1) -> Calls \cup {NoCall}]
      <4>1. NoCall \in Calls \cup {NoCall}
        OBVIOUS
      <4>2. Append(holder, NoCall) \in Seq(Calls \cup {NoCall}) /\ Len(Append(holder, NoCall)) = Len(refs) + 1
        BY <3>4, <4>1, AppendProperties
      <4>3. QED
        BY <3>1, <4>2, LenProperties
    <3>6. QED
      BY <1>1, <2>1, <3>2, <3>5
  <2>2. CASE locks[n][k] # 0
    <3>1. refs' = [refs EXCEPT ![l] = @ + 1] /\ holder' = holder /\ l \in 1..Len(refs)
      BY <1>1, <1>2, <2>2 DEF Join
    <3>2. refs' \in Seq(Nat) /\ Len(refs') = Len(refs) /\ DOMAIN refs' = DOMAIN refs
      <4>1. refs[l] + 1 \in Nat
        BY <1>1, <3>1 DEF TypeOK
      <4>2. refs' = [refs EXCEPT ![l] = refs[l] + 1]
        BY <3>1
      <4>3. QED
        BY <3>1, <4>1, <4>2, ExceptSeq DEF TypeOK
    <3>3. QED
      BY <1>1, <3>1, <3>2 DEF TypeOK
  <2>3. QED
    BY <2>1, <2>2
<1>4. 0..Len(refs) \subseteq 0..Len(refs')
  BY <1>1, <1>3
<1>5. locks' \in [Nodes -> [Keys -> 0..Len(refs')]]
  <2>1. locks \in [Nodes -> [Keys -> 0..Len(refs')]]
    BY <1>4 DEF TypeOK
  <2>2. l \in 0..Len(refs')
    BY <1>3
  <2>3. locks' = [locks EXCEPT ![n][k] = l]
    BY DEF Join
  <2>4. QED
    BY <1>1, <2>1, <2>2, <2>3
<1>6. call' \in [Calls -> [at : Places, node : Nodes, key : Keys, lock : 0..Len(refs'),
                           answer : 0..Len(runs)]]
  <2>1. call \in [Calls -> [at : Places, node : Nodes, key : Keys, lock : 0..Len(refs'),
                            answer : 0..Len(runs)]]
    BY <1>4 DEF TypeOK
  <2>2. l \in 0..Len(refs') /\ "wait" \in Places
    BY <1>3 DEF Places
  <2>3. call' = [call EXCEPT ![c].at = "wait", ![c].lock = l]
    BY DEF Join
  <2>4. QED
    BY <2>1, <2>2, <2>3
<1>7. UNCHANGED <<shared, recs, expired, order, index, gone, runs, lost, budget>>
  BY DEF Join, storeVars
<1>8. QED
  BY <1>3, <1>5, <1>6, <1>7 DEF TypeOK, Stores

LEMMA AcquireType == ASSUME TypeOK, LockInv, NEW c \in Calls, Acquire(c) PROVE TypeOK'
<1>1. call' \in [Calls -> [at : Places, node : Nodes, key : Keys, lock : 0..Len(refs),
                           answer : 0..Len(runs)]]
  BY Moves DEF Acquire, Places
<1>2. holder' \in [DOMAIN refs -> Calls \cup {NoCall}]
  BY DEF Acquire, TypeOK
<1>3. QED
  BY <1>1, <1>2 DEF Acquire, TypeOK, storeVars, Stores

LEMMA CheckType == ASSUME TypeOK, NEW c \in Calls, Check(c) PROVE TypeOK'
<1>1. call[c].node \in Nodes /\ call[c].key \in Keys
  BY CallType
<1>2. "unlock" \in Places /\ "run" \in Places
  BY DEF Places
<1>3. QED
  BY <1>1, <1>2, LookUpType DEF Check

LEMMA ExecuteType == ASSUME TypeOK, NEW c \in Calls, Execute(c) PROVE TypeOK'
<1> DEFINE n == call[c].node
           id == Len(runs) + 1
<1>1. n \in Nodes /\ call[c].key \in Keys /\ Len(runs) \in Nat
  BY CallType
<1>2. /\ runs' = Append(runs, [node |-> n, key |-> call[c].key])
      /\ index' = [index EXCEPT ![n] = Indexed(n, id)]
      /\ call' = [call EXCEPT ![c].at = "put", ![c].answer = id]
      /\ UNCHANGED <<shared, recs, expired, order, locks, refs, holder, gone, lost, budget>>
  BY DEF Execute, storeVars, lockVars
<1>3. runs' \in Seq([node : Nodes, key : Keys]) /\ Len(runs') = id
  BY <1>1, <1>2 DEF TypeOK
<1>4. 0..Len(runs) \subseteq 0..id /\ id \in 0..id /\ 1..Len(runs) \subseteq 1..id
  BY <1>1
<1>5. recs' \in [Stores -> [Keys -> 0..id]]
  BY <1>2, <1>4 DEF TypeOK
<1>6. call' \in [Calls -> [at : Places, node : Nodes, key : Keys, lock : 0..Len(refs), answer : 0..id]]
  <2>1. call \in [Calls -> [at : Places, node : Nodes, key : Keys, lock : 0..Len(refs), answer : 0..id]]
    BY <1>4 DEF TypeOK
  <2>2. QED
    BY <1>2, <1>4, <2>1 DEF Places
<1>7. index' \in [Nodes -> Seq(1..id)]
  <2>1. \A m \in Nodes : index[m] \in Seq(1..Len(runs))
    BY DEF TypeOK
  <2>2. \A m \in Nodes : index[m] \in Seq(1..id)
    BY <1>4, <2>1, SeqMonotonic
  <2>3. index \in [Nodes -> Seq(1..id)]
    BY <2>2 DEF TypeOK
  <2>4. Indexed(n, id) \in Seq(1..id)
    BY <1>1, <2>1, IndexedType DEF Indexed
  <2>5. QED
    BY <1>1, <1>2, <2>3, <2>4
<1>8. QED
  BY <1>2, <1>3, <1>5, <1>6, <1>7 DEF TypeOK, Stores

LEMMA ExecuteErrorType == ASSUME TypeOK, NEW c \in Calls, ExecuteError(c) PROVE TypeOK'
<1>1. call' \in [Calls -> [at : Places, node : Nodes, key : Keys, lock : 0..Len(refs),
                           answer : 0..Len(runs)]]
  BY Moves DEF ExecuteError, Places
<1>2. budget' \in [expiries : Nat, failures : Nat]
  BY BudgetSpent DEF ExecuteError
<1>3. QED
  BY <1>1, <1>2 DEF ExecuteError, TypeOK, storeVars, lockVars, Stores

LEMMA PutType == ASSUME TypeOK, CapHeld, AnswersInHand, NEW c \in Calls, Put(c) PROVE TypeOK'
<1>1. /\ call[c].node \in Nodes /\ call[c].key \in Keys /\ call[c].answer \in 1..Len(runs)
      /\ Len(runs) \in Nat
  BY CallType DEF AnswersInHand, Put, At
<1>2. PICK s \in Stores, evicted \in SUBSET Keys, kept \in BOOLEAN :
         /\ s = StoreOf(call[c].node)
         /\ \A t \in Stores, j \in Keys :
               recs'[t][j] = IF t # s \/ ~kept THEN recs[t][j]
                             ELSE IF j \in evicted THEN 0
                             ELSE IF j = call[c].key THEN call[c].answer ELSE recs[t][j]
         /\ \A t \in Stores, j \in Keys :
               j \in expired'[t] <=> /\ j \in expired[t]
                                     /\ ~(t = s /\ kept /\ (j \in evicted \/ j = call[c].key))
         /\ recs' \in [Stores -> [Keys -> 0..Len(runs)]]
         /\ expired' \in [Stores -> SUBSET Keys]
         /\ lost' = lost \cup evicted \cup (IF kept THEN {} ELSE {call[c].key})
  BY PutEffect
<1>3. lost' \subseteq Keys
  BY <1>1, <1>2 DEF TypeOK
<1>4. \A t \in Stores : \A j \in expired'[t] : recs'[t][j] # 0
  <2> SUFFICES ASSUME NEW t \in Stores, NEW j \in expired'[t] PROVE recs'[t][j] # 0
    OBVIOUS
  <2>1. j \in Keys
    BY <1>2
  <2>2. j \in expired[t] /\ ~(t = s /\ kept /\ (j \in evicted \/ j = call[c].key))
    BY <1>2, <2>1
  <2>3. recs[t][j] # 0
    BY <2>2 DEF TypeOK
  <2>4. recs'[t][j] = recs[t][j]
    BY <1>2, <2>1, <2>2
  <2>5. QED
    BY <2>3, <2>4
<1>5. order' \in [Nodes -> Seq(Keys)]
  <2>1. CASE shared
    BY <2>1 DEF Put, PutPostgres, TypeOK
  <2>2. CASE ~shared
    <3>1. PutMemory(call[c].node, call[c].key, call[c].answer)
      BY <2>2 DEF Put
    <3>2. order' = [order EXCEPT ![call[c].node] = order'[call[c].node]]
          /\ order'[call[c].node] \in Seq(Keys)
      BY <1>1, <3>1, PutMemoryEffect
    <3>3. QED
      BY <1>1, <3>2 DEF TypeOK
  <2>3. QED
    BY <2>1, <2>2
<1>6. call' \in [Calls -> [at : Places, node : Nodes, key : Keys, lock : 0..Len(refs),
                           answer : 0..Len(runs)]]
  <2>1. 0 \in 0..Len(runs) /\ "unlock" \in Places
    BY <1>1 DEF Places
  <2>2. call' = [call EXCEPT ![c].at = "unlock", ![c].answer = 0]
    BY DEF Put
  <2>3. QED
    BY <2>1, <2>2 DEF TypeOK
<1>7. UNCHANGED <<shared, locks, refs, holder, index, gone, runs, budget>>
  BY DEF Put, lockVars
<1>8. QED
  BY <1>2, <1>3, <1>4, <1>5, <1>6, <1>7 DEF TypeOK, Stores

LEMMA UnlockType == ASSUME TypeOK, LockInv, NEW c \in Calls, Unlock(c) PROVE TypeOK'
<1>0. PICK l : l = call[c].lock
  OBVIOUS
<1>1. Using(c)
  BY DEF Unlock, At, Using
<1>2. /\ call[c].lock = locks[call[c].node][call[c].key]
      /\ call[c].lock \in 0..Len(refs)
  BY <1>1, CallType DEF LockInv, LockOfUser
<1>3. call' \in [Calls -> [at : Places, node : Nodes, key : Keys, lock : 0..Len(refs),
                           answer : 0..Len(runs)]]
  <2>1. call' = [call EXCEPT ![c].at = "release", ![c].lock = l] /\ l \in 0..Len(refs)
    BY <1>0, <1>2 DEF Unlock
  <2>2. "release" \in Places
    BY DEF Places
  <2>3. QED
    BY <2>1, <2>2 DEF TypeOK
<1>4. holder' \in [DOMAIN refs -> Calls \cup {NoCall}]
  BY DEF Unlock, TypeOK
<1>5. QED
  BY <1>3, <1>4 DEF Unlock, TypeOK, storeVars, Stores

LEMMA ReleaseType == ASSUME TypeOK, LockInv, NEW c \in Calls, Release(c) PROVE TypeOK'
<1> DEFINE l == call[c].lock
<1>1. Using(c)
  BY DEF Release, At, Using
<1>2. /\ l \in DOMAIN refs /\ l \in 1..Len(refs) /\ Len(refs) \in Nat
      /\ call[c].node \in Nodes /\ call[c].key \in Keys
  BY <1>1, CallType DEF LockInv, LockOfUser
<1>3. refs[l] - 1 \in Nat
  <2>1. refs[l] = Cardinality(Users(l)) /\ IsFiniteSet(Users(l)) /\ c \in Users(l)
    BY <1>1, <1>2 DEF LockInv, RefsCounted, Users
  <2>2. refs[l] \in Nat /\ refs[l] # 0
    BY <2>1, FS_EmptySet, FS_CardinalityType
  <2>3. QED
    BY <2>2
<1>4. refs' = [refs EXCEPT ![l] = refs[l] - 1]
  BY DEF Release
<1>5. refs' \in Seq(Nat) /\ Len(refs') = Len(refs) /\ DOMAIN refs' = DOMAIN refs
  BY <1>2, <1>3, <1>4, ExceptSeq DEF TypeOK
<1>6. locks' \in [Nodes -> [Keys -> 0..Len(refs)]]
  <2>1. 0 \in 0..Len(refs)
    BY <1>2
  <2>2. QED
    BY <1>2, <2>1 DEF Release, TypeOK
<1>7. call' \in [Calls -> [at : Places, node : Nodes, key : Keys, lock : 0..Len(refs),
                           answer : 0..Len(runs)]]
  <2>1. 0 \in 0..Len(refs) /\ "done" \in Places
    BY <1>2 DEF Places
  <2>2. call' = [call EXCEPT ![c].at = "done", ![c].lock = 0]
    BY DEF Release
  <2>3. QED
    BY <2>1, <2>2 DEF TypeOK
<1>8. UNCHANGED <<shared, recs, expired, order, holder, index, gone, runs, lost, budget>>
  BY DEF Release, storeVars
<1>9. QED
  BY <1>5, <1>6, <1>7, <1>8 DEF TypeOK, Stores

LEMMA GiveUpType == ASSUME TypeOK, NEW c \in Calls, GiveUp(c) PROVE TypeOK'
<1>1. budget' \in [expiries : Nat, failures : Nat] /\ gone' \subseteq Calls
  BY BudgetSpent DEF GiveUp, TypeOK
<1>2. QED
  BY <1>1 DEF GiveUp, TypeOK, storeVars, lockVars, Stores

LEMMA ExpireType == ASSUME TypeOK, NEW s \in Stores, NEW k \in Keys, Expire(s, k) PROVE TypeOK'
<1>1. budget' \in [expiries : Nat, failures : Nat]
  BY BudgetSpent DEF Expire
<1>2. /\ expired' \in [Stores -> SUBSET Keys]
      /\ \A t \in Stores : \A j \in expired'[t] : recs[t][j] # 0
  BY DEF Expire, TypeOK
<1>3. lost' \subseteq Keys
  BY DEF Expire, TypeOK
<1>4. QED
  BY <1>1, <1>2, <1>3 DEF Expire, TypeOK, lockVars, Stores

(***************************************************************************)
(* The cap of the map.                                                     *)
(***************************************************************************)

LEMMA CapQuiet ==
    ASSUME CapHeld, order' = order,
           \A n \in Nodes, k \in Keys : recs'[n][k] # 0 => recs[n][k] # 0
    PROVE  CapHeld'
BY DEF CapHeld

LEMMA LookUpCap ==
    ASSUME TypeOK, CapHeld, NEW c \in Calls, NEW n \in Nodes, NEW k \in Keys, NEW hit, NEW miss,
           LookUp(c, n, k, hit, miss), UNCHANGED <<shared, order>>
    PROVE  CapHeld'
<1>1. \A m \in Nodes, j \in Keys : recs'[m][j] # 0 => recs[m][j] # 0
  BY GetKeeps, StoreType DEF LookUp
<1>2. QED
  BY <1>1, CapQuiet

LEMMA PutCap == ASSUME TypeOK, CapHeld, AnswersInHand, NEW c \in Calls, Put(c) PROVE CapHeld'
<1> DEFINE n == call[c].node
           k == call[c].key
           answer == call[c].answer
<1>1. n \in Nodes /\ k \in Keys /\ answer \in 1..Len(runs)
  BY CallType DEF AnswersInHand, Put, At
<1>2. n \in Stores /\ Postgres \in Stores
  BY <1>1, StoreType
<1>3. CASE shared
  <2>1. PutPostgres(c, k, answer)
    BY <1>3 DEF Put
  <2>2. \A m \in Nodes, j \in Keys : recs'[m][j] = recs[m][j]
    BY <1>2, <2>1, NoValueAssumption DEF PutPostgres, TypeOK, Stores
  <2>3. QED
    BY <2>1, <2>2, CapQuiet DEF PutPostgres
<1>4. CASE ~shared
  <2>1. PICK evicted \in SUBSET Keys :
           /\ recs' = [recs EXCEPT ![n] = [j \in Keys |-> IF j \in evicted THEN 0
                                                          ELSE IF j = k THEN answer ELSE recs[n][j]]]
           /\ expired' = [expired EXCEPT ![n] = @ \ (evicted \cup {k})]
           /\ lost' = lost \cup evicted
           /\ order' = [order EXCEPT ![n] = order'[n]]
           /\ order'[n] \in Seq(Keys) /\ Len(order'[n]) <= MaxEntries
           /\ Range(Queued(n, k)) \subseteq Range(order'[n]) \cup evicted
    BY <1>1, <1>4, PutMemoryEffect DEF Put
  <2>2. ASSUME NEW m \in Nodes, m # n
        PROVE  order'[m] = order[m] /\ \A j \in Keys : recs'[m][j] = recs[m][j]
    BY <2>1, <2>2 DEF TypeOK, Stores
  <2>3. \A j \in Keys : recs'[n][j] = IF j \in evicted THEN 0
                                      ELSE IF j = k THEN answer ELSE recs[n][j]
    BY <1>2, <2>1 DEF TypeOK
  <2>4. ASSUME NEW j \in Keys, recs'[n][j] # 0
        PROVE  j \in Range(order'[n])
    <3>1. j \notin evicted /\ (j = k \/ recs[n][j] # 0)
      BY <2>3, <2>4
    <3>2. j \in Range(Queued(n, k))
      BY <1>1, <3>1, QueuedType DEF CapHeld
    <3>3. QED
      BY <2>1, <3>1, <3>2
  <2>5. QED
    BY <2>1, <2>2, <2>4 DEF CapHeld
<1>5. QED
  BY <1>3, <1>4

(***************************************************************************)
(* One execution per key.                                                  *)
(***************************************************************************)

LEMMA RunType ==
    ASSUME TypeOK, NEW i \in DOMAIN runs
    PROVE  runs[i].node \in Nodes /\ runs[i].key \in Keys
<1>1. runs \in Seq([node : Nodes, key : Keys])
  BY DEF TypeOK
<1>2. runs[i] \in [node : Nodes, key : Keys]
  BY <1>1, LenProperties, ElementOfSeq
<1>3. QED
  BY <1>2

(* Steps that neither execute nor store leave what has been said of the    *)
(* executions as it is.                                                    *)
LEMMA OnceQuiet ==
    ASSUME OnceInv, runs' = runs, lost \subseteq lost',
           \A n \in Nodes, k \in Keys : Found(n, k) => Found(n, k)' \/ k \in lost',
           \A c \in Calls : /\ call'[c].at = "run" => call'[c] = call[c]
                            /\ call[c].at = "put" => call'[c] = call[c]
                            /\ call'[c].at = "put" => call'[c] = call[c],
           TypeOK
    PROVE  OnceInv'
<1>1. RunsAreFirst'
  BY DEF OnceInv, RunsAreFirst
<1>2. AnswersInHand'
  BY DEF OnceInv, AnswersInHand
<1>3. RunsRecorded'
  <2> SUFFICES ASSUME NEW i \in DOMAIN runs, NEW m \in Nodes, NEW j \in Keys,
                      m = runs[i].node, j = runs[i].key, j \notin lost'
               PROVE  \/ Found(m, j)'
                      \/ \E d \in Calls : call'[d].at = "put" /\ call'[d].node = m /\ call'[d].key = j
    BY RunType DEF RunsRecorded, Found, StoreOf
  <2>1. \/ Found(m, j)
        \/ \E d \in Calls : call[d].at = "put" /\ call[d].node = m /\ call[d].key = j
    BY DEF OnceInv, RunsRecorded
  <2>2. QED
    BY <2>1
<1>4. RunsOnce'
  BY DEF OnceInv, RunsOnce
<1>5. QED
  BY <1>1, <1>2, <1>3, <1>4 DEF OnceInv

LEMMA FoundSame ==
    ASSUME UNCHANGED <<shared, recs, expired>>
    PROVE  \A n, k : Found(n, k)' <=> Found(n, k)
BY DEF Found, StoreOf

LEMMA ArriveOnce ==
    ASSUME TypeOK, OnceInv, NEW c \in Calls, NEW n \in Nodes, NEW k \in Keys, Arrive(c, n, k)
    PROVE  OnceInv'
<1>1. /\ call[c].at = "new"
      /\ call'[c].at \in {"done", "join"}
      /\ \A d \in Calls : d # c => call'[d] = call[d]
  BY DEF Arrive, LookUp, At, TypeOK
<1>2. \A m \in Nodes, j \in Keys : Found(m, j)' <=> Found(m, j)
  BY GetKeeps DEF Arrive, LookUp
<1>3. lost \subseteq lost'
  BY DEF Arrive, LookUp
<1>4. runs' = runs
  BY DEF Arrive
<1>5. QED
  BY <1>1, <1>2, <1>3, <1>4, OnceQuiet

LEMMA OutsideOnce ==
    ASSUME TypeOK, OnceInv, NEW c \in Calls,
           Join(c) \/ Acquire(c) \/ ExecuteError(c) \/ Unlock(c) \/ Release(c)
    PROVE  OnceInv'
<1>1. /\ call[c].at # "put"
      /\ call'[c].at \notin {"run", "put"}
      /\ \A d \in Calls : d # c => call'[d] = call[d]
  <2>1. CASE Join(c)
    BY <2>1 DEF Join, At, TypeOK
  <2>2. CASE Acquire(c)
    BY <2>2 DEF Acquire, Goes, At, TypeOK
  <2>3. CASE ExecuteError(c)
    BY <2>3 DEF ExecuteError, Goes, At, TypeOK
  <2>4. CASE Unlock(c)
    BY <2>4 DEF Unlock, At, TypeOK
  <2>5. CASE Release(c)
    BY <2>5 DEF Release, At, TypeOK
  <2>6. QED
    BY <2>1, <2>2, <2>3, <2>4, <2>5
<1>2. UNCHANGED <<shared, recs, expired, runs, lost>>
  BY DEF Join, Acquire, ExecuteError, Unlock, Release, storeVars
<1>3. QED
  BY <1>1, <1>2, FoundSame, OnceQuiet

LEMMA ExpireOnce ==
    ASSUME TypeOK, OnceInv, NEW s \in Stores, NEW k \in Keys, Expire(s, k)
    PROVE  OnceInv'
<1>1. UNCHANGED <<shared, recs, runs, call>> /\ lost' = lost \cup {k}
  BY DEF Expire
<1>2. \A t \in Stores, j \in Keys : j # k => (j \in expired'[t] <=> j \in expired[t])
  BY DEF Expire, TypeOK
<1>3. \A m \in Nodes, j \in Keys : Found(m, j) => Found(m, j)' \/ j \in lost'
  BY <1>1, <1>2, StoreType DEF Found, StoreOf
<1>4. QED
  BY <1>1, <1>3, OnceQuiet

(* The second lookup: whoever goes on under the lock is the first. *)
LEMMA CheckOnce ==
    ASSUME TypeOK, LockInv, OnceInv, NEW c \in Calls, Check(c)
    PROVE  OnceInv'
<1> DEFINE n == call[c].node
           k == call[c].key
<1>1. n \in Nodes /\ k \in Keys
  BY CallType
<1>2. /\ call[c].at = "check"
      /\ call'[c].at \in {"unlock", "run"}
      /\ call'[c].node = n /\ call'[c].key = k
      /\ \A d \in Calls : d # c => call'[d] = call[d]
  BY DEF Check, LookUp, At, TypeOK
<1>3. \A m \in Nodes, j \in Keys : Found(m, j)' <=> Found(m, j)
  <2>1. Get(n, k) /\ UNCHANGED shared
    BY DEF Check, LookUp
  <2>2. QED
    BY <1>1, <2>1, GetKeeps
<1>4. lost \subseteq lost' /\ runs' = runs
  BY DEF Check, LookUp
<1>5. \A i \in DOMAIN runs : runs[i].node \in Nodes /\ runs[i].key \in Keys
  BY RunType
<1>6. call'[c].at = "run" => ~Found(n, k) \/ k \in lost'
  <2>1. CASE Found(n, k) /\ ~(shared /\ c \in gone)
    <3>1. call' = [call EXCEPT ![c] = [@ EXCEPT !.at = "unlock", !.node = n, !.key = k]]
      BY <2>1 DEF Check, LookUp
    <3>2. call'[c].at = "unlock"
      BY <3>1 DEF TypeOK
    <3>3. QED
      BY <3>2
  <2>2. CASE ~(Found(n, k) /\ ~(shared /\ c \in gone))
    BY <2>2 DEF Check, LookUp
  <2>3. QED
    BY <2>1, <2>2
<1>7. \A d \in Calls : call[d].at = "put" => ~(call[d].node = n /\ call[d].key = k)
  BY <1>2, OneInside DEF Inside
<1>8. RunsAreFirst'
  <2> SUFFICES ASSUME NEW d \in Calls, call'[d].at = "run", call'[d].key \notin lost',
                      NEW i \in DOMAIN runs,
                      runs[i] = [node |-> call'[d].node, key |-> call'[d].key]
               PROVE  FALSE
    BY <1>4 DEF RunsAreFirst
  <2>1. CASE d = c
    <3>1. runs[i].node = n /\ runs[i].key = k /\ k \notin lost'
      BY <2>1, <1>2
    <3>2. Found(n, k)
      BY <3>1, <1>4, <1>7 DEF OnceInv, RunsRecorded
    <3>3. QED
      BY <3>1, <3>2, <2>1, <1>6
  <2>2. CASE d # c
    BY <2>2, <1>2, <1>4 DEF OnceInv, RunsAreFirst
  <2>3. QED
    BY <2>1, <2>2
<1>9. AnswersInHand'
  BY <1>2 DEF OnceInv, AnswersInHand
<1>10. RunsRecorded'
  BY <1>2, <1>3, <1>4, <1>5 DEF OnceInv, RunsRecorded
<1>11. RunsOnce'
  BY <1>4 DEF OnceInv, RunsOnce
<1>12. QED
  BY <1>8, <1>9, <1>10, <1>11 DEF OnceInv

(* The runs after one more. *)
LEMMA ExecuteRuns ==
    ASSUME TypeOK, NEW c \in Calls, Execute(c)
    PROVE  /\ DOMAIN runs = 1..Len(runs) /\ Len(runs) \in Nat
           /\ DOMAIN runs' = 1..(Len(runs) + 1) /\ Len(runs') = Len(runs) + 1
           /\ \A i \in DOMAIN runs : runs'[i] = runs[i]
           /\ runs'[Len(runs) + 1] = [node |-> call[c].node, key |-> call[c].key]
           /\ \A i \in DOMAIN runs' : i \in DOMAIN runs \/ i = Len(runs) + 1
           /\ call[c].node \in Nodes /\ call[c].key \in Keys
<1>1. /\ runs \in Seq([node : Nodes, key : Keys])
      /\ [node |-> call[c].node, key |-> call[c].key] \in [node : Nodes, key : Keys]
      /\ call[c].node \in Nodes /\ call[c].key \in Keys
  BY CallType DEF TypeOK
<1>2. runs' = Append(runs, [node |-> call[c].node, key |-> call[c].key])
  BY DEF Execute
<1>3. QED
  BY <1>1, <1>2

LEMMA ExecuteOnce ==
    ASSUME TypeOK, LockInv, OnceInv, NEW c \in Calls, Execute(c)
    PROVE  OnceInv'
<1> DEFINE n == call[c].node
           k == call[c].key
           id == Len(runs) + 1
<1>1. /\ call[c].at = "run" /\ call'[c].at = "put" /\ call'[c].answer = id
      /\ call'[c].node = n /\ call'[c].key = k
      /\ \A d \in Calls : d # c => call'[d] = call[d]
  BY DEF Execute, At, TypeOK
<1>2. UNCHANGED <<shared, recs, expired, lost>>
  BY DEF Execute, storeVars
<1>3. /\ DOMAIN runs = 1..Len(runs) /\ Len(runs) \in Nat
      /\ \A i \in DOMAIN runs : runs'[i] = runs[i]
      /\ runs'[id] = [node |-> n, key |-> k]
      /\ \A i \in DOMAIN runs' : i \in DOMAIN runs \/ i = id
  BY ExecuteRuns
<1>4. \A m, j : Found(m, j)' <=> Found(m, j)
  BY <1>2, FoundSame
<1>5. RunsAreFirst'
  <2> SUFFICES ASSUME NEW d \in Calls, call'[d].at = "run", call'[d].key \notin lost',
                      NEW i \in DOMAIN runs',
                      runs'[i] = [node |-> call'[d].node, key |-> call'[d].key]
               PROVE  FALSE
    BY DEF RunsAreFirst
  <2>1. d # c /\ call'[d] = call[d] /\ call[d].at = "run"
    BY <1>1
  <2>2. CASE i = id
    <3>1. call[d].node = n /\ call[d].key = k
      BY <2>1, <2>2, <1>3
    <3>2. QED
      BY <3>1, <2>1, <1>1, OneInside DEF Inside
  <2>3. CASE i \in DOMAIN runs
    BY <2>1, <2>3, <1>2, <1>3 DEF OnceInv, RunsAreFirst
  <2>4. QED
    BY <2>2, <2>3, <1>3
<1>6. AnswersInHand'
  BY <1>1, <1>3 DEF OnceInv, AnswersInHand
<1>7. RunsRecorded'
  <2> SUFFICES ASSUME NEW i \in DOMAIN runs', runs'[i].key \notin lost
               PROVE  \/ Found(runs'[i].node, runs'[i].key)
                      \/ \E d \in Calls : /\ call'[d].at = "put"
                                          /\ call'[d].node = runs'[i].node
                                          /\ call'[d].key = runs'[i].key
    BY <1>2, <1>4 DEF RunsRecorded
  <2>1. CASE i = id
    BY <2>1, <1>1, <1>3
  <2>2. CASE i \in DOMAIN runs
    <3>1. \/ Found(runs[i].node, runs[i].key)
          \/ \E d \in Calls : /\ call[d].at = "put"
                              /\ call[d].node = runs[i].node /\ call[d].key = runs[i].key
      BY <2>2, <1>3 DEF OnceInv, RunsRecorded
    <3>2. QED
      BY <3>1, <2>2, <1>1, <1>3
  <2>3. QED
    BY <2>1, <2>2, <1>3
<1>8. RunsOnce'
  <2>1. \A i \in DOMAIN runs : k \notin lost => runs[i] # [node |-> n, key |-> k]
    BY <1>1 DEF OnceInv, RunsAreFirst
  <2>2. QED
    BY <2>1, <1>2, <1>3 DEF OnceInv, RunsOnce
<1>9. QED
  BY <1>5, <1>6, <1>7, <1>8 DEF OnceInv

LEMMA PutOnce ==
    ASSUME TypeOK, CapHeld, OnceInv, NEW c \in Calls, Put(c)
    PROVE  OnceInv'
<1>0. PICK n, k : n = call[c].node /\ k = call[c].key
  OBVIOUS
<1>1. /\ call[c].at = "put" /\ call'[c].at = "unlock" /\ call[c].answer # 0
      /\ n \in Nodes /\ k \in Keys
      /\ \A d \in Calls : d # c => call'[d] = call[d]
  BY <1>0, CallType DEF Put, At, TypeOK, OnceInv, AnswersInHand
<1>2. PICK s \in Stores, evicted \in SUBSET Keys, kept \in BOOLEAN :
         /\ s = StoreOf(call[c].node)
         /\ \A t \in Stores, j \in Keys :
               recs'[t][j] = IF t # s \/ ~kept THEN recs[t][j]
                             ELSE IF j \in evicted THEN 0
                             ELSE IF j = call[c].key THEN call[c].answer ELSE recs[t][j]
         /\ \A t \in Stores, j \in Keys :
               j \in expired'[t] <=> /\ j \in expired[t]
                                     /\ ~(t = s /\ kept /\ (j \in evicted \/ j = call[c].key))
         /\ recs' \in [Stores -> [Keys -> 0..Len(runs)]]
         /\ expired' \in [Stores -> SUBSET Keys]
         /\ lost' = lost \cup evicted \cup (IF kept THEN {} ELSE {call[c].key})
  BY PutEffect DEF OnceInv
<1>3. UNCHANGED <<shared, runs>>
  BY DEF Put
<1>4. \A m \in Nodes : StoreOf(m) \in Stores /\ StoreOf(m)' = StoreOf(m)
  BY <1>3, StoreType DEF StoreOf
<1>5. \A m \in Nodes, j \in Keys : j \notin lost' /\ Found(m, j) => Found(m, j)'
  BY <1>1, <1>2, <1>4 DEF Found
<1>6. k \notin lost' => Found(n, k)'
  BY <1>0, <1>1, <1>2, <1>4 DEF Found
<1>7. \A i \in DOMAIN runs : runs[i].node \in Nodes /\ runs[i].key \in Keys
  BY RunType
<1>8. lost \subseteq lost'
  BY <1>2
<1>9. RunsAreFirst'
  BY <1>1, <1>3, <1>8 DEF OnceInv, RunsAreFirst
<1>10. AnswersInHand'
  BY <1>1 DEF OnceInv, AnswersInHand
<1>11. RunsRecorded'
  <2> SUFFICES ASSUME NEW i \in DOMAIN runs, NEW m \in Nodes, NEW j \in Keys,
                      m = runs[i].node, j = runs[i].key, j \notin lost'
               PROVE  \/ Found(m, j)'
                      \/ \E d \in Calls : call'[d].at = "put" /\ call'[d].node = m /\ call'[d].key = j
    BY <1>3, <1>7 DEF RunsRecorded, Found, StoreOf
  <2>1. CASE Found(m, j)
    BY <2>1, <1>5
  <2>2. CASE \E d \in Calls : call[d].at = "put" /\ call[d].node = m /\ call[d].key = j
    <3>1. PICK d \in Calls : call[d].at = "put" /\ call[d].node = m /\ call[d].key = j
      BY <2>2
    <3>2. CASE d = c
      BY <3>1, <3>2, <1>0, <1>6
    <3>3. CASE d # c
      BY <3>1, <3>3, <1>1
    <3>4. QED
      BY <3>2, <3>3
  <2>3. QED
    BY <2>1, <2>2, <1>8 DEF OnceInv, RunsRecorded
<1>12. RunsOnce'
  BY <1>3, <1>8 DEF OnceInv, RunsOnce
<1>13. QED
  BY <1>9, <1>10, <1>11, <1>12 DEF OnceInv

(***************************************************************************)
(* Runs that can still be fetched.                                         *)
(***************************************************************************)

(* The runs of a node after a given one. *)
Later(i, n) == {j \in DOMAIN runs : j > i /\ runs[j].node = n}

LEMMA LaterFinite ==
    ASSUME TypeOK, NEW i, NEW n
    PROVE  IsFiniteSet(Later(i, n))
<1>1. DOMAIN runs = 1..Len(runs) /\ Len(runs) \in Nat
  BY DEF TypeOK
<1>2. IsFiniteSet(1..Len(runs))
  BY <1>1, FS_Interval
<1>3. Later(i, n) \in SUBSET (1..Len(runs))
  BY <1>1 DEF Later
<1>4. QED
  BY <1>2, <1>3, FS_Subset

(* Distinct later runs are as many as the places that list them. *)
LEMMA LaterMany ==
    ASSUME NEW S, IsFiniteSet(S), NEW m \in Nat, NEW q,
           \A p \in 1..m : q[p] \in S,
           \A p, r \in 1..m : p # r => q[p] # q[r]
    PROVE  Cardinality(S) >= m
<1> DEFINE f == [p \in 1..m |-> q[p]]
<1>1. f \in Injection(1..m, S)
  BY DEF Injection, IsInjective
<1>2. Cardinality(1..m) <= Cardinality(S)
  BY <1>1, FS_Injection
<1>3. Cardinality(1..m) = m
  BY FS_Interval
<1>4. Cardinality(S) \in Nat
  BY FS_CardinalityType
<1>5. QED
  BY <1>2, <1>3, <1>4

(* The index after one more run. *)
LEMMA ExecuteIndex ==
    ASSUME TypeOK, IndexInv, NEW c \in Calls, Execute(c), NEW n \in Nodes, n = call[c].node
    PROVE  /\ \A m \in Nodes : m # n => index'[m] = index[m]
           /\ Len(index[n]) \in Nat /\ DOMAIN index[n] = 1..Len(index[n])
           /\ \E all :
                 /\ Len(all) = Len(index[n]) + 1 /\ DOMAIN all = 1..Len(all)
                 /\ \A p \in 1..Len(index[n]) : all[p] = index[n][p] /\ index[n][p] \in 1..Len(runs)
                 /\ all[Len(all)] = Len(runs) + 1
                 /\ \A p, q \in DOMAIN all : p < q => all[p] < all[q]
                 /\ \/ index'[n] = all /\ Len(all) <= MaxIndexed
                    \/ /\ Len(index[n]) = MaxIndexed
                       /\ Len(index'[n]) = MaxIndexed /\ DOMAIN index'[n] = 1..MaxIndexed
                       /\ \A p \in 1..MaxIndexed : index'[n][p] = all[p + 1]
<1> DEFINE all == Append(index[n], Len(runs) + 1)
<1>1. index[n] \in Seq(1..Len(runs)) /\ Len(runs) \in Nat
  BY CallType DEF TypeOK
<1>2. /\ all \in Seq(1..(Len(runs) + 1))
      /\ Tail(all) \in Seq(1..(Len(runs) + 1))
      /\ Len(all) = Len(index[n]) + 1 /\ Len(index[n]) \in Nat
      /\ \A p \in 1..Len(index[n]) : all[p] = index[n][p] /\ index[n][p] \in 1..Len(runs)
      /\ all[Len(index[n]) + 1] = Len(runs) + 1
      /\ Len(Tail(all)) = Len(index[n])
      /\ \A p \in 1..Len(index[n]) : Tail(all)[p] = all[p + 1]
  BY <1>1, IndexedType
<1>3. /\ DOMAIN all = 1..Len(all) /\ DOMAIN index[n] = 1..Len(index[n])
      /\ DOMAIN Tail(all) = 1..Len(Tail(all))
  BY <1>1, <1>2, LenProperties
<1> HIDE DEF all
<1>4. MaxIndexed \in Nat /\ Len(index[n]) <= MaxIndexed
  BY IdempotencyAssumption DEF IndexInv
<1>5. \A p, q \in DOMAIN all : p < q => all[p] < all[q]
  <2> SUFFICES ASSUME NEW p \in DOMAIN all, NEW q \in DOMAIN all, p < q PROVE all[p] < all[q]
    OBVIOUS
  <2>1. p \in 1..Len(index[n]) /\ (q \in 1..Len(index[n]) \/ q = Len(index[n]) + 1)
    <3>1. Len(index[n]) \in Nat /\ DOMAIN all = 1..(Len(index[n]) + 1)
      BY <1>2, <1>3
    <3>2. QED
      BY <3>1
  <2>2. CASE q \in 1..Len(index[n])
    BY <2>1, <2>2, <1>2, <1>3 DEF IndexInv
  <2>3. CASE q = Len(index[n]) + 1
    <3>1. all[p] = index[n][p] /\ index[n][p] \in 1..Len(runs)
      BY <2>1, <1>2
    <3>2. all[q] = Len(runs) + 1
      BY <2>3, <1>2
    <3>3. QED
      BY <3>1, <3>2, <1>1
  <2>4. QED
    BY <2>1, <2>2, <2>3
<1>6. index' = [index EXCEPT ![n] = IF Len(all) > MaxIndexed THEN Tail(all) ELSE all]
  BY DEF Execute, Indexed, all
<1>7. /\ index'[n] = IF Len(all) > MaxIndexed THEN Tail(all) ELSE all
      /\ \A m \in Nodes : m # n => index'[m] = index[m]
  BY <1>6 DEF TypeOK
<1>8. \/ index'[n] = all /\ Len(all) <= MaxIndexed
      \/ /\ Len(index[n]) = MaxIndexed
         /\ Len(index'[n]) = MaxIndexed /\ DOMAIN index'[n] = 1..MaxIndexed
         /\ \A p \in 1..MaxIndexed : index'[n][p] = all[p + 1]
  <2>1. CASE Len(all) > MaxIndexed
    <3>1. Len(index[n]) = MaxIndexed /\ index'[n] = Tail(all)
      BY <2>1, <1>2, <1>4, <1>7
    <3>2. QED
      BY <3>1, <1>2, <1>3
  <2>2. CASE ~(Len(all) > MaxIndexed)
    BY <2>2, <1>2, <1>4, <1>7
  <2>3. QED
    BY <2>1, <2>2
<1>9. all[Len(all)] = Len(runs) + 1
  BY <1>2
<1>10. QED
  BY <1>2, <1>3, <1>5, <1>7, <1>8, <1>9

LEMMA ExecuteIndexInv ==
    ASSUME TypeOK, IndexInv, RunFound, NEW c \in Calls, Execute(c)
    PROVE  IndexInv' /\ RunFound'
<1>0. PICK n \in Nodes : n = call[c].node
  BY CallType
<1>1. /\ DOMAIN runs = 1..Len(runs) /\ Len(runs) \in Nat
      /\ DOMAIN runs' = 1..(Len(runs) + 1)
      /\ \A i \in DOMAIN runs : runs'[i] = runs[i]
      /\ runs'[Len(runs) + 1].node = n
      /\ \A i \in DOMAIN runs' : i \in DOMAIN runs \/ i = Len(runs) + 1
  <2>1. /\ DOMAIN runs = 1..Len(runs) /\ Len(runs) \in Nat
        /\ DOMAIN runs' = 1..(Len(runs) + 1)
        /\ \A i \in DOMAIN runs : runs'[i] = runs[i]
        /\ runs'[Len(runs) + 1] = [node |-> call[c].node, key |-> call[c].key]
        /\ \A i \in DOMAIN runs' : i \in DOMAIN runs \/ i = Len(runs) + 1
    BY ExecuteRuns
  <2>2. runs'[Len(runs) + 1].node = n
    BY <2>1, <1>0
  <2>3. QED
    BY <2>1, <2>2
<1>2. /\ \A m \in Nodes : m # n => index'[m] = index[m]
      /\ Len(index[n]) \in Nat /\ DOMAIN index[n] = 1..Len(index[n])
  BY <1>0, ExecuteIndex
<1>3. PICK all :
         /\ Len(all) = Len(index[n]) + 1 /\ DOMAIN all = 1..Len(all)
         /\ \A p \in 1..Len(index[n]) : all[p] = index[n][p] /\ index[n][p] \in 1..Len(runs)
         /\ all[Len(all)] = Len(runs) + 1
         /\ \A p, q \in DOMAIN all : p < q => all[p] < all[q]
         /\ \/ index'[n] = all /\ Len(all) <= MaxIndexed
            \/ /\ Len(index[n]) = MaxIndexed
               /\ Len(index'[n]) = MaxIndexed /\ DOMAIN index'[n] = 1..MaxIndexed
               /\ \A p \in 1..MaxIndexed : index'[n][p] = all[p + 1]
  BY <1>0, ExecuteIndex
<1>4. MaxIndexed \in Nat /\ MaxIndexed > 0
  BY IdempotencyAssumption
<1>5. \A p \in DOMAIN all : all[p] \in DOMAIN runs' /\ runs'[all[p]].node = n /\ all[p] \in Nat
  <2> SUFFICES ASSUME NEW p \in DOMAIN all
               PROVE  all[p] \in DOMAIN runs' /\ runs'[all[p]].node = n /\ all[p] \in Nat
    OBVIOUS
  <2>1. CASE p = Len(all)
    BY <2>1, <1>1, <1>3
  <2>2. CASE p # Len(all)
    <3>1. p \in 1..Len(index[n])
      <4>1. Len(all) = Len(index[n]) + 1 /\ DOMAIN all = 1..Len(all)
        BY <1>3
      <4>2. QED
        BY <2>2, <1>2, <4>1
    <3>2. all[p] = index[n][p] /\ index[n][p] \in DOMAIN runs
      BY <3>1, <1>1, <1>3
    <3>3. runs[index[n][p]].node = n
      BY <3>1, <1>2 DEF IndexInv
    <3>4. QED
      BY <3>2, <3>3, <1>1
  <2>3. QED
    BY <2>1, <2>2
<1>6. IndexInv'
  <2> SUFFICES ASSUME NEW m \in Nodes
               PROVE  /\ Len(index'[m]) <= MaxIndexed
                      /\ \A p \in DOMAIN index'[m] : runs'[index'[m][p]].node = m
                      /\ \A p, q \in DOMAIN index'[m] : p < q => index'[m][p] < index'[m][q]
    BY DEF IndexInv
  <2>1. CASE m # n
    <3>1. index[m] \in Seq(1..Len(runs))
      BY DEF TypeOK
    <3>2. \A p \in DOMAIN index[m] : index[m][p] \in DOMAIN runs
      BY <3>1, <1>1, LenProperties, ElementOfSeq
    <3>3. QED
      BY <2>1, <3>2, <1>1, <1>2 DEF IndexInv
  <2>2. CASE m = n /\ index'[n] = all /\ Len(all) <= MaxIndexed
    BY <2>2, <1>3, <1>5
  <2>3. CASE /\ m = n
             /\ Len(index[n]) = MaxIndexed
             /\ Len(index'[n]) = MaxIndexed /\ DOMAIN index'[n] = 1..MaxIndexed
             /\ \A p \in 1..MaxIndexed : index'[n][p] = all[p + 1]
    <3>1. \A p \in 1..MaxIndexed : p + 1 \in DOMAIN all
      BY <2>3, <1>3, <1>4
    <3>2. \A p, q \in 1..MaxIndexed : p < q => p + 1 < q + 1
      BY <1>4
    <3>3. \A p \in DOMAIN index'[m] : runs'[index'[m][p]].node = m
      BY <2>3, <3>1, <1>5
    <3>4. \A p, q \in DOMAIN all : p < q => all[p] < all[q]
      BY <1>3
    <3>7. \A p, q \in DOMAIN index'[m] : p < q => index'[m][p] < index'[m][q]
      BY <2>3, <3>1, <3>2, <3>4
    <3>5. Len(index'[m]) <= MaxIndexed
      BY <2>3, <1>4
    <3>6. QED
      BY <3>3, <3>7, <3>5
  <2>4. QED
    BY <2>1, <2>2, <2>3, <1>3
<1>7. RunFound'
  <2> SUFFICES ASSUME NEW i \in DOMAIN runs'
               PROVE  \/ i \in Range(index'[runs'[i].node])
                      \/ Cardinality({j \in DOMAIN runs' : j > i /\ runs'[j].node = runs'[i].node}) >= MaxIndexed
    BY DEF RunFound, GetRun
  <2> DEFINE m == runs'[i].node
             S == {j \in DOMAIN runs' : j > i /\ runs'[j].node = m}
  <2>1. IsFiniteSet(S)
    <3>1. IsFiniteSet(1..(Len(runs) + 1))
      BY <1>1, FS_Interval
    <3>2. S \in SUBSET (1..(Len(runs) + 1))
      BY <1>1
    <3>3. QED
      BY <3>1, <3>2, FS_Subset
  <2>2. CASE i = Len(runs) + 1
    <3>1. m = n
      BY <2>2, <1>1
    <3>2. CASE index'[n] = all
      BY <2>2, <3>1, <3>2, <1>2, <1>3 DEF Range
    <3>3. CASE /\ Len(index[n]) = MaxIndexed
               /\ Len(index'[n]) = MaxIndexed /\ DOMAIN index'[n] = 1..MaxIndexed
               /\ \A p \in 1..MaxIndexed : index'[n][p] = all[p + 1]
      <4>1. MaxIndexed \in DOMAIN index'[n] /\ index'[n][MaxIndexed] = i
        BY <2>2, <3>3, <1>3, <1>4
      <4>2. QED
        BY <3>1, <4>1 DEF Range
    <3>4. QED
      BY <3>2, <3>3, <1>3
  <2>3. CASE i \in DOMAIN runs
    <3>1. m = runs[i].node /\ m \in Nodes
      BY <2>3, <1>1, RunType
    <3>2. CASE Cardinality(Later(i, m)) >= MaxIndexed
      <4>1. Later(i, m) \in SUBSET S
        BY <1>1 DEF Later
      <4>2. Cardinality(Later(i, m)) <= Cardinality(S) /\ IsFiniteSet(Later(i, m))
        BY <2>1, <4>1, FS_Subset
      <4>3. Cardinality(Later(i, m)) \in Nat /\ Cardinality(S) \in Nat
        BY <2>1, <4>2, FS_CardinalityType
      <4>4. Cardinality(S) >= MaxIndexed
        BY <3>2, <4>2, <4>3, <1>4
      <4>5. QED
        BY <4>4
    <3>3. CASE i \in Range(index[m]) /\ m # n
      BY <3>1, <3>3, <1>2
    <3>4. CASE i \in Range(index[m]) /\ m = n
      <4>1. PICK p \in 1..Len(index[n]) : i = index[n][p]
        BY <3>4, <1>2 DEF Range
      <4>2. i = all[p] /\ p \in DOMAIN all /\ p + 1 \in DOMAIN all
        BY <4>1, <1>2, <1>3
      <4>3. CASE index'[n] = all
        BY <3>4, <4>2, <4>3 DEF Range
      <4>4. CASE /\ Len(index[n]) = MaxIndexed
                 /\ Len(index'[n]) = MaxIndexed /\ DOMAIN index'[n] = 1..MaxIndexed
                 /\ \A q \in 1..MaxIndexed : index'[n][q] = all[q + 1]
        <5>1. CASE p # 1
          <6>1. p - 1 \in DOMAIN index'[n] /\ index'[n][p - 1] = i
            BY <5>1, <4>1, <4>2, <4>4, <1>4
          <6>2. QED
            BY <6>1, <3>4 DEF Range
        <5>2. CASE p = 1
          <6>1. \A q \in 1..MaxIndexed : q + 1 \in DOMAIN all /\ 1 < q + 1
            <7>1. Len(all) = MaxIndexed + 1 /\ DOMAIN all = 1..Len(all)
              BY <4>4, <1>3
            <7>2. QED
              BY <7>1, <1>4
          <6>2. \A q \in 1..MaxIndexed : index'[n][q] \in S
            <7> SUFFICES ASSUME NEW q \in 1..MaxIndexed PROVE index'[n][q] \in S
              OBVIOUS
            <7>1. index'[n][q] = all[q + 1] /\ q + 1 \in DOMAIN all /\ 1 \in DOMAIN all /\ 1 < q + 1
              BY <6>1, <5>2, <4>2, <4>4
            <7>2. all[1] < all[q + 1]
              BY <7>1, <1>3
            <7>3. all[q + 1] \in DOMAIN runs' /\ runs'[all[q + 1]].node = n /\ i = all[1]
              BY <7>1, <5>2, <4>2, <1>5
            <7>4. all[q + 1] > i
              BY <7>1, <7>2, <7>3, <1>5
            <7>5. QED
              BY <7>1, <7>3, <7>4, <3>4
          <6>3. \A q, r \in 1..MaxIndexed : q # r => index'[n][q] # index'[n][r]
            <7> SUFFICES ASSUME NEW q \in 1..MaxIndexed, NEW r \in 1..MaxIndexed, q < r
                         PROVE  index'[n][q] # index'[n][r]
              BY <1>4
            <7>1. q + 1 \in DOMAIN all /\ r + 1 \in DOMAIN all /\ q + 1 < r + 1
              BY <6>1, <1>4
            <7>2. all[q + 1] < all[r + 1]
              BY <7>1, <1>3
            <7>3. all[q + 1] \in Nat /\ all[r + 1] \in Nat
              BY <6>1, <1>5
            <7>4. QED
              BY <7>2, <7>3, <4>4
          <6>4. Cardinality(S) >= MaxIndexed
            BY <6>2, <6>3, <2>1, <1>4, LaterMany
          <6>5. QED
            BY <6>4
        <5>3. QED
          BY <5>1, <5>2
      <4>5. QED
        BY <4>3, <4>4, <1>3
    <3>5. QED
      BY <3>1, <3>2, <3>3, <3>4, <2>3 DEF RunFound, GetRun, Later
  <2>4. QED
    BY <2>2, <2>3, <1>1
<1>8. QED
  BY <1>6, <1>7

LEMMA IndexQuiet ==
    ASSUME IndexInv, RunFound, UNCHANGED <<index, runs>>
    PROVE  IndexInv' /\ RunFound'
BY DEF IndexInv, RunFound, GetRun

(***************************************************************************)
(* The invariant.                                                          *)
(***************************************************************************)

LEMMA InitInv == ASSUME Init PROVE IInv
<1> USE DEF Init
<1>1. /\ Len(runs) = 0 /\ DOMAIN runs = {} /\ Len(refs) = 0 /\ DOMAIN refs = {}
      /\ 0..0 = {0}
  OBVIOUS
<1>2. TypeOK
  <2>1. NewCall \in [at : Places, node : Nodes, key : Keys, lock : {0}, answer : {0}]
    <3>1. (CHOOSE n \in Nodes : TRUE) \in Nodes /\ (CHOOSE k \in Keys : TRUE) \in Keys
      BY IdempotencyAssumption
    <3>2. QED
      BY <3>1 DEF NewCall, Places
  <2>2. budget \in [expiries : Nat, failures : Nat]
    BY IdempotencyAssumption
  <2>3. shared \in BOOLEAN
    BY IdempotencyAssumption
  <2>4. recs \in [Stores -> [Keys -> {0}]] /\ expired \in [Stores -> SUBSET Keys]
    OBVIOUS
  <2>5. /\ order \in [Nodes -> Seq(Keys)]
        /\ index \in [Nodes -> Seq(1..0)]
        /\ refs \in Seq(Nat) /\ runs \in Seq([node : Nodes, key : Keys])
        /\ holder \in [DOMAIN refs -> Calls \cup {NoCall}]
    OBVIOUS
  <2>6. locks \in [Nodes -> [Keys -> {0}]]
    OBVIOUS
  <2>7. /\ \A s \in Stores : \A k \in expired[s] : recs[s][k] # 0
        /\ gone \subseteq Calls /\ lost \subseteq Keys
    OBVIOUS
  <2>8. call \in [Calls -> [at : Places, node : Nodes, key : Keys, lock : {0}, answer : {0}]]
    BY <2>1
  <2>9. QED
    BY <1>1, <2>2, <2>3, <2>4, <2>5, <2>6, <2>7, <2>8 DEF TypeOK
<1>3. LockInv
  BY <1>1 DEF LockInv, LocksDistinct, LockOfUser, LockInUse, RefsCounted, HolderInside, Using,
              NewCall
<1>4. OnceInv
  BY <1>1 DEF OnceInv, RunsAreFirst, AnswersInHand, RunsRecorded, RunsOnce, NewCall
<1>5. CapHeld
  <2>1. \A n \in Nodes : Len(order[n]) = 0
    OBVIOUS
  <2>2. \A n \in Nodes, k \in Keys : recs[n][k] = 0
    BY DEF Stores
  <2>3. QED
    BY <2>1, <2>2, IdempotencyAssumption DEF CapHeld
<1>6. IndexInv
  <2>1. \A n \in Nodes : Len(index[n]) = 0 /\ DOMAIN index[n] = {}
    OBVIOUS
  <2>2. QED
    BY <2>1, IdempotencyAssumption DEF IndexInv
<1>7. RunFound
  BY <1>1 DEF RunFound
<1>8. QED
  BY <1>2, <1>3, <1>4, <1>5, <1>6, <1>7 DEF IInv

LEMMA StepInv == ASSUME IInv, [Next]_vars PROVE IInv'
<1> USE DEF IInv
<1>1. ASSUME NEW c \in Calls, NEW t \in Targets[c], Arrive(c, t[1], t[2]) PROVE IInv'
  <2>1. TypeOK' /\ t[1] \in Nodes /\ t[2] \in Keys
    BY <1>1, ArriveType
  <2>2. LockInv'
    BY <1>1, ArriveLocks
  <2>3. OnceInv'
    BY <1>1, <2>1, ArriveOnce
  <2>4. CapHeld'
    BY <1>1, <2>1, LookUpCap DEF Arrive
  <2>5. IndexInv' /\ RunFound'
    BY <1>1, IndexQuiet DEF Arrive
  <2>6. QED
    BY <2>1, <2>2, <2>3, <2>4, <2>5
<1>2. ASSUME NEW c \in Calls, Join(c) PROVE IInv'
  <2>1. CapHeld' /\ IndexInv' /\ RunFound'
    BY <1>2, CapQuiet, IndexQuiet DEF Join, storeVars
  <2>2. QED
    BY <1>2, <2>1, JoinType, JoinLocks, OutsideOnce
<1>3. ASSUME NEW c \in Calls, Acquire(c) PROVE IInv'
  <2>1. CapHeld' /\ IndexInv' /\ RunFound'
    BY <1>3, CapQuiet, IndexQuiet DEF Acquire, storeVars
  <2>2. QED
    BY <1>3, <2>1, AcquireType, AcquireLocks, OutsideOnce
<1>4. ASSUME NEW c \in Calls, Check(c) PROVE IInv'
  <2>1. CapHeld'
    BY <1>4, CallType, LookUpCap DEF Check
  <2>2. IndexInv' /\ RunFound'
    BY <1>4, IndexQuiet DEF Check
  <2>3. QED
    BY <1>4, <2>1, <2>2, CheckType, InsideLocks, CheckOnce
<1>5. ASSUME NEW c \in Calls, Execute(c) PROVE IInv'
  <2>1. CapHeld'
    BY <1>5, CapQuiet DEF Execute, storeVars
  <2>2. QED
    BY <1>5, <2>1, ExecuteType, InsideLocks, ExecuteOnce, ExecuteIndexInv
<1>6. ASSUME NEW c \in Calls, ExecuteError(c) PROVE IInv'
  <2>1. CapHeld' /\ IndexInv' /\ RunFound'
    BY <1>6, CapQuiet, IndexQuiet DEF ExecuteError, storeVars
  <2>2. QED
    BY <1>6, <2>1, ExecuteErrorType, InsideLocks, OutsideOnce
<1>7. ASSUME NEW c \in Calls, Put(c) PROVE IInv'
  <2>1. AnswersInHand
    BY DEF OnceInv
  <2>2. IndexInv' /\ RunFound'
    BY <1>7, IndexQuiet DEF Put
  <2>3. QED
    BY <1>7, <2>1, <2>2, PutType, InsideLocks, PutOnce, PutCap
<1>8. ASSUME NEW c \in Calls, Unlock(c) PROVE IInv'
  <2>1. CapHeld' /\ IndexInv' /\ RunFound'
    BY <1>8, CapQuiet, IndexQuiet DEF Unlock, storeVars
  <2>2. QED
    BY <1>8, <2>1, UnlockType, UnlockLocks, OutsideOnce
<1>9. ASSUME NEW c \in Calls, Release(c) PROVE IInv'
  <2>1. CapHeld' /\ IndexInv' /\ RunFound'
    BY <1>9, CapQuiet, IndexQuiet DEF Release, storeVars
  <2>2. QED
    BY <1>9, <2>1, ReleaseType, ReleaseLocks, OutsideOnce
<1>10. ASSUME NEW c \in Calls, GiveUp(c) PROVE IInv'
  <2>1. UNCHANGED <<storeVars, lockVars, index, call, runs, lost>>
    BY <1>10 DEF GiveUp
  <2>2. LockInv'
    BY <2>1, LockQuiet DEF Using, Inside
  <2>3. OnceInv'
    BY <2>1, OnceQuiet, FoundSame DEF storeVars
  <2>4. CapHeld' /\ IndexInv' /\ RunFound'
    BY <2>1, CapQuiet, IndexQuiet DEF storeVars
  <2>5. QED
    BY <1>10, <2>2, <2>3, <2>4, GiveUpType
<1>11. ASSUME NEW s \in Stores, NEW k \in Keys, Expire(s, k) PROVE IInv'
  <2>1. UNCHANGED <<recs, order, lockVars, index, call, runs>>
    BY <1>11 DEF Expire
  <2>2. LockInv'
    BY <2>1, LockQuiet DEF Using, Inside
  <2>3. CapHeld' /\ IndexInv' /\ RunFound'
    BY <2>1, CapQuiet, IndexQuiet
  <2>4. QED
    BY <1>11, <2>2, <2>3, ExpireOnce, ExpireType
<1>12. CASE UNCHANGED vars
  <2>1. UNCHANGED <<storeVars, lockVars, index, call, gone, runs, lost, budget>>
    BY <1>12 DEF vars, storeVars, lockVars
  <2>2. TypeOK'
    BY <2>1 DEF TypeOK, storeVars, lockVars, Stores
  <2>3. LockInv'
    BY <2>1, LockQuiet DEF Using, Inside
  <2>4. OnceInv'
    BY <2>1, OnceQuiet, FoundSame DEF storeVars
  <2>5. CapHeld' /\ IndexInv' /\ RunFound'
    BY <2>1, CapQuiet, IndexQuiet DEF storeVars
  <2>6. QED
    BY <2>2, <2>3, <2>4, <2>5
<1>13. QED
  BY <1>1, <1>2, <1>3, <1>4, <1>5, <1>6, <1>7, <1>8, <1>9, <1>10, <1>11, <1>12
  DEF Next, Serve

LEMMA SpecInv == Spec => []IInv
<1>1. Init => IInv
  BY InitInv
<1>2. IInv /\ [Next]_vars => IInv'
  BY StepInv
<1>3. QED
  BY <1>1, <1>2, PTL DEF Spec

(***************************************************************************)
(* The theorems.                                                           *)
(***************************************************************************)

(* The types of the state: among them, that no expired record is listed    *)
(* that the store does not have (idempotency.go, Get and Put).             *)
THEOREM TypeCorrect == Spec => []TypeOK
<1>1. IInv => TypeOK
  BY DEF IInv
<1>2. QED
  BY <1>1, SpecInv, PTL

(* "each lock is removed once no request references it" (keyMutex): the    *)
(* lock of a key is in the map exactly while calls use it, and counts them. *)
THEOREM LocksAreReferenced == Spec => []LocksReferenced
<1>1. IInv => LocksReferenced
  <2> SUFFICES ASSUME IInv, NEW n \in Nodes, NEW k \in Keys
               PROVE  LET users == {c \in Calls : Using(c) /\ call[c].node = n /\ call[c].key = k}
                      IN  /\ locks[n][k] = 0 <=> users = {}
                          /\ \A c \in users : call[c].lock = locks[n][k]
                          /\ users # {} => refs[locks[n][k]] = Cardinality(users)
    BY DEF LocksReferenced, Using
  <2> DEFINE users == {c \in Calls : Using(c) /\ call[c].node = n /\ call[c].key = k}
  <2>1. \A c \in Calls : Using(c) /\ call[c].node = n /\ call[c].key = k =>
           call[c].lock = locks[n][k] /\ locks[n][k] # 0
    BY DEF IInv, LockInv, LockOfUser
  <2>2. locks[n][k] # 0 => \E c \in Calls : Using(c) /\ call[c].node = n /\ call[c].key = k
    BY DEF IInv, LockInv, LockInUse
  <2>3. ASSUME users # {} PROVE refs[locks[n][k]] = Cardinality(users)
    <3>1. PICK c \in users : TRUE
      BY <2>3
    <3>2. locks[n][k] \in DOMAIN refs
      BY <2>1, <3>1, CallType DEF IInv
    <3>3. users \subseteq Users(locks[n][k])
      BY <2>1 DEF Users
    <3>4. Users(locks[n][k]) \subseteq users
      BY <2>1, <3>1, OneKeyPerLock DEF Users, IInv
    <3>5. QED
      BY <3>2, <3>3, <3>4 DEF IInv, LockInv, RefsCounted
  <2>4. QED
    BY <2>1, <2>2, <2>3
<1>2. QED
  BY <1>1, SpecInv, PTL

(* No two calls of a node and a key are between lock and unlock.           *)
THEOREM OneCallInside ==
    Spec => [](\A c, d \in Calls :
                   /\ Inside(c) /\ Inside(d)
                   /\ call[c].node = call[d].node /\ call[c].key = call[d].key
                   => c = d)
<1>1. IInv => \A c, d \in Calls :
                  /\ Inside(c) /\ Inside(d)
                  /\ call[c].node = call[d].node /\ call[c].key = call[d].key
                  => c = d
  BY OneInside DEF IInv
<1>2. QED
  BY <1>1, SpecInv, PTL

(* KI-29: duplicates are replayed, not executed again, while the record of *)
(* their key is kept.                                                      *)
THEOREM ExecutedOnce == Spec => []OncePerNode
<1>1. IInv => OncePerNode
  <2> SUFFICES ASSUME IInv, NEW n \in Nodes, NEW k \in Keys, k \notin lost
               PROVE  Cardinality({i \in DOMAIN runs : runs[i] = [node |-> n, key |-> k]}) <= 1
    BY DEF OncePerNode
  <2> DEFINE S == {i \in DOMAIN runs : runs[i] = [node |-> n, key |-> k]}
  <2>1. \A i, j \in S : i = j
    BY DEF IInv, OnceInv, RunsOnce
  <2>2. CASE S = {}
    BY <2>2, FS_EmptySet
  <2>3. CASE S # {}
    <3>1. PICK i : i \in S
      BY <2>3
    <3>2. S = {i}
      BY <3>1, <2>1
    <3>3. Cardinality(S) = 1
      BY <3>2, FS_Singleton
    <3>4. QED
      BY <3>3
  <2>4. QED
    BY <2>2, <2>3
<1>2. QED
  BY <1>1, SpecInv, PTL

(* "a hard FIFO cap" (memoryIdempotency): the map and its order stay       *)
(* within it, though expired keys stay queued.                             *)
THEOREM CapIsHeld == Spec => []CapHeld
<1>1. IInv => CapHeld
  BY DEF IInv
<1>2. QED
  BY <1>1, SpecInv, PTL

(* runIndex: a run is found on its node until MaxIndexed later ones are    *)
(* indexed there.                                                          *)
THEOREM RunsAreFound == Spec => []RunFound
<1>1. IInv => RunFound
  BY DEF IInv
<1>2. QED
  BY <1>1, SpecInv, PTL

=============================================================================
