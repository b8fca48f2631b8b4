---------------------------- MODULE RotationProofs ----------------------------
(* Theorems about Rotation: any consumers, cache periods, histories and    *)
(* operators who ask at any time.                                          *)
EXTENDS Rotation, Collections, SequenceTheorems, TLAPS

(***************************************************************************)
(* The inductive invariant.                                                *)
(***************************************************************************)

(* What no consumer escapes: its cache holds published keys only and is    *)
(* refetched in time.                                                      *)
CachesKept ==
    \A c \in Consumers : cache[c] \subseteq Published /\ clock - fetched[c] <= Period[c]

RunsOrdered ==
    \A c \in Consumers : \A i, j \in DOMAIN runs[c] : i < j => runs[c][i].runAt < runs[c][j].runAt

(* A key that a consumer once accepted it accepts for good. *)
EvidenceLasts ==
    \A c \in Consumers : \A i \in DOMAIN runs[c] :
        runs[c][i].canary = "passed" => Accepts(c, runs[c][i].key)

(* Who has fetched since the advice has the key it is about. *)
FetchedSince ==
    advice # NoAdvice => \A c \in Consumers : fetched[c] > advice.at => announced \in cache[c]

Concerned(c) == \A issuer \in Issuers : UsesIssuer(c, issuer)

(* Sound advice waits for the caches of those not seen to accept the key.  *)
AdviceCovers ==
    advice # NoAdvice /\ advice.sound =>
        \A c \in Consumers : Concerned(c) => Accepts(c, announced) \/ Period[c] < advice.grace

RInv ==
    /\ TypeOK
    /\ CachesKept
    /\ RunsOrdered
    /\ EvidenceLasts
    /\ FetchedSince

(* The grace period is capped and rounded down, so no cache may outlive    *)
(* the cap, nor be as short as the unit of time without the floor.         *)
PeriodsCovered ==
    \A c \in Consumers : Period[c] < GraceCeiling /\ (Period[c] > 1 \/ GraceFloor > 1)

GInv == AdviceCovers /\ GraceSuffices

(***************************************************************************)
(* Largest elements.                                                       *)
(***************************************************************************)

LEMMA LargestIs ==
    ASSUME NEW S, IsFiniteSet(S), S \subseteq Int, S # {}
    PROVE  Largest(S) \in S /\ \A x \in S : x <= Largest(S)
BY FiniteMax DEF Largest

(***************************************************************************)
(* Histories.                                                              *)
(***************************************************************************)

LEMMA RunsAre ==
    ASSUME TypeOK, NEW c \in Consumers
    PROVE  /\ Len(runs[c]) \in Nat /\ DOMAIN runs[c] = 1..Len(runs[c])
           /\ \A i \in DOMAIN runs[c] :
                 /\ runs[c][i] \in Result /\ runs[c][i].runAt \in 0..clock
                 /\ runs[c][i].canary \in {"passed", "failed", "none"}
           /\ clock \in Nat
<1>1. runs[c] \in Seq(Result)
  BY DEF TypeOK
<1>2. \A r \in Result : r.runAt \in 0..clock /\ r.canary \in {"passed", "failed", "none"}
  BY DEF Result
<1>3. /\ Len(runs[c]) \in Nat /\ DOMAIN runs[c] = 1..Len(runs[c])
      /\ \A i \in DOMAIN runs[c] : runs[c][i] \in Result
  BY <1>1, LenProperties, ElementOfSeq
<1>4. QED
  BY <1>2, <1>3 DEF TypeOK

(* A history is what the store holds of a consumer, or the end of it. *)
LEMMA HistoryIs ==
    ASSUME TypeOK, NEW c \in Consumers
    PROVE  /\ DOMAIN ProbeHistory(c) = 1..Len(ProbeHistory(c)) /\ Len(ProbeHistory(c)) \in Nat
           /\ \A i \in DOMAIN ProbeHistory(c) : \E j \in DOMAIN runs[c] : ProbeHistory(c)[i] = runs[c][j]
           /\ Len(runs[c]) <= HistoryLimit => ProbeHistory(c) = runs[c]
<1> DEFINE n == Len(runs[c])
           m == IF n > HistoryLimit THEN n - HistoryLimit + 1 ELSE 1
           h == SubSeq(runs[c], m, n)
<1>0. n \in Nat /\ m \in Nat /\ m >= 1 /\ DOMAIN runs[c] = 1..n /\ runs[c] \in Seq(Result)
  BY RunsAre, RotationAssumption DEF TypeOK
<1>1. \A i \in m..n : runs[c][i] \in Result
  BY <1>0, RunsAre
<1> HIDE DEF m, n
<1>2. /\ h \in Seq(Result)
      /\ Len(h) = IF m <= n THEN n - m + 1 ELSE 0
      /\ \A i \in 1..(n - m + 1) : h[i] = runs[c][m + i - 1]
  BY <1>0, <1>1, SubSeqProperties
<1> HIDE DEF h
<1>3. DOMAIN h = 1..Len(h) /\ Len(h) \in Nat
  BY <1>2, LenProperties
<1>4. ASSUME NEW i \in DOMAIN h PROVE \E j \in DOMAIN runs[c] : h[i] = runs[c][j]
  <2>1. i \in 1..(n - m + 1) /\ m + i - 1 \in 1..n
    BY <1>0, <1>2, <1>3
  <2>2. QED
    BY <1>0, <1>2, <2>1
<1>5. ASSUME m = 1 PROVE h = runs[c]
  <2>1. Len(h) = n /\ \A i \in 1..n : h[i] = runs[c][i]
    BY <1>0, <1>2, <1>5
  <2>2. QED
    BY <1>0, <1>2, <2>1, SeqEqual DEF n
<1>6. n <= HistoryLimit => m = 1
  BY <1>0, RotationAssumption DEF m
<1>7. ProbeHistory(c) = h
  BY DEF ProbeHistory, h, m, n
<1>8. QED
  BY <1>3, <1>4, <1>5, <1>6, <1>7 DEF n

(* What the resolver reads off a history. *)
LEMMA HistoryTypes ==
    ASSUME TypeOK, NEW c \in Consumers
    PROVE  /\ \A i \in DOMAIN ProbeHistory(c) : ProbeHistory(c)[i].runAt \in 0..clock
           /\ Canaries(ProbeHistory(c), clock) \subseteq Int
           /\ IsFiniteSet(Canaries(ProbeHistory(c), clock))
           /\ Pickups(ProbeHistory(c), clock) \subseteq Int
           /\ IsFiniteSet(Pickups(ProbeHistory(c), clock))
<1> DEFINE h == ProbeHistory(c)
           fresh == Canaries(h, clock)
<1>1. /\ DOMAIN h = 1..Len(h) /\ Len(h) \in Nat /\ clock \in Nat
      /\ \A i \in DOMAIN h : h[i].runAt \in 0..clock
  BY HistoryIs, RunsAre
<1>2. fresh \subseteq DOMAIN h
  BY DEF Canaries
<1>3. fresh \subseteq Int /\ IsFiniteSet(fresh)
  <2> HIDE DEF h, fresh
  <2>1. IsFiniteSet(DOMAIN h)
    BY <1>1, FS_Interval
  <2>2. fresh \subseteq Int
    BY <1>1, <1>2
  <2>3. QED
    BY <1>2, <2>1, <2>2, FS_Subset
<1>4. Pickups(h, clock) \subseteq (0 - clock)..clock
  <2>1. \A t \in Transitions(h, clock) : t[1] \in DOMAIN h /\ t[2] \in DOMAIN h
    BY <1>2 DEF Transitions
  <2>2. \A t \in Transitions(h, clock) : Gap(h, t) \in (0 - clock)..clock
    BY <1>1, <2>1 DEF Gap
  <2>3. QED
    BY <2>2 DEF Pickups
<1>5. IsFiniteSet((0 - clock)..clock) /\ (0 - clock)..clock \subseteq Int
  BY <1>1, FS_Interval
<1>6. QED
  BY <1>1, <1>3, <1>4, <1>5, FS_Subset

LEMMA WindowType ==
    ASSUME TypeOK, NEW c \in Consumers
    PROVE  MeasuredWindow(ProbeHistory(c), clock) \in Int
BY HistoryTypes, LargestIs DEF MeasuredWindow, NoTime

(* A canary the resolver relies on is one the store holds. *)
LEMMA CanaryIs ==
    ASSUME TypeOK, NEW c \in Consumers
    PROVE  \/ FreshCanary(ProbeHistory(c), clock).canary = "none"
           \/ \E j \in DOMAIN runs[c] : FreshCanary(ProbeHistory(c), clock) = runs[c][j]
<1> DEFINE h == ProbeHistory(c)
           fresh == Canaries(h, clock)
<1>1. CASE fresh = {}
  BY <1>1 DEF FreshCanary
<1>2. CASE fresh # {}
  <2>1. Largest(fresh) \in fresh
    BY <1>2, HistoryTypes, LargestIs
  <2>2. FreshCanary(h, clock) = h[Largest(fresh)] /\ Largest(fresh) \in DOMAIN h
    BY <1>2, <2>1 DEF FreshCanary, Canaries
  <2>3. QED
    BY <2>2, HistoryIs
<1>3. QED
  BY <1>1, <1>2

(***************************************************************************)
(* The grace period.                                                       *)
(***************************************************************************)

(* GracePeriod outlasts every window up to its cap. *)
LEMMA GraceOutlasts ==
    ASSUME NEW windows, IsFiniteSet(windows), windows \subseteq Int
    PROVE  /\ GracePeriod(windows) \in 0..GraceCeiling
           /\ \A w \in windows, period \in Nat \ {0} :
                 /\ period <= w
                 /\ period < GraceCeiling
                 /\ period > 1 \/ GraceFloor > 1
                 => period < GracePeriod(windows)
<1> DEFINE S == windows \cup {0}
           largest == Largest(S)
           rec == (3 * largest) \div 2
<1>1. IsFiniteSet(S) /\ S \subseteq Int /\ S # {}
  BY FS_AddElement
<1>2. largest \in S /\ \A w \in S : w <= largest
  BY <1>1, LargestIs
<1>3. largest \in Int /\ 0 <= largest
  BY <1>1, <1>2
<1> HIDE DEF largest
<1>4. rec \in Int /\ 0 <= rec /\ 2 * rec <= 3 * largest /\ 3 * largest <= 2 * rec + 1
  BY <1>3
<1>5. GraceFloor \in Nat /\ GraceCeiling \in Nat /\ GraceFloor <= GraceCeiling
  BY RotationAssumption
<1>6. GracePeriod(windows) = IF rec < GraceFloor THEN GraceFloor
                             ELSE IF rec > GraceCeiling THEN GraceCeiling ELSE rec
  BY DEF GracePeriod, largest
<1> HIDE DEF rec
<1>7. GracePeriod(windows) \in 0..GraceCeiling
  BY <1>4, <1>5, <1>6
<1>8. ASSUME NEW w \in windows, NEW period \in Nat \ {0}, period <= w, period < GraceCeiling,
             period > 1 \/ GraceFloor > 1
      PROVE  period < GracePeriod(windows)
  <2>1. w \in Int /\ w <= largest
    BY <1>2
  <2>2. period <= rec /\ (period > 1 => period < rec)
    BY <1>3, <1>4, <1>8, <2>1
  <2>3. QED
    BY <1>4, <1>5, <1>6, <1>8, <2>2
<1>9. QED
  BY <1>7, <1>8

(***************************************************************************)
(* The advice.                                                             *)
(***************************************************************************)

LEMMA VerdictWindow ==
    ASSUME TypeOK, NEW c \in Consumers, NEW issuer
    PROVE  Verdict(c, Rotate(issuer), ProbeHistory(c), clock).window \in Int
<1> DEFINE h == ProbeHistory(c)
<1>1. NoTime \in Int /\ ReadyWindow(c) \in Int /\ Contract[c].ttl \in Int
  BY RotationAssumption DEF ReadyWindow, NoTime
<1>2. MeasuredWindow(h, clock) \in Int
  BY WindowType
<1>3. RotateKey(c, h, clock).window \in Int
  BY <1>1, <1>2 DEF RotateKey
<1>4. QED
  BY <1>1, <1>3 DEF Verdict, Rotate, Plain

LEMMA AdviceIs ==
    ASSUME TypeOK, announced # 0, NEW issuer, Advice(issuer) # NoAdvice
    PROVE  /\ Advice(issuer) \in [key : {announced}, at : {clock}, grace : 0..GraceCeiling,
                                  sound : BOOLEAN]
           /\ \A c \in Consumers :
                 LET said   == Verdict(c, Rotate(issuer), ProbeHistory(c), clock)
                     canary == FreshCanary(ProbeHistory(c), clock)
                 IN  /\ said.verdict \in {"ready", "none"}
                     /\ Advice(issuer).sound => canary.canary = "none" \/ canary.key = announced
                     /\ \A period \in Nat \ {0} :
                           /\ said.window # NoTime /\ period <= said.window
                           /\ period < GraceCeiling
                           /\ period > 1 \/ GraceFloor > 1
                           => period < Advice(issuer).grace
<1> DEFINE found     == [c \in Consumers |-> Verdict(c, Rotate(issuer), ProbeHistory(c), clock)]
           all       == {found[c].window : c \in Consumers}
           windows   == all \ {NoTime}
           canary(c) == FreshCanary(ProbeHistory(c), clock)
           grace     == IF windows = {} THEN 0 ELSE GracePeriod(windows)
           sound     == \A c \in Consumers : canary(c).canary = "none" \/ canary(c).key = announced
<1>1. /\ \A c \in Consumers : found[c].verdict \in {"ready", "none"}
      /\ Advice(issuer) = [key |-> announced, at |-> clock, grace |-> grace, sound |-> sound]
  BY DEF Advice
<1>2. IsFiniteSet(windows) /\ windows \subseteq Int
  <2> DEFINE f == [c \in Consumers |-> found[c].window]
  <2>1. f \in [Consumers -> Int]
    BY VerdictWindow
  <2>2. IsFiniteSet({f[c] : c \in Consumers})
    <3>1. IsFiniteSet(Consumers)
      BY RotationAssumption
    <3> HIDE DEF f
    <3>2. QED
      BY <2>1, <3>1, FiniteImage
  <2>3. all = {f[c] : c \in Consumers}
    OBVIOUS
  <2>4. all \subseteq Int
    BY <2>1
  <2> HIDE DEF all
  <2>5. QED
    BY <2>2, <2>3, <2>4, FS_Subset
<1> HIDE DEF windows
<1>3. grace \in 0..GraceCeiling
  <2>1. GraceCeiling \in Nat
    BY RotationAssumption
  <2>2. GracePeriod(windows) \in 0..GraceCeiling
    BY <1>2, GraceOutlasts
  <2>3. QED
    BY <2>1, <2>2
<1> HIDE DEF grace
<1>4. ASSUME NEW c \in Consumers, NEW period \in Nat \ {0},
             found[c].window # NoTime, period <= found[c].window,
             period < GraceCeiling, period > 1 \/ GraceFloor > 1
      PROVE  period < grace
  <2>1. found[c].window \in windows
    BY <1>4 DEF windows
  <2> HIDE DEF found
  <2>2. QED
    BY <1>2, <1>4, <2>1, GraceOutlasts DEF grace
<1>5. sound \in BOOLEAN
  OBVIOUS
<1> HIDE DEF sound
<1>6. /\ Advice(issuer).grace = grace /\ Advice(issuer).sound = sound
      /\ Advice(issuer) \in [key : {announced}, at : {clock}, grace : 0..GraceCeiling, sound : BOOLEAN]
  BY <1>1, <1>3, <1>5
<1>7. QED
  BY <1>1, <1>4, <1>6 DEF sound

(***************************************************************************)
(* Type correctness.                                                       *)
(***************************************************************************)

(* A history of an earlier time is one of a later time. *)
LEMMA LaterResults ==
    ASSUME NEW n \in Nat, n >= clock, clock \in Nat, NEW s \in Seq(Result)
    PROVE  s \in Seq([canary : {"passed", "failed", "none"}, claims : {"probed", "none"}, runAt : 0..n,
                      key : 0..MaxKeys])
<1>1. Result \subseteq [canary : {"passed", "failed", "none"}, claims : {"probed", "none"}, runAt : 0..n,
                        key : 0..MaxKeys]
  BY DEF Result
<1>2. QED
  BY <1>1, SeqMonotonic

LEMMA RotationTypeInit == Init => TypeOK
<1> SUFFICES ASSUME Init PROVE TypeOK
  OBVIOUS
<1>1. runs \in [Consumers -> Seq(Result)]
  BY DEF Init
<1>2. advice = NoAdvice
  BY DEF Init
<1>3. /\ clock \in 0..MaxClock /\ active \in 1..MaxKeys
      /\ announced \in {0, active + 1} \cap 0..MaxKeys
      /\ trusted \in BOOLEAN
  <2>1. MaxClock \in Nat /\ MaxKeys \in Nat /\ MaxKeys # 0
    BY RotationAssumption
  <2>2. clock = 0 /\ active = 1 /\ announced = 0 /\ trusted = FALSE
    BY DEF Init
  <2>3. 0 \in 0..MaxClock /\ 1 \in 1..MaxKeys /\ 0 \in 0..MaxKeys
    BY <2>1
  <2>4. QED
    BY <2>2, <2>3
<1>4. /\ cache \in [Consumers -> SUBSET (1..MaxKeys)]
      /\ fetched \in [Consumers -> 0..clock]
  <2>1. {1} \in SUBSET (1..MaxKeys) /\ 0 \in 0..clock
    BY RotationAssumption DEF Init
  <2>2. cache = [c \in Consumers |-> {1}] /\ fetched = [c \in Consumers |-> 0]
    BY DEF Init
  <2>3. QED
    BY <2>1, <2>2
<1>5. QED
  BY <1>1, <1>2, <1>3, <1>4 DEF TypeOK

LEMMA SavedType ==
    ASSUME TypeOK, NEW c \in Consumers, NEW run \in Result, Saved(c, run)
    PROVE  /\ runs' \in [Consumers -> Seq(Result)] /\ UNCHANGED <<clock, active, announced, advice, trusted>>
           /\ Len(runs'[c]) = Len(runs[c]) + 1 /\ DOMAIN runs'[c] = 1..(Len(runs[c]) + 1)
           /\ runs'[c][Len(runs[c]) + 1] = run
           /\ \A i \in DOMAIN runs[c] : runs'[c][i] = runs[c][i]
           /\ \A d \in Consumers : d # c => runs'[d] = runs[d]
           /\ DOMAIN runs[c] # {} => runs[c][Len(runs[c])].runAt < clock
<1>1. /\ runs[c] \in Seq(Result) /\ runs' = [runs EXCEPT ![c] = Append(runs[c], run)]
      /\ runs \in [Consumers -> Seq(Result)]
  BY DEF Saved, TypeOK
<1>2. /\ Append(runs[c], run) \in Seq(Result)
      /\ Len(Append(runs[c], run)) = Len(runs[c]) + 1
      /\ \A i \in 1..Len(runs[c]) : Append(runs[c], run)[i] = runs[c][i]
      /\ Append(runs[c], run)[Len(runs[c]) + 1] = run
  BY <1>1, AppendProperties
<1>3. DOMAIN Append(runs[c], run) = 1..(Len(runs[c]) + 1)
  BY <1>2, LenProperties
<1>4. DOMAIN runs[c] # {} => runs[c][Len(runs[c])].runAt < clock
  BY DEF Saved, Last
<1>5. UNCHANGED <<clock, active, announced, advice, trusted>>
  BY DEF Saved
<1>6. QED
  BY <1>1, <1>2, <1>3, <1>4, <1>5, RunsAre

(* A run saves a well-formed result, and a canary that passed is evidence. *)
LEMMA ProbeRunSaves ==
    ASSUME TypeOK, NEW c \in Consumers, ProbeRun(c)
    PROVE  \E run \in Result :
              /\ Saved(c, run)
              /\ run.runAt = clock
              /\ run.canary = "passed" =>
                    announced # 0 /\ run.key = announced /\ Accepts(c, announced)
              /\ \/ UNCHANGED <<cache, fetched>>
                 \/ /\ announced # 0
                    /\ cache' = [cache EXCEPT ![c] = Published]
                    /\ fetched' = [fetched EXCEPT ![c] = clock]
<1>1. PICK canary \in {"passed", "failed", "none"} :
        /\ announced = 0 => canary = "none"
        /\ canary = "passed" => Accepts(c, announced)
        /\ Saved(c, [canary |-> canary,
                     claims |-> IF canary = "none" /\ announced # 0 THEN "none" ELSE "probed",
                     runAt |-> clock, key |-> IF canary = "none" THEN 0 ELSE announced])
        /\ IF canary = "passed" /\ announced \notin cache[c]
           THEN /\ cache' = [cache EXCEPT ![c] = Published]
                /\ fetched' = [fetched EXCEPT ![c] = clock]
           ELSE UNCHANGED <<cache, fetched>>
  BY DEF ProbeRun
<1> DEFINE run == [canary |-> canary,
                   claims |-> IF canary = "none" /\ announced # 0 THEN "none" ELSE "probed",
                   runAt |-> clock, key |-> IF canary = "none" THEN 0 ELSE announced]
<1>2. clock \in 0..clock /\ announced \in 0..MaxKeys
  BY DEF TypeOK
<1>3. run \in Result
  BY <1>2, RotationAssumption DEF Result
<1>4. QED
  BY <1>1, <1>3

LEMMA HarnessRunSaves ==
    ASSUME TypeOK, NEW c \in Consumers, HarnessRun(c)
    PROVE  /\ \E run \in Result : Saved(c, run) /\ run.runAt = clock /\ run.canary = "none"
           /\ UNCHANGED <<cache, fetched>>
<1>1. clock \in 0..clock /\ 0 \in 0..MaxKeys
  BY RotationAssumption DEF TypeOK
<1>2. [canary |-> "none", claims |-> "none", runAt |-> clock, key |-> 0] \in Result
  BY <1>1 DEF Result
<1>3. QED
  BY <1>2 DEF HarnessRun


(* What the types are made of. *)
LEMMA TypesAre ==
    ASSUME TypeOK
    PROVE  /\ clock \in Nat /\ active \in Nat \ {0} /\ announced \in Nat
           /\ announced # 0 => announced = active + 1
           /\ Published \subseteq 1..MaxKeys
           /\ \A c \in Consumers : fetched[c] \in Nat /\ fetched[c] <= clock
           /\ MaxKeys \in Nat /\ Period \in [Consumers -> Nat \ {0}]
<1>1. \A c \in Consumers : fetched[c] \in 0..clock
  BY DEF TypeOK
<1>2. QED
  BY <1>1, RotationAssumption DEF TypeOK, Published

(* Nothing but the cache of one consumer is touched by a fetch. *)
LEMMA FetchedType ==
    ASSUME TypeOK, NEW c \in Consumers,
           cache' = [cache EXCEPT ![c] = Published], fetched' = [fetched EXCEPT ![c] = clock]
    PROVE  /\ cache' \in [Consumers -> SUBSET (1..MaxKeys)]
           /\ fetched' \in [Consumers -> 0..clock]
           /\ cache'[c] = Published /\ fetched'[c] = clock
           /\ \A d \in Consumers : d # c => cache'[d] = cache[d] /\ fetched'[d] = fetched[d]
<1>1. /\ cache \in [Consumers -> SUBSET (1..MaxKeys)] /\ fetched \in [Consumers -> 0..clock]
      /\ clock \in 0..clock
  BY DEF TypeOK
<1>2. Published \in SUBSET (1..MaxKeys)
  BY TypesAre
<1>3. QED
  BY <1>1, <1>2

LEMMA RotationTypeStep == TypeOK /\ [Next]_vars => TypeOK'
<1> SUFFICES ASSUME TypeOK, [Next]_vars PROVE TypeOK'
  OBVIOUS
<1>0. clock \in Nat /\ MaxClock \in Nat
  BY RotationAssumption DEF TypeOK
<1>1. ASSUME Tick PROVE TypeOK'
  <2>1. clock' = clock + 1 /\ clock' \in 0..MaxClock /\ clock' \in Nat
    BY <1>1, <1>0 DEF Tick, TypeOK
  <2>2. UNCHANGED <<active, announced, cache, fetched, runs, advice, trusted>>
    BY <1>1 DEF Tick
  <2>3. \A c \in Consumers : runs[c] \in Seq(Result)'
    <3> TAKE c \in Consumers
    <3>1. runs[c] \in Seq(Result)
      BY DEF TypeOK
    <3>2. PICK n \in Nat : n = clock'
      BY <2>1
    <3>3. runs[c] \in Seq([canary : {"passed", "failed", "none"}, claims : {"probed", "none"},
                           runAt : 0..n, key : 0..MaxKeys])
      BY <3>1, <3>2, <2>1, <1>0, LaterResults
    <3>4. QED
      BY <3>2, <3>3 DEF Result
  <2>4. runs' \in [Consumers -> Seq(Result)']
    BY <2>2, <2>3 DEF TypeOK
  <2>5. 0..clock \subseteq 0..clock'
    BY <2>1, <1>0
  <2>6. fetched' \in [Consumers -> 0..clock']
    BY <2>2, <2>5 DEF TypeOK
  <2>7. advice # NoAdvice =>
           /\ announced # 0
           /\ advice \in [key : {announced}, at : 0..clock', grace : 0..GraceCeiling, sound : BOOLEAN]
    BY <2>5 DEF TypeOK
  <2>8. QED
    BY <2>1, <2>2, <2>4, <2>6, <2>7 DEF TypeOK
<1>2. ASSUME Announce PROVE TypeOK'
  <2>1. announced' = active + 1 /\ announced' \in 0..MaxKeys
    BY <1>2, RotationAssumption DEF Announce, TypeOK
  <2>2. UNCHANGED <<clock, active, cache, fetched, runs, advice, trusted>> /\ advice = NoAdvice
    BY <1>2 DEF Announce, TypeOK
  <2>3. Result' = Result
    BY <2>2 DEF Result
  <2>4. QED
    BY <2>1, <2>2, <2>3 DEF TypeOK
<1>3. ASSUME Promote PROVE TypeOK'
  <2>1. announced # 0 /\ active' = announced /\ announced' = 0 /\ advice' = NoAdvice
    BY <1>3 DEF Promote
  <2>2. UNCHANGED <<clock, cache, fetched, runs>> /\ trusted' = advice.sound
    BY <1>3 DEF Promote
  <2>3. active' \in 1..MaxKeys /\ announced' \in {0, active' + 1} \cap 0..MaxKeys
    BY <2>1, RotationAssumption DEF TypeOK
  <2>4. advice # NoAdvice
    <3>1. advice.key = announced
      BY <1>3 DEF Promote
    <3>2. QED
      BY <2>1, <3>1 DEF NoAdvice
  <2>5. trusted' \in BOOLEAN
    BY <2>2, <2>4 DEF TypeOK
  <2>6. Result' = Result
    BY <2>2 DEF Result
  <2>7. QED
    BY <2>1, <2>2, <2>3, <2>5, <2>6 DEF TypeOK
<1>4. ASSUME NEW c \in Consumers, Fetch(c) PROVE TypeOK'
  <2>1. UNCHANGED <<clock, active, announced, runs, advice, trusted>>
    BY <1>4 DEF Fetch
  <2>2. /\ cache' \in [Consumers -> SUBSET (1..MaxKeys)]
        /\ fetched' \in [Consumers -> 0..clock]
    BY <1>4, FetchedType DEF Fetch
  <2>3. Result' = Result
    BY <2>1 DEF Result
  <2>4. QED
    BY <2>1, <2>2, <2>3 DEF TypeOK
<1>5. ASSUME NEW c \in Consumers, NEW run \in Result, Saved(c, run),
             \/ UNCHANGED <<cache, fetched>>
             \/ cache' = [cache EXCEPT ![c] = Published] /\ fetched' = [fetched EXCEPT ![c] = clock]
      PROVE  TypeOK'
  <2>1. runs' \in [Consumers -> Seq(Result)] /\ UNCHANGED <<clock, active, announced, advice, trusted>>
    BY <1>5, SavedType
  <2>2. /\ cache' \in [Consumers -> SUBSET (1..MaxKeys)]
        /\ fetched' \in [Consumers -> 0..clock]
    BY <1>5, FetchedType DEF TypeOK
  <2>3. Result' = Result
    BY <2>1 DEF Result
  <2>4. QED
    BY <2>1, <2>2, <2>3 DEF TypeOK
<1>6. ASSUME NEW c \in Consumers, ProbeRun(c) PROVE TypeOK'
  BY <1>5, <1>6, ProbeRunSaves
<1>7. ASSUME NEW c \in Consumers, HarnessRun(c) PROVE TypeOK'
  BY <1>5, <1>7, HarnessRunSaves
<1>8. ASSUME NEW issuer \in Issuers, BlastRadius(issuer) PROVE TypeOK'
  <2>1. announced # 0 /\ advice' = Advice(issuer)
        /\ UNCHANGED <<clock, active, announced, cache, fetched, runs, trusted>>
    BY <1>8 DEF BlastRadius
  <2>2. advice' # NoAdvice =>
           advice' \in [key : {announced}, at : 0..clock, grace : 0..GraceCeiling, sound : BOOLEAN]
    <3>1. {clock} \subseteq 0..clock
      BY <1>0
    <3>2. QED
      BY <2>1, <3>1, AdviceIs
  <2>3. Result' = Result
    BY <2>1 DEF Result
  <2>4. QED
    BY <2>1, <2>2, <2>3 DEF TypeOK
<1>9. CASE UNCHANGED vars
  <2>1. Result' = Result
    BY <1>9 DEF vars, Result
  <2>2. QED
    BY <1>9, <2>1 DEF vars, TypeOK
<1>10. QED
  BY <1>1, <1>2, <1>3, <1>4, <1>6, <1>7, <1>8, <1>9 DEF Next

(* The types and names of what is stored are right, of every run. *)
THEOREM RotationTypeCorrect == Spec => []TypeOK
BY RotationTypeInit, RotationTypeStep, PTL DEF Spec

(***************************************************************************)
(* What never shrinks: the published keys, and every cache.                *)
(***************************************************************************)

(* What a step does to the state the invariants speak of. *)
Saves(c, run) ==
    /\ Saved(c, run)
    /\ run.runAt = clock
    /\ run.canary = "passed" => announced # 0 /\ run.key = announced /\ Accepts(c, announced)

Refreshes(c) ==
    cache' = [cache EXCEPT ![c] = Published] /\ fetched' = [fetched EXCEPT ![c] = clock]

LEMMA NextSteps ==
    ASSUME TypeOK, [Next]_vars
    PROVE  \/ Tick
           \/ Announce
           \/ Promote
           \/ \E c \in Consumers : Refreshes(c) /\ UNCHANGED <<clock, active, announced, runs, advice, trusted>>
           \/ \E c \in Consumers, run \in Result :
                 Saves(c, run) /\ (UNCHANGED <<cache, fetched>> \/ (Refreshes(c) /\ announced # 0))
           \/ \E issuer \in Issuers : BlastRadius(issuer)
           \/ UNCHANGED vars
<1>1. ASSUME NEW c \in Consumers, Fetch(c)
      PROVE  Refreshes(c) /\ UNCHANGED <<clock, active, announced, runs, advice, trusted>>
  BY <1>1 DEF Fetch, Refreshes
<1>2. ASSUME NEW c \in Consumers, ProbeRun(c)
      PROVE  \E run \in Result :
                Saves(c, run) /\ (UNCHANGED <<cache, fetched>> \/ (Refreshes(c) /\ announced # 0))
  <2>1. PICK run \in Result :
          /\ Saved(c, run)
          /\ run.runAt = clock
          /\ run.canary = "passed" => announced # 0 /\ run.key = announced /\ Accepts(c, announced)
          /\ \/ UNCHANGED <<cache, fetched>>
             \/ /\ announced # 0
                /\ cache' = [cache EXCEPT ![c] = Published]
                /\ fetched' = [fetched EXCEPT ![c] = clock]
    BY <1>2, ProbeRunSaves
  <2>2. Saves(c, run) /\ (UNCHANGED <<cache, fetched>> \/ (Refreshes(c) /\ announced # 0))
    BY <2>1 DEF Saves, Refreshes
  <2>3. QED
    BY <2>2
<1>3. ASSUME NEW c \in Consumers, HarnessRun(c)
      PROVE  \E run \in Result : Saves(c, run) /\ UNCHANGED <<cache, fetched>>
  <2>1. PICK run \in Result : Saved(c, run) /\ run.runAt = clock /\ run.canary = "none"
    BY <1>3, HarnessRunSaves
  <2>2. "none" # "passed"
    OBVIOUS
  <2>3. Saves(c, run)
    BY <2>1, <2>2 DEF Saves
  <2>4. QED
    BY <1>3, <2>3, HarnessRunSaves
<1>4. QED
  BY <1>1, <1>2, <1>3 DEF Next

LEMMA PublishedStays == TypeOK /\ [Next]_vars => Published \subseteq Published'
<1> SUFFICES ASSUME TypeOK, [Next]_vars PROVE Published \subseteq Published'
  OBVIOUS
<1>1. CASE Announce
  BY <1>1, TypesAre DEF Announce, Published
<1>2. CASE Promote
  BY <1>2, TypesAre DEF Promote, Published
<1>3. CASE UNCHANGED <<active, announced>>
  BY <1>3 DEF Published
<1>4. \A c \in Consumers, run \in Result : Saves(c, run) => UNCHANGED <<active, announced>>
  BY DEF Saves, Saved
<1>5. QED
  BY <1>1, <1>2, <1>3, <1>4, NextSteps DEF Tick, BlastRadius, vars

LEMMA CachesGrow ==
    TypeOK /\ CachesKept /\ [Next]_vars => \A c \in Consumers : cache[c] \subseteq cache'[c]
<1> SUFFICES ASSUME TypeOK, CachesKept, [Next]_vars
             PROVE  \A c \in Consumers : cache[c] \subseteq cache'[c]
  OBVIOUS
<1>1. \A c \in Consumers : Refreshes(c) => \A d \in Consumers : cache[d] \subseteq cache'[d]
  BY FetchedType DEF Refreshes, CachesKept
<1>2. CASE UNCHANGED cache
  BY <1>2
<1>3. QED
  BY <1>1, <1>2, NextSteps DEF Tick, Announce, Promote, BlastRadius, vars

LEMMA AcceptsLasts ==
    TypeOK /\ CachesKept /\ [Next]_vars =>
        \A c \in Consumers : \A key : Accepts(c, key) => Accepts(c, key)'
BY CachesGrow DEF Accepts

LEMMA CachesStep == TypeOK /\ CachesKept /\ [Next]_vars => CachesKept'
<1> SUFFICES ASSUME TypeOK, CachesKept, [Next]_vars, NEW c \in Consumers
             PROVE  cache'[c] \subseteq Published' /\ clock' - fetched'[c] <= Period[c]
  BY DEF CachesKept
<1>1. /\ cache[c] \subseteq Published /\ clock - fetched[c] <= Period[c]
      /\ Published \subseteq Published'
      /\ clock \in Nat /\ fetched[c] \in Nat /\ Period[c] \in Nat
  BY PublishedStays, TypesAre DEF CachesKept
<1>2. CASE Tick
  BY <1>1, <1>2 DEF Tick
<1>3. CASE UNCHANGED <<clock, cache, fetched>>
  BY <1>1, <1>3
<1>4. ASSUME NEW d \in Consumers, Refreshes(d), clock' = clock
      PROVE  cache'[c] \subseteq Published' /\ clock' - fetched'[c] <= Period[c]
  <2>1. \/ cache'[c] = Published /\ fetched'[c] = clock
        \/ cache'[c] = cache[c] /\ fetched'[c] = fetched[c]
    BY <1>4, FetchedType DEF Refreshes
  <2>2. QED
    BY <1>1, <1>4, <2>1
<1>5. \A d \in Consumers, run \in Result : Saves(d, run) => clock' = clock
  BY DEF Saves, Saved
<1>6. QED
  BY <1>2, <1>3, <1>4, <1>5, NextSteps DEF Announce, Promote, BlastRadius, vars

(***************************************************************************)
(* What the histories and the advice keep.                                 *)
(***************************************************************************)

LEMMA RunsStep == TypeOK /\ RunsOrdered /\ [Next]_vars => RunsOrdered'
<1> SUFFICES ASSUME TypeOK, RunsOrdered, [Next]_vars PROVE RunsOrdered'
  OBVIOUS
<1>1. CASE UNCHANGED runs
  BY <1>1 DEF RunsOrdered
<1>2. ASSUME NEW c \in Consumers, NEW run \in Result, Saves(c, run)
      PROVE  RunsOrdered'
  <2> SUFFICES ASSUME NEW d \in Consumers, NEW i \in DOMAIN runs'[d], NEW j \in DOMAIN runs'[d], i < j
               PROVE  runs'[d][i].runAt < runs'[d][j].runAt
    BY DEF RunsOrdered
  <2>1. CASE d # c
    <3>1. runs'[d] = runs[d]
      BY <1>2, <2>1, SavedType DEF Saves
    <3>2. QED
      BY <3>1 DEF RunsOrdered
  <2>2. CASE d = c
    <3> DEFINE n == Len(runs[c])
    <3>1. /\ n \in Nat /\ DOMAIN runs[c] = 1..n /\ DOMAIN runs'[c] = 1..(n + 1)
          /\ runs'[c][n + 1] = run /\ run.runAt = clock
          /\ \A k \in 1..n : runs'[c][k] = runs[c][k] /\ runs[c][k].runAt \in 0..clock
          /\ 1..n # {} => runs[c][n].runAt < clock
          /\ clock \in Nat
      BY <1>2, SavedType, RunsAre DEF Saves
    <3> HIDE DEF n
    <3>2. i \in 1..n /\ j \in 1..(n + 1)
      BY <2>2, <3>1
    <3>3. \A k \in 1..n : runs[c][k].runAt < clock
      <4> TAKE k \in 1..n
      <4>0. 1..n # {} /\ n \in 1..n
        BY <3>1
      <4>1. runs[c][n].runAt < clock
        BY <3>1, <4>0
      <4>2. k = n \/ runs[c][k].runAt < runs[c][n].runAt
        BY <3>1, <4>0 DEF RunsOrdered
      <4>3. QED
        BY <3>1, <4>0, <4>1, <4>2
    <3>4. CASE j = n + 1
      BY <2>2, <3>1, <3>2, <3>3, <3>4
    <3>5. CASE j \in 1..n
      BY <2>2, <3>1, <3>2, <3>5 DEF RunsOrdered
    <3>6. QED
      BY <3>1, <3>2, <3>4, <3>5
  <2>3. QED
    BY <2>1, <2>2
<1>3. QED
  BY <1>1, <1>2, NextSteps DEF Tick, Announce, Promote, BlastRadius, vars

LEMMA EvidenceStep == TypeOK /\ CachesKept /\ EvidenceLasts /\ [Next]_vars => EvidenceLasts'
<1> SUFFICES ASSUME TypeOK, CachesKept, EvidenceLasts, [Next]_vars,
                    NEW d \in Consumers, NEW i \in DOMAIN runs'[d], runs'[d][i].canary = "passed"
             PROVE  runs'[d][i].key \in cache'[d] \/ d \in Refetches
  BY DEF EvidenceLasts, Accepts
<1>1. ASSUME i \in DOMAIN runs[d], runs'[d][i] = runs[d][i]
      PROVE  runs'[d][i].key \in cache'[d] \/ d \in Refetches
  <2>1. Accepts(d, runs[d][i].key)
    BY <1>1 DEF EvidenceLasts
  <2>2. cache[d] \subseteq cache'[d]
    BY CachesGrow
  <2>3. QED
    BY <1>1, <2>1, <2>2 DEF Accepts
<1>2. CASE UNCHANGED runs
  BY <1>1, <1>2
<1>3. ASSUME NEW c \in Consumers, NEW run \in Result, Saves(c, run)
      PROVE  runs'[d][i].key \in cache'[d] \/ d \in Refetches
  <2>1. /\ Len(runs[c]) \in Nat /\ DOMAIN runs[c] = 1..Len(runs[c])
        /\ DOMAIN runs'[c] = 1..(Len(runs[c]) + 1) /\ runs'[c][Len(runs[c]) + 1] = run
        /\ \A k \in DOMAIN runs[c] : runs'[c][k] = runs[c][k]
        /\ \A e \in Consumers : e # c => runs'[e] = runs[e]
    BY <1>3, SavedType, RunsAre DEF Saves
  <2>2. CASE i \in DOMAIN runs[d]
    BY <1>1, <2>1, <2>2
  <2>3. CASE i \notin DOMAIN runs[d]
    <3>1. d = c /\ runs'[d][i] = run
      BY <2>1, <2>3
    <3>2. run.key = announced /\ Accepts(c, announced)
      BY <1>3, <3>1 DEF Saves
    <3>3. cache[c] \subseteq cache'[c]
      BY CachesGrow
    <3>4. QED
      BY <3>1, <3>2, <3>3 DEF Accepts
  <2>4. QED
    BY <2>2, <2>3
<1>4. QED
  BY <1>2, <1>3, NextSteps DEF Tick, Announce, Promote, BlastRadius, vars

LEMMA FetchedStep == TypeOK /\ CachesKept /\ FetchedSince /\ [Next]_vars => FetchedSince'
<1> SUFFICES ASSUME TypeOK, CachesKept, FetchedSince, [Next]_vars,
                    advice' # NoAdvice, NEW d \in Consumers, fetched'[d] > advice'.at
             PROVE  announced' \in cache'[d]
  BY DEF FetchedSince
<1>1. cache[d] \subseteq cache'[d]
  BY CachesGrow
<1>2. CASE UNCHANGED <<announced, fetched, advice>>
  BY <1>1, <1>2 DEF FetchedSince
<1>3. ASSUME NEW c \in Consumers, Refreshes(c), UNCHANGED <<announced, advice>>
      PROVE  announced' \in cache'[d]
  <2>1. CASE d = c
    <3>1. cache'[c] = Published /\ announced # 0 /\ announced \in Nat
      BY <1>3, FetchedType, TypesAre DEF Refreshes, TypeOK
    <3>2. QED
      BY <1>3, <2>1, <3>1 DEF Published
  <2>2. CASE d # c
    <3>1. fetched'[d] = fetched[d]
      BY <1>3, <2>2, FetchedType DEF Refreshes
    <3>2. QED
      BY <1>1, <1>3, <3>1 DEF FetchedSince
  <2>3. QED
    BY <2>1, <2>2
<1>4. CASE Announce
  <2>1. advice = NoAdvice
    BY <1>4 DEF Announce, TypeOK
  <2>2. QED
    BY <1>4, <2>1 DEF Announce
<1>5. CASE Promote
  BY <1>5 DEF Promote
<1>6. ASSUME NEW issuer \in Issuers, BlastRadius(issuer)
      PROVE  announced' \in cache'[d]
  <2>1. announced # 0 /\ advice' = Advice(issuer) /\ fetched' = fetched
    BY <1>6 DEF BlastRadius
  <2>2. advice'.at = clock
    BY <2>1, AdviceIs
  <2>3. fetched[d] \in Nat /\ clock \in Nat /\ fetched[d] <= clock
    BY TypesAre
  <2>4. QED
    BY <2>1, <2>2, <2>3
<1>7. \A c \in Consumers, run \in Result : Saves(c, run) => UNCHANGED <<announced, advice>>
  BY DEF Saves, Saved
<1>8. QED
  BY <1>2, <1>3, <1>4, <1>5, <1>6, <1>7, NextSteps DEF Tick, vars

LEMMA RotationInductiveInit == Init => RInv
<1> SUFFICES ASSUME Init PROVE RInv
  OBVIOUS
<1>1. TypeOK
  BY RotationTypeInit
<1>2. CachesKept
  BY RotationAssumption DEF Init, CachesKept, Published
<1>3. RunsOrdered /\ EvidenceLasts
  BY DEF Init, RunsOrdered, EvidenceLasts
<1>4. FetchedSince
  BY DEF Init, FetchedSince
<1>5. QED
  BY <1>1, <1>2, <1>3, <1>4 DEF RInv

(* The inductive invariant, of every run. *)
THEOREM RotationInductive == Spec => []RInv
<1>1. RInv /\ [Next]_vars => RInv'
  BY RotationTypeStep, CachesStep, RunsStep, EvidenceStep, FetchedStep DEF RInv
<1>2. QED
  BY <1>1, RotationInductiveInit, PTL DEF Spec

(***************************************************************************)
(* The grace period is enough.                                             *)
(***************************************************************************)

(* Advice given on sound evidence waits for the caches that need it. *)
LEMMA AdviceWaits ==
    ASSUME RInv, PeriodsCovered, announced # 0, NEW issuer \in Issuers,
           Advice(issuer) # NoAdvice, Advice(issuer).sound, NEW c \in Consumers, Concerned(c)
    PROVE  Accepts(c, announced) \/ Period[c] < Advice(issuer).grace
<1> DEFINE h      == ProbeHistory(c)
           said   == Verdict(c, Rotate(issuer), h, clock)
           canary == FreshCanary(h, clock)
<1>1. said = RotateKey(c, h, clock)
  BY DEF Concerned, Verdict, Rotate
<1>2. /\ said.verdict \in {"ready", "none"}
      /\ canary.canary = "none" \/ canary.key = announced
      /\ said.window # NoTime /\ Period[c] <= said.window => Period[c] < Advice(issuer).grace
  <2>1. /\ Period[c] \in Nat \ {0} /\ Period[c] < GraceCeiling
        /\ Period[c] > 1 \/ GraceFloor > 1
    BY RotationAssumption DEF PeriodsCovered
  <2>2. QED
    BY <2>1, AdviceIs DEF RInv
<1>3. canary.canary \in {"passed", "failed", "none"}
  BY CanaryIs, RunsAre DEF RInv
<1>4. CASE canary.canary = "passed"
  <2>1. PICK j \in DOMAIN runs[c] : canary = runs[c][j]
    BY <1>4, CanaryIs DEF RInv
  <2>2. canary.key = announced
    BY <1>2, <1>4
  <2>3. QED
    BY <1>4, <2>1, <2>2 DEF RInv, EvidenceLasts
<1>5. CASE canary.canary = "failed"
  <2>1. said.verdict = "will_break"
    BY <1>1, <1>5 DEF RotateKey
  <2>2. QED
    BY <1>2, <2>1
<1>6. CASE canary.canary = "none"
  <2>1. CASE Contract[c].refresh = "no"
    <3>1. said.verdict = "will_break"
      BY <1>1, <1>6, <2>1 DEF RotateKey
    <3>2. QED
      BY <1>2, <3>1
  <2>2. CASE Contract[c].refresh # "no" /\ Contract[c].ttl # NoTime
    <3>1. said.window = Contract[c].ttl
      BY <1>1, <1>6, <2>2 DEF RotateKey
    <3>2. Period[c] <= Contract[c].ttl
      BY <2>2, RotationAssumption
    <3>3. QED
      BY <1>2, <2>2, <3>1, <3>2
  <2>3. CASE Contract[c].refresh # "no" /\ Contract[c].ttl = NoTime
    <3>1. said.verdict = "unknown"
      BY <1>1, <1>6, <2>3 DEF RotateKey
    <3>2. QED
      BY <1>2, <3>1
  <2>4. QED
    BY <2>1, <2>2, <2>3
<1>7. QED
  BY <1>3, <1>4, <1>5, <1>6

LEMMA AdviceStep == PeriodsCovered /\ RInv /\ AdviceCovers /\ [Next]_vars => AdviceCovers'
<1> SUFFICES ASSUME PeriodsCovered, RInv, AdviceCovers, [Next]_vars,
                    advice' # NoAdvice, advice'.sound, NEW d \in Consumers, Concerned(d)
             PROVE  Accepts(d, announced)' \/ Period[d] < advice'.grace
  BY DEF AdviceCovers, Concerned, UsesIssuer
<1>1. CASE UNCHANGED <<announced, advice>>
  BY <1>1, AcceptsLasts DEF RInv, AdviceCovers
<1>2. CASE Announce
  <2>1. advice = NoAdvice
    BY <1>2 DEF Announce, RInv, TypeOK
  <2>2. QED
    BY <1>2, <2>1 DEF Announce
<1>3. CASE Promote
  BY <1>3 DEF Promote
<1>4. ASSUME NEW issuer \in Issuers, BlastRadius(issuer)
      PROVE  Accepts(d, announced)' \/ Period[d] < advice'.grace
  <2>1. announced # 0 /\ advice' = Advice(issuer) /\ announced' = announced /\ cache' = cache
    BY <1>4 DEF BlastRadius
  <2>2. Accepts(d, announced) \/ Period[d] < Advice(issuer).grace
    BY <2>1, AdviceWaits
  <2>3. QED
    BY <2>1, <2>2 DEF Accepts
<1>5. \A c \in Consumers, run \in Result : Saves(c, run) => UNCHANGED <<announced, advice>>
  BY DEF Saves, Saved
<1>6. QED
  BY <1>1, <1>2, <1>3, <1>4, <1>5, NextSteps DEF RInv, Tick, vars

LEMMA GraceStep == RInv /\ AdviceCovers /\ GraceSuffices /\ [Next]_vars => GraceSuffices'
<1> SUFFICES ASSUME RInv, AdviceCovers, GraceSuffices, [Next]_vars,
                    trusted', NEW d \in Consumers, Concerned(d)
             PROVE  Accepts(d, active)'
  BY DEF GraceSuffices, Concerned, UsesIssuer
<1>1. CASE UNCHANGED <<active, trusted>>
  BY <1>1, AcceptsLasts DEF RInv, GraceSuffices, Concerned
<1>2. CASE Promote
  <2>1. /\ announced # 0 /\ advice.key = announced /\ clock >= advice.at + advice.grace
        /\ active' = announced /\ trusted' = advice.sound /\ cache' = cache
    BY <1>2 DEF Promote
  <2>2. advice # NoAdvice
    BY <2>1 DEF NoAdvice
  <2>3. advice.at \in Nat /\ advice.grace \in Nat
    <3>1. 0..clock \subseteq Nat /\ 0..GraceCeiling \subseteq Nat
      BY TypesAre, RotationAssumption DEF RInv
    <3>2. QED
      BY <2>2, <3>1 DEF RInv, TypeOK
  <2>4. Accepts(d, announced) \/ Period[d] < advice.grace
    BY <2>1, <2>2 DEF AdviceCovers
  <2>5. ASSUME Period[d] < advice.grace PROVE Accepts(d, announced)
    <3>1. /\ clock \in Nat /\ fetched[d] \in Nat /\ Period[d] \in Nat
          /\ clock - fetched[d] <= Period[d]
      BY TypesAre DEF RInv, CachesKept
    <3>2. fetched[d] > advice.at
      BY <2>1, <2>3, <2>5, <3>1
    <3>3. QED
      BY <2>2, <3>2 DEF RInv, FetchedSince, Accepts
  <2>6. QED
    BY <2>1, <2>4, <2>5 DEF Accepts
<1>3. \A c \in Consumers, run \in Result : Saves(c, run) => UNCHANGED <<active, trusted>>
  BY DEF Saves, Saved
<1>4. QED
  BY <1>1, <1>2, <1>3, NextSteps DEF RInv, Tick, Announce, BlastRadius, vars

(* The grace period is enough, for every operator who follows the advice   *)
(* on evidence about the key announced: of consumers whose caches last for *)
(* less than the cap and longer than one unit, or a floor above one.       *)
THEOREM GraceIsEnough ==
    ASSUME PeriodsCovered
    PROVE  Spec => []GraceSuffices
<1>1. Init => GInv
  BY DEF Init, GInv, AdviceCovers, GraceSuffices
<1>2. RInv /\ GInv /\ [Next]_vars => GInv'
  BY AdviceStep, GraceStep DEF GInv
<1>3. GInv => GraceSuffices
  BY DEF GInv
<1>4. QED
  BY <1>1, <1>2, <1>3, RotationInductive, PTL DEF Spec

(* Why a grace period works: whatever a consumer has fetched since the     *)
(* operator was answered holds the key that is announced, and its cache is *)
(* never older than its period (a JWKS cache, and the refetch on a kid it  *)
(* does not know).                                                         *)
THEOREM FetchedIsAnnounced == Spec => [](CachesKept /\ FetchedSince)
<1>1. RInv => CachesKept /\ FetchedSince
  BY DEF RInv
<1>2. QED
  BY <1>1, RotationInductive, PTL

(***************************************************************************)
(* The measured window.                                                    *)
(***************************************************************************)

(* A history with one later run measures no less. *)
LEMMA LongerMeasuresMore ==
    ASSUME NEW now \in Nat, NEW n \in Nat, NEW h, NEW g,
           DOMAIN h = 1..n, DOMAIN g = 1..(n + 1),
           \A i \in 1..n : g[i] = h[i],
           \A i \in 1..(n + 1) : g[i].runAt \in 0..now,
           \A i, j \in 1..(n + 1) : i < j => g[i].runAt < g[j].runAt
    PROVE  MeasuredWindow(h, now) <= MeasuredWindow(g, now)
<1>1. \A i \in 1..n : i \in Canaries(h, now) <=> i \in Canaries(g, now)
  <2>1. 1..n \subseteq 1..(n + 1)
    OBVIOUS
  <2>2. QED
    BY <2>1 DEF Canaries
<1>2. Canaries(h, now) \subseteq 1..n /\ Canaries(g, now) \subseteq 1..(n + 1)
  BY DEF Canaries
<1>3. ASSUME NEW t \in Transitions(h, now)
      PROVE  t \in Transitions(g, now) /\ Gap(g, t) = Gap(h, t)
  <2>1. /\ t \in Canaries(h, now) \X Canaries(h, now)
        /\ t[1] < t[2] /\ ~\E k \in Canaries(h, now) : t[1] < k /\ k < t[2]
        /\ h[t[1]].canary = "failed" /\ h[t[2]].canary = "passed"
    BY DEF Transitions
  <2>2. t[1] \in 1..n /\ t[2] \in 1..n
    BY <1>2, <2>1
  <2>3. t \in Canaries(g, now) \X Canaries(g, now)
    BY <1>1, <2>1, <2>2
  <2>4. ~\E k \in Canaries(g, now) : t[1] < k /\ k < t[2]
    <3> SUFFICES ASSUME NEW k \in Canaries(g, now), t[1] < k, k < t[2] PROVE FALSE
      OBVIOUS
    <3>1. k \in 1..(n + 1)
      BY <1>2
    <3>2. k \in 1..n
      BY <2>2, <3>1
    <3>3. QED
      BY <1>1, <2>1, <3>2
  <2>5. g[t[1]] = h[t[1]] /\ g[t[2]] = h[t[2]]
    BY <2>2
  <2>6. QED
    BY <2>1, <2>3, <2>4, <2>5 DEF Transitions, Gap
<1>4. Pickups(h, now) \subseteq Pickups(g, now)
  BY <1>3 DEF Pickups
<1>5. Pickups(g, now) \subseteq 0..now
  <2>1. ASSUME NEW t \in Transitions(g, now) PROVE Gap(g, t) \in 0..now
    <3>1. t[1] \in 1..(n + 1) /\ t[2] \in 1..(n + 1) /\ t[1] < t[2]
      BY <1>2 DEF Transitions
    <3>2. g[t[1]].runAt \in 0..now /\ g[t[2]].runAt \in 0..now /\ g[t[1]].runAt < g[t[2]].runAt
      BY <3>1
    <3>3. QED
      BY <3>2 DEF Gap
  <2>2. QED
    BY <2>1 DEF Pickups
<1>6. IsFiniteSet(Pickups(g, now)) /\ IsFiniteSet(Pickups(h, now))
  <2>1. IsFiniteSet(0..now)
    BY FS_Interval
  <2>2. QED
    BY <1>4, <1>5, <2>1, FS_Subset
<1>7. Pickups(g, now) \subseteq Int /\ Pickups(h, now) \subseteq Int
  BY <1>4, <1>5
<1>8. CASE Pickups(g, now) = {}
  BY <1>4, <1>8 DEF MeasuredWindow, NoTime
<1>9. CASE Pickups(g, now) # {}
  <2>1. MeasuredWindow(g, now) \in 0..now /\ \A x \in Pickups(g, now) : x <= MeasuredWindow(g, now)
    BY <1>5, <1>6, <1>7, <1>9, LargestIs DEF MeasuredWindow
  <2>2. CASE Pickups(h, now) = {}
    BY <2>1, <2>2 DEF MeasuredWindow, NoTime
  <2>3. CASE Pickups(h, now) # {}
    <3>1. MeasuredWindow(h, now) \in Pickups(h, now)
      BY <1>6, <1>7, <2>3, LargestIs DEF MeasuredWindow
    <3>2. QED
      BY <1>4, <2>1, <3>1
  <2>4. QED
    BY <2>2, <2>3
<1>10. QED
  BY <1>8, <1>9

(* A history within the limit is shown whole. *)
LEMMA HistoryWhole ==
    ASSUME NEW S, NEW s \in Seq(S), Len(s) <= HistoryLimit
    PROVE  SubSeq(s, IF Len(s) > HistoryLimit THEN Len(s) - HistoryLimit + 1 ELSE 1, Len(s)) = s
<1>1. Len(s) \in Nat /\ HistoryLimit \in Nat
  BY RotationAssumption
<1>2. ~(Len(s) > HistoryLimit)
  BY <1>1
<1>3. SubSeq(s, 1, Len(s)) = s
  BY SubSeqFull
<1>4. QED
  BY <1>2, <1>3

(* "must never shrink the window below a genuinely slow pickup seen        *)
(* earlier": the window a run more measures is never a smaller one, of any *)
(* history, while it is shown whole.                                       *)
THEOREM WindowsOnlyGrow == Spec => WindowNeverShrinks
<1> DEFINE Grows ==
      \A c \in Consumers :
          Len(runs'[c]) <= HistoryLimit /\ clock' = clock =>
              MeasuredWindow(ProbeHistory(c), clock) <= MeasuredWindow(ProbeHistory(c)', clock')
<1>1. RInv /\ RInv' /\ [Next]_vars => [Grows]_vars
  <2> SUFFICES ASSUME RInv, RInv', [Next]_vars, NEW c \in Consumers,
                      Len(runs'[c]) <= HistoryLimit, clock' = clock
               PROVE  MeasuredWindow(ProbeHistory(c), clock) <= MeasuredWindow(ProbeHistory(c)', clock')
    OBVIOUS
  <2>1. CASE runs'[c] = runs[c]
    <3>1. ProbeHistory(c)' = ProbeHistory(c)
      BY <2>1 DEF ProbeHistory
    <3>2. MeasuredWindow(ProbeHistory(c), clock) \in Int
      BY WindowType DEF RInv
    <3>3. QED
      BY <3>1, <3>2
  <2>2. ASSUME NEW d \in Consumers, NEW run \in Result, Saves(d, run), runs'[c] # runs[c]
        PROVE  MeasuredWindow(ProbeHistory(c), clock) <= MeasuredWindow(ProbeHistory(c)', clock')
    <3> DEFINE n == Len(runs[c])
    <3>1. c = d
      BY <2>2, SavedType DEF RInv, Saves
    <3>2. /\ n \in Nat /\ DOMAIN runs[c] = 1..n /\ DOMAIN runs'[c] = 1..(n + 1)
          /\ Len(runs'[c]) = n + 1 /\ runs'[c] \in Seq(Result)
          /\ \A i \in 1..n : runs'[c][i] = runs[c][i]
          /\ runs'[c][n + 1].runAt = clock /\ clock \in Nat
          /\ \A i \in 1..n : runs[c][i].runAt \in 0..clock
      BY <2>2, <3>1, SavedType, RunsAre DEF RInv, Saves
    <3> HIDE DEF n
    <3>3. \A i \in 1..(n + 1) : runs'[c][i].runAt \in 0..clock
      <4>1. \A i \in 1..(n + 1) : i \in 1..n \/ i = n + 1
        BY <3>2
      <4>2. QED
        BY <3>2, <4>1
    <3>4. \A i, j \in 1..(n + 1) : i < j => runs'[c][i].runAt < runs'[c][j].runAt
      BY <3>2 DEF RInv, RunsOrdered
    <3>5. MeasuredWindow(runs[c], clock) <= MeasuredWindow(runs'[c], clock)
      <4>1. PICK now \in Nat : now = clock
        BY <3>2
      <4>2. PICK h : h = runs[c]
        OBVIOUS
      <4>3. PICK g : g = runs'[c]
        OBVIOUS
      <4>4. MeasuredWindow(h, now) <= MeasuredWindow(g, now)
        BY <3>2, <3>3, <3>4, <4>1, <4>2, <4>3, LongerMeasuresMore
      <4>5. QED
        BY <4>1, <4>2, <4>3, <4>4
    <3>6. ProbeHistory(c) = runs[c]
      <4>1. n <= HistoryLimit
        BY <3>2, RotationAssumption
      <4>2. QED
        BY <4>1, HistoryIs DEF RInv, n
    <3>7. ProbeHistory(c)' = runs'[c]
      <4>1. PICK g : g = runs'[c]
        OBVIOUS
      <4>2. SubSeq(g, IF Len(g) > HistoryLimit THEN Len(g) - HistoryLimit + 1 ELSE 1, Len(g)) = g
        BY <3>2, <4>1, HistoryWhole
      <4>3. QED
        BY <4>1, <4>2 DEF ProbeHistory
    <3>8. QED
      BY <3>5, <3>6, <3>7
  <2>3. QED
    BY <2>1, <2>2, NextSteps DEF RInv, Tick, Announce, Promote, BlastRadius, vars
<1>2. QED
  BY <1>1, RotationInductive, PTL DEF Spec, WindowNeverShrinks

(***************************************************************************)
(* Changes other than a rotation.                                          *)
(***************************************************************************)

Named(url) == url # ""

(* Proposals that say what they change and for which issuer. *)
ProposalsConcrete ==
    \A p \in Proposals :
        /\ Named(p.issuer)
        /\ \/ p.kind \in {"remove_claim", "drop_algorithm"}
           \/ p.kind = "change_issuer" /\ Named(p.new)

(* Some algorithm a consumer takes is among those the issuer signs with.   *)
LEMMA AlgorithmsTaken ==
    ASSUME NEW c \in Consumers
    PROVE  /\ \E alg \in Algorithms : Contract[c].algorithms = {} \/ alg \in Contract[c].algorithms
           /\ Contract[c].algorithms \subseteq Algorithms
           /\ {"RS256", "ES256"} \subseteq Algorithms
<1>1. Contract[c].algorithms \subseteq Algorithms /\ {"RS256", "ES256"} \subseteq Algorithms
  <2> DEFINE declared == {Contract[d].algorithms : d \in Consumers}
  <2>1. Contract[c].algorithms \in declared
    OBVIOUS
  <2>2. Algorithms = (UNION declared) \cup {"RS256", "ES256"}
    BY DEF Algorithms
  <2> HIDE DEF declared
  <2>3. QED
    BY <2>1, <2>2
<1>2. Contract[c].algorithms = {} \/ \E alg : alg \in Contract[c].algorithms
  OBVIOUS
<1>3. QED
  BY <1>1, <1>2

LEMMA BeforeIs ==
    ASSUME NEW issuer, NEW t
    PROVE  t \in Before(issuer) <=>
              \E alg \in Algorithms : t = Token(issuer, alg, UNION {Enforced[c] : c \in Consumers})
BY DEF Before

(* What a consumer takes of the tokens the issuer mints today. *)
LEMMA TakenBefore ==
    ASSUME NEW c \in Consumers, NEW issuer, NEW alg
    PROVE  TakesToken(c, Token(issuer, alg, UNION {Enforced[d] : d \in Consumers})) <=>
              /\ issuer \in Contract[c].issuers
              /\ Contract[c].algorithms = {} \/ alg \in Contract[c].algorithms
BY DEF TakesToken, Token

(* What each change makes of a token. *)
LEMMA AfterClaim ==
    ASSUME NEW issuer, NEW alg, NEW claims, NEW p, p.kind = "remove_claim"
    PROVE  After(Token(issuer, alg, claims), p) = {Token(issuer, alg, claims \ {p.claim})}
<1>1. PICK t : t = [issuer |-> issuer, algorithm |-> alg, claims |-> claims]
  OBVIOUS
<1>2. PICK fewer : fewer = t.claims \ {p.claim}
  OBVIOUS
<1>3. t = Token(issuer, alg, claims) /\ [t EXCEPT !.claims = fewer] = Token(issuer, alg, fewer)
  BY <1>1 DEF Token
<1>4. After(t, p) = {[t EXCEPT !.claims = t.claims \ {p.claim}]}
  BY DEF After
<1>5. fewer = claims \ {p.claim}
  BY <1>1, <1>2
<1>6. QED
  BY <1>2, <1>3, <1>4, <1>5

LEMMA AfterIssuer ==
    ASSUME NEW issuer, NEW alg, NEW claims, NEW p, p.kind = "change_issuer"
    PROVE  After(Token(issuer, alg, claims), p) = {Token(p.new, alg, claims)}
<1>1. PICK t : t = [issuer |-> issuer, algorithm |-> alg, claims |-> claims]
  OBVIOUS
<1>2. PICK new : new = p.new
  OBVIOUS
<1>3. t = Token(issuer, alg, claims) /\ [t EXCEPT !.issuer = new] = Token(new, alg, claims)
  BY <1>1 DEF Token
<1>4. After(t, p) = {[t EXCEPT !.issuer = p.new]}
  BY DEF After
<1>5. QED
  BY <1>2, <1>3, <1>4

LEMMA AfterAlgorithm ==
    ASSUME NEW issuer, NEW alg, NEW claims, NEW p, p.kind = "drop_algorithm"
    PROVE  After(Token(issuer, alg, claims), p)
             = {Token(issuer, other, claims) : other \in Algorithms \ {p.algorithm}}
<1>1. PICK t : t = [issuer |-> issuer, algorithm |-> alg, claims |-> claims]
  OBVIOUS
<1>2. /\ t = Token(issuer, alg, claims)
      /\ \A other : [t EXCEPT !.algorithm = other] = Token(issuer, other, claims)
  BY <1>1 DEF Token
<1>3. After(t, p) = {[t EXCEPT !.algorithm = other] : other \in Algorithms \ {p.algorithm}}
  BY DEF After
<1>4. QED
  BY <1>2, <1>3

LEMMA ClaimOverlooked ==
    ASSUME NEW c \in Consumers, NEW p, NEW h, NEW now, p.kind = "remove_claim", Named(p.issuer)
    PROVE  LET said   == Verdict(c, p, h, now).verdict
               breaks == \E t \in Before(p.issuer) :
                             TakesToken(c, t) /\ \A u \in After(t, p) : ~TakesToken(c, u)
           IN  /\ breaks => said \in {"will_break", "unknown"}
               /\ said = "will_break" => breaks
<1> DEFINE all    == UNION {Enforced[d] : d \in Consumers}
           said   == Verdict(c, p, h, now).verdict
           breaks == \E t \in Before(p.issuer) :
                         TakesToken(c, t) /\ \A u \in After(t, p) : ~TakesToken(c, u)
<1>1. said = IF p.issuer \in Contract[c].issuers THEN RemoveClaim(c, p, h).verdict ELSE "none"
  BY DEF Verdict, InScope, UsesIssuer, Named, Plain
<1>2. RemoveClaim(c, p, h).verdict =
        IF p.claim \in Contract[c].claims \/ MissingClaimProbe(c, h, p.claim)
        THEN "will_break" ELSE "unknown"
  BY DEF RemoveClaim, Plain
<1>3. \A alg : After(Token(p.issuer, alg, all), p) = {Token(p.issuer, alg, all \ {p.claim})}
  BY AfterClaim
<1>4. \A alg : p.claim \in Enforced[c] => ~TakesToken(c, Token(p.issuer, alg, all \ {p.claim}))
  BY DEF TakesToken, Token
<1>5. ASSUME breaks PROVE said \in {"will_break", "unknown"}
  <2>1. p.issuer \in Contract[c].issuers
    <3>1. PICK t \in Before(p.issuer) : TakesToken(c, t)
      BY <1>5
    <3>2. PICK alg \in Algorithms : t = Token(p.issuer, alg, all)
      BY BeforeIs
    <3>3. QED
      BY <3>1, <3>2, TakenBefore
  <2>2. QED
    BY <1>1, <1>2, <2>1
<1>6. ASSUME said = "will_break" PROVE breaks
  <2>1. p.issuer \in Contract[c].issuers /\ p.claim \in Enforced[c]
    BY <1>1, <1>2, <1>6, RotationAssumption DEF MissingClaimProbe
  <2>2. PICK alg \in Algorithms : Contract[c].algorithms = {} \/ alg \in Contract[c].algorithms
    BY AlgorithmsTaken
  <2>3. Token(p.issuer, alg, all) \in Before(p.issuer)
    BY BeforeIs
  <2>4. TakesToken(c, Token(p.issuer, alg, all))
    BY <2>1, <2>2, TakenBefore
  <2>5. QED
    BY <1>3, <1>4, <2>1, <2>3, <2>4
<1>7. QED
  BY <1>5, <1>6

LEMMA IssuerOverlooked ==
    ASSUME NEW c \in Consumers, NEW p, NEW h, NEW now,
           p.kind = "change_issuer", Named(p.issuer), Named(p.new)
    PROVE  LET said   == Verdict(c, p, h, now).verdict
               breaks == \E t \in Before(p.issuer) :
                             TakesToken(c, t) /\ \A u \in After(t, p) : ~TakesToken(c, u)
           IN  /\ breaks => said \in {"will_break", "unknown"}
               /\ said = "will_break" => breaks
<1> DEFINE all    == UNION {Enforced[d] : d \in Consumers}
           said   == Verdict(c, p, h, now).verdict
           breaks == \E t \in Before(p.issuer) :
                         TakesToken(c, t) /\ \A u \in After(t, p) : ~TakesToken(c, u)
<1>1. said = IF p.issuer \in Contract[c].issuers /\ p.new \notin Contract[c].issuers
             THEN "will_break" ELSE "none"
  BY DEF Verdict, ChangeIssuer, UsesIssuer, Named, Plain
<1>2. \A alg : After(Token(p.issuer, alg, all), p) = {Token(p.new, alg, all)}
  BY AfterIssuer
<1>3. ASSUME breaks PROVE said = "will_break"
  <2>1. PICK alg \in Algorithms :
          /\ TakesToken(c, Token(p.issuer, alg, all))
          /\ ~TakesToken(c, Token(p.new, alg, all))
    <3>1. PICK t \in Before(p.issuer) : TakesToken(c, t) /\ \A u \in After(t, p) : ~TakesToken(c, u)
      BY <1>3
    <3>2. PICK alg \in Algorithms : t = Token(p.issuer, alg, all)
      BY BeforeIs
    <3>3. After(t, p) = After(Token(p.issuer, alg, all), p)
      BY <3>2
    <3>4. QED
      BY <1>2, <3>1, <3>2, <3>3
  <2>2. p.issuer \in Contract[c].issuers /\ p.new \notin Contract[c].issuers
    BY <2>1, TakenBefore
  <2>3. QED
    BY <1>1, <2>2
<1>4. ASSUME said = "will_break" PROVE breaks
  <2>1. p.issuer \in Contract[c].issuers /\ p.new \notin Contract[c].issuers
    BY <1>1, <1>4
  <2>2. PICK alg \in Algorithms : Contract[c].algorithms = {} \/ alg \in Contract[c].algorithms
    BY AlgorithmsTaken
  <2>3. /\ Token(p.issuer, alg, all) \in Before(p.issuer)
        /\ TakesToken(c, Token(p.issuer, alg, all)) /\ ~TakesToken(c, Token(p.new, alg, all))
    BY <2>1, <2>2, BeforeIs, TakenBefore
  <2>4. QED
    BY <1>2, <2>3
<1>5. QED
  BY <1>3, <1>4

LEMMA AlgorithmOverlooked ==
    ASSUME NEW c \in Consumers, NEW p, NEW h, NEW now, p.kind = "drop_algorithm", Named(p.issuer)
    PROVE  LET said   == Verdict(c, p, h, now).verdict
               breaks == \E t \in Before(p.issuer) :
                             TakesToken(c, t) /\ \A u \in After(t, p) : ~TakesToken(c, u)
           IN  /\ breaks => said \in {"will_break", "unknown"}
               /\ said = "will_break" => breaks
<1> DEFINE all    == UNION {Enforced[d] : d \in Consumers}
           said   == Verdict(c, p, h, now).verdict
           algs   == Contract[c].algorithms
           breaks == \E t \in Before(p.issuer) :
                         TakesToken(c, t) /\ \A u \in After(t, p) : ~TakesToken(c, u)
<1>1. said = IF p.issuer \in Contract[c].issuers /\ algs = {p.algorithm} THEN "will_break" ELSE "none"
  BY DEF Verdict, InScope, UsesIssuer, Named, DropAlgorithm, Plain
<1>2. \A alg : After(Token(p.issuer, alg, all), p)
                 = {Token(p.issuer, other, all) : other \in Algorithms \ {p.algorithm}}
  <2> HIDE DEF all
  <2> TAKE alg
  <2>1. PICK issuer : issuer = p.issuer
    OBVIOUS
  <2>2. After(Token(issuer, alg, all), p)
          = {Token(issuer, other, all) : other \in Algorithms \ {p.algorithm}}
    BY AfterAlgorithm
  <2>3. QED
    BY <2>1, <2>2
<1>3. ASSUME breaks PROVE said = "will_break"
  <2>1. PICK alg \in Algorithms :
          /\ TakesToken(c, Token(p.issuer, alg, all))
          /\ \A other \in Algorithms \ {p.algorithm} : ~TakesToken(c, Token(p.issuer, other, all))
    <3>1. PICK t \in Before(p.issuer) : TakesToken(c, t) /\ \A u \in After(t, p) : ~TakesToken(c, u)
      BY <1>3
    <3>2. PICK alg \in Algorithms : t = Token(p.issuer, alg, all)
      BY BeforeIs
    <3>3. After(t, p) = After(Token(p.issuer, alg, all), p)
      BY <3>2
    <3>4. QED
      BY <1>2, <3>1, <3>2, <3>3
  <2>2. p.issuer \in Contract[c].issuers /\ (algs = {} \/ alg \in algs)
    BY <2>1, TakenBefore
  <2>3. \A other \in Algorithms \ {p.algorithm} : algs # {} /\ other \notin algs
    BY <2>1, <2>2, TakenBefore
  <2>4. algs # {}
    <3>1. PICK other \in Algorithms : other # p.algorithm
      <4>1. "RS256" # "ES256"
        OBVIOUS
      <4>2. QED
        BY <4>1, AlgorithmsTaken
    <3>2. QED
      BY <2>3, <3>1
  <2>5. algs = {p.algorithm}
    BY <2>2, <2>3, <2>4, AlgorithmsTaken
  <2>6. QED
    BY <1>1, <2>2, <2>5
<1>4. ASSUME said = "will_break" PROVE breaks
  <2>1. p.issuer \in Contract[c].issuers /\ algs = {p.algorithm}
    BY <1>1, <1>4
  <2>2. p.algorithm \in Algorithms
    BY <2>1, AlgorithmsTaken
  <2>3. /\ Token(p.issuer, p.algorithm, all) \in Before(p.issuer)
        /\ TakesToken(c, Token(p.issuer, p.algorithm, all))
        /\ \A other \in Algorithms \ {p.algorithm} : ~TakesToken(c, Token(p.issuer, other, all))
    BY <2>1, <2>2, BeforeIs, TakenBefore
  <2>4. PICK t : t = Token(p.issuer, p.algorithm, all)
    OBVIOUS
  <2>5. \A u \in After(t, p) : ~TakesToken(c, u)
    <3>1. After(t, p) = {Token(p.issuer, other, all) : other \in Algorithms \ {p.algorithm}}
      BY <1>2, <2>4
    <3>2. QED
      BY <2>3, <3>1
  <2>6. QED
    BY <2>3, <2>4, <2>5
<1>5. QED
  BY <1>3, <1>4

(* A consumer that a change would break is never left out of the answer,   *)
(* and none is reported broken that is not: of every contract, history and *)
(* proposal that names its issuer and the change.                          *)
THEOREM AnswersAreRight ==
    ASSUME ProposalsConcrete
    PROVE  Spec => []NothingOverlooked
<1>1. NothingOverlooked
  <2> SUFFICES ASSUME NEW p \in Proposals, NEW c \in Consumers
               PROVE  LET said   == Verdict(c, p, ProbeHistory(c), clock).verdict
                          breaks == \E t \in Before(p.issuer) :
                                        TakesToken(c, t) /\ \A u \in After(t, p) : ~TakesToken(c, u)
                      IN  /\ breaks => said \in {"will_break", "unknown"}
                          /\ said = "will_break" => breaks
    BY DEF NothingOverlooked
  <2>1. CASE p.kind = "remove_claim"
    BY <2>1, ClaimOverlooked DEF ProposalsConcrete
  <2>2. CASE p.kind = "change_issuer"
    BY <2>2, IssuerOverlooked DEF ProposalsConcrete
  <2>3. CASE p.kind = "drop_algorithm"
    BY <2>3, AlgorithmOverlooked DEF ProposalsConcrete
  <2>4. QED
    BY <2>1, <2>2, <2>3 DEF ProposalsConcrete
<1>2. QED
  BY <1>1, PTL
=============================================================================
