------------------------------ MODULE Rotation ------------------------------
(***************************************************************************)
(* A key rotation guided by the blast radius (internal/blastradius): a key *)
(* is announced, consumers refetch the JWKS when their caches expire, the  *)
(* probe runs leave a history (app.ProbeRun, HarnessRun, ProbeHistory),    *)
(* the resolver turns contract and history into a verdict per consumer and *)
(* a grace period (app.BlastRadius), and an operator who follows it        *)
(* promotes the key when the grace period is over.                         *)
(*                                                                         *)
(* Time is a count of units.  A record of the history stands for all that  *)
(* one run of the engine saves for one consumer, so that HistoryLimit, 50  *)
(* results in the code, counts runs here: a run of the probes saves at     *)
(* least a dozen results for a consumer, and one of the attack corpus more.*)
(***************************************************************************)
EXTENDS Integers, Sequences, SequencesExt

CONSTANTS
    Consumers,      \* the StableIDs of the latest version
    Version,        \* what it says of each
    Libraries,      \* the library database: the entries of each name, a path
    Period,         \* how long each really keeps a JWKS it has fetched
    Refetches,      \* those that really refetch on an unknown kid
    Enforced,       \* the claims each really rejects a token for lacking
    Issuers,        \* the issuers whose key is rotated
    Proposals,      \* the other changes an operator asks about
    Freshness,      \* canaryFreshness: 24 hours
    GraceFloor,     \* one hour
    GraceCeiling,   \* thirty days
    HistoryLimit,   \* runs that the 50 results of a history hold
    MaxClock,       \* bound: time
    MaxKeys,        \* bound: keys ever announced, the first included
    MaxRuns         \* bound: runs of the engine against each consumer

NoTime == -1

-----------------------------------------------------------------------------
(* The contract the resolver works on: the version, with what is known of  *)
(* the libraries filled into its gaps (internal/libdefaults).              *)

(* A consumer whose library is not known has the empty path. *)
Lookup(name) == {known \in DOMAIN Libraries : IsSuffix(known, name)}

(* The entries that apply to a library, the best first: those whose        *)
(* constraint admits the version, then those for any version.              *)
Match(library) ==
    LET known    == Lookup(library.name)
        entries  == IF known = {} THEN <<>> ELSE Libraries[CHOOSE name \in known : TRUE]
        Admitting(e) == ~e.catchAll /\ library.version \in e.admits
    IN  SelectSeq(entries, Admitting) \o SelectSeq(entries, LAMBDA e : e.catchAll)

Enrich(c) ==
    LET match == Match(c.library)
    IN  IF match = <<>> THEN c
        ELSE [c EXCEPT !.refresh  = IF @ = "unknown" THEN match[1].refresh ELSE @,
                       !.ttl      = IF @ = NoTime THEN match[1].ttl ELSE @,
                       !.interval = IF @ = NoTime THEN match[1].interval ELSE @]

Contract == [c \in Consumers |-> Enrich(Version[c])]

-----------------------------------------------------------------------------
ASSUME RotationAssumption ==
    /\ IsFiniteSet(Consumers)
    /\ Period \in [Consumers -> Nat \ {0}]
    /\ Refetches \subseteq Consumers
    /\ \A c \in Consumers :
           /\ {Contract[c].ttl, Contract[c].interval} \subseteq Nat \cup {NoTime}
           /\ Contract[c].ttl # NoTime => Period[c] <= Contract[c].ttl
           /\ Contract[c].refresh = "no" => c \notin Refetches
           /\ Contract[c].claims \subseteq Enforced[c]
    /\ {Freshness, GraceFloor, GraceCeiling, HistoryLimit, MaxClock} \subseteq Nat
    /\ GraceFloor <= GraceCeiling
    /\ MaxKeys \in Nat \ {0}

VARIABLES
    clock,
    active,     \* the key that signs
    announced,  \* the key published ahead of use, or 0
    cache,      \* the keys each consumer has fetched
    fetched,    \* when
    runs,       \* the probe results in the store, per consumer, oldest first
    advice,     \* the resolver's last answer
    trusted     \* history: the last promotion relied on evidence about its own key

vars == <<clock, active, announced, cache, fetched, runs, advice, trusted>>

-----------------------------------------------------------------------------
(* The history as the resolver sees it. *)

(* ProbeHistory: the newest results, within the limit. *)
ProbeHistory(c) ==
    SubSeq(runs[c], IF Len(runs[c]) > HistoryLimit THEN Len(runs[c]) - HistoryLimit + 1 ELSE 1,
           Len(runs[c]))

(* The canary results of a history that are not yet a day old, by place.   *)
Canaries(h, now) == {i \in DOMAIN h : h[i].canary # "none" /\ now - h[i].runAt <= Freshness}

Largest(S) == CHOOSE x \in S : \A y \in S : y <= x

(* The latest of them, whatever key it was about. *)
FreshCanary(h, now) ==
    LET fresh == Canaries(h, now)
    IN  IF fresh = {} THEN [canary |-> "none"] ELSE h[Largest(fresh)]

(* A failing canary and a passing one right after it.                      *)
Transitions(h, now) ==
    LET fresh == Canaries(h, now)
    IN  {t \in fresh \X fresh :
            /\ t[1] < t[2] /\ ~\E k \in fresh : t[1] < k /\ k < t[2]
            /\ h[t[1]].canary = "failed" /\ h[t[2]].canary = "passed"}

Gap(h, t) == h[t[2]].runAt - h[t[1]].runAt

Pickups(h, now) == {Gap(h, t) : t \in Transitions(h, now)}

(* A plausible bug: the most recent transition wins. *)
LatestPickup(h, now) ==
    LET found == Transitions(h, now)
    IN  IF found = {} THEN NoTime
        ELSE Gap(h, CHOOSE t \in found : \A u \in found : u[2] <= t[2])

(* The largest of them: the worst pickup observed. *)
MeasuredWindow(h, now) ==
    LET gaps == Pickups(h, now) IN IF gaps = {} THEN NoTime ELSE Largest(gaps)

MissingClaimProbe(c, h, claim) ==
    claim \in Enforced[c] /\ \E i \in DOMAIN h : h[i].claims = "probed"

-----------------------------------------------------------------------------
(* The resolver. *)

UsesIssuer(c, url) == url # "" /\ url \in Contract[c].issuers

(* A proposal that names no issuer is about every consumer, where the code *)
(* lets it be.                                                             *)
InScope(c, p) == p.issuer = "" \/ UsesIssuer(c, p.issuer)

ReadyWindow(c) == IF Contract[c].ttl # NoTime THEN Contract[c].ttl ELSE Contract[c].interval

(* Verdict and refresh window of a consumer when the signing key changes:  *)
(* a fresh canary first, then what its library is known to do, then its    *)
(* cache time.                                                             *)
RotateKey(c, h, now) ==
    LET canary   == FreshCanary(h, now).canary
        measured == MeasuredWindow(h, now)
    IN  IF canary = "passed"
        THEN [verdict |-> "ready", window |-> IF measured # NoTime THEN measured ELSE ReadyWindow(c)]
        ELSE IF canary = "failed" \/ Contract[c].refresh = "no"
        THEN [verdict |-> "will_break", window |-> NoTime]
        ELSE IF Contract[c].ttl # NoTime
        THEN [verdict |-> "ready", window |-> Contract[c].ttl]
        ELSE [verdict |-> "unknown", window |-> NoTime]

Plain(verdict) == [verdict |-> verdict, window |-> NoTime]

RemoveClaim(c, p, h) ==
    IF p.claim \in Contract[c].claims \/ MissingClaimProbe(c, h, p.claim)
    THEN Plain("will_break") ELSE Plain("unknown")

(* A plausible bug: issuers are compared the wrong way round. *)
ChangeIssuerSwapped(c, p) ==
    IF UsesIssuer(c, p.new) /\ ~UsesIssuer(c, p.issuer) THEN Plain("will_break") ELSE Plain("none")

ChangeIssuer(c, p) ==
    IF UsesIssuer(c, p.issuer) /\ ~UsesIssuer(c, p.new) THEN Plain("will_break") ELSE Plain("none")

DropAlgorithm(c, p) ==
    IF Contract[c].algorithms = {p.algorithm} THEN Plain("will_break") ELSE Plain("none")

(* What the answer says of a consumer; "none" when it does not list it. *)
Verdict(c, p, h, now) ==
    CASE p.kind = "rotate_key"     -> IF UsesIssuer(c, p.issuer) THEN RotateKey(c, h, now) ELSE Plain("none")
      [] p.kind = "remove_claim"   -> IF InScope(c, p) THEN RemoveClaim(c, p, h) ELSE Plain("none")
      [] p.kind = "change_issuer"  -> ChangeIssuer(c, p)
      [] p.kind = "drop_algorithm" -> IF InScope(c, p) THEN DropAlgorithm(c, p) ELSE Plain("none")

(* A plausible bug: floored and not capped. *)
GracePeriodUncapped(windows) ==
    LET rec == (3 * Largest(windows \cup {0})) \div 2
    IN  IF rec < GraceFloor THEN GraceFloor ELSE rec

(* Half as much again as the largest window, floored and capped. *)
GracePeriod(windows) ==
    LET rec == (3 * Largest(windows \cup {0})) \div 2
    IN  IF rec < GraceFloor THEN GraceFloor
        ELSE IF rec > GraceCeiling THEN GraceCeiling ELSE rec

NoAdvice == [key |-> 0]

Rotate(issuer) == [kind |-> "rotate_key", issuer |-> issuer]

(* A plausible bug: consumers that nothing is known of are not counted. *)
AdviceLenient(issuer) ==
    LET found   == [c \in Consumers |-> Verdict(c, Rotate(issuer), ProbeHistory(c), clock)]
        windows == {found[c].window : c \in Consumers} \ {NoTime}
    IN  IF \E c \in Consumers : found[c].verdict = "will_break" THEN NoAdvice
        ELSE [key |-> announced, at |-> clock,
              grace |-> IF windows = {} THEN 0 ELSE GracePeriod(windows), sound |-> TRUE]

(* What an operator takes from an answer that lists no consumer as broken  *)
(* or unknown: the grace period.  "sound" is not in the answer: whether    *)
(* the canary results it rests on were about the key announced now.        *)
Advice(issuer) ==
    LET found   == [c \in Consumers |-> Verdict(c, Rotate(issuer), ProbeHistory(c), clock)]
        windows == {found[c].window : c \in Consumers} \ {NoTime}
        canary(c) == FreshCanary(ProbeHistory(c), clock)
    IN  IF \E c \in Consumers : found[c].verdict \notin {"ready", "none"} THEN NoAdvice
        ELSE [key |-> announced, at |-> clock,
              grace |-> IF windows = {} THEN 0 ELSE GracePeriod(windows),
              sound |-> \A c \in Consumers :
                            canary(c).canary = "none" \/ canary(c).key = announced]

-----------------------------------------------------------------------------
Init ==
    /\ clock = 0
    /\ active = 1
    /\ announced = 0
    /\ cache = [c \in Consumers |-> {1}]
    /\ fetched = [c \in Consumers |-> 0]
    /\ runs = [c \in Consumers |-> <<>>]
    /\ advice = NoAdvice
    /\ trusted = FALSE

(* Keys are numbered as they are announced; those that signed before stay  *)
(* published while they retire.                                            *)
Published == 1..(IF announced # 0 THEN announced ELSE active)

(* Time passes, but no cache outlives its period. *)
Tick ==
    /\ clock < MaxClock
    /\ \A c \in Consumers : clock - fetched[c] < Period[c]
    /\ clock' = clock + 1
    /\ UNCHANGED <<active, announced, cache, fetched, runs, advice, trusted>>

(* A consumer refetches the JWKS when its cache expires. *)
Fetch(c) ==
    /\ clock - fetched[c] = Period[c]
    /\ cache' = [cache EXCEPT ![c] = Published]
    /\ fetched' = [fetched EXCEPT ![c] = clock]
    /\ UNCHANGED <<clock, active, announced, runs, advice, trusted>>

Announce ==
    /\ announced = 0
    /\ active < MaxKeys
    /\ announced' = active + 1
    /\ UNCHANGED <<clock, active, cache, fetched, runs, advice, trusted>>

Accepts(c, key) == key \in cache[c] \/ c \in Refetches

Saved(c, run) ==
    /\ Len(runs[c]) < MaxRuns[c]
    /\ runs[c] # <<>> => Last(runs[c]).runAt < clock
    /\ runs' = [runs EXCEPT ![c] = Append(@, run)]
    /\ UNCHANGED <<clock, active, announced, advice, trusted>>

(* ProbeRun: the canary passes when the consumer accepts a token signed    *)
(* with the announced key, and fails too when the consumer answers with an *)
(* error, or not at all.  It is the last probe: a run that is cut short by *)
(* failures saves none (nor, here, anything of the claims it omits).       *)
ProbeRun(c) ==
    \E canary \in {"passed", "failed", "none"} :
        /\ announced = 0 => canary = "none"
        /\ canary = "passed" => Accepts(c, announced)
        /\ Saved(c, [canary |-> canary,
                     claims |-> IF canary = "none" /\ announced # 0 THEN "none" ELSE "probed",
                     runAt |-> clock, key |-> IF canary = "none" THEN 0 ELSE announced])
        /\ IF canary = "passed" /\ announced \notin cache[c]
           THEN /\ cache' = [cache EXCEPT ![c] = Published]
                /\ fetched' = [fetched EXCEPT ![c] = clock]
           ELSE UNCHANGED <<cache, fetched>>

(* HarnessRun: the attack corpus, saved beside the probes' results. *)
HarnessRun(c) ==
    /\ Saved(c, [canary |-> "none", claims |-> "none", runAt |-> clock, key |-> 0])
    /\ UNCHANGED <<cache, fetched>>

(* BlastRadius of a rotation: the answer replaces the one before. *)
BlastRadius(issuer) ==
    /\ announced # 0
    /\ advice' = Advice(issuer)
    /\ UNCHANGED <<clock, active, announced, cache, fetched, runs, trusted>>

(* The operator promotes the announced key when the grace period is over. *)
Promote ==
    /\ announced # 0
    /\ advice.key = announced
    /\ clock >= advice.at + advice.grace
    /\ active' = announced
    /\ announced' = 0
    /\ advice' = NoAdvice
    /\ trusted' = advice.sound
    /\ UNCHANGED <<clock, cache, fetched, runs>>

Next ==
    \/ Tick \/ Announce \/ Promote
    \/ \E c \in Consumers : Fetch(c) \/ ProbeRun(c) \/ HarnessRun(c)
    \/ \E issuer \in Issuers : BlastRadius(issuer)

Spec == Init /\ [][Next]_vars

-----------------------------------------------------------------------------
Result ==
    [canary : {"passed", "failed", "none"}, claims : {"probed", "none"}, runAt : 0..clock,
     key : 0..MaxKeys]

TypeOK ==
    /\ clock \in 0..MaxClock
    /\ active \in 1..MaxKeys
    /\ announced \in {0, active + 1} \cap 0..MaxKeys
    /\ cache \in [Consumers -> SUBSET (1..MaxKeys)]
    /\ fetched \in [Consumers -> 0..clock]
    /\ runs \in [Consumers -> Seq(Result)]
    /\ advice # NoAdvice =>
           /\ announced # 0
           /\ advice \in [key : {announced}, at : 0..clock, grace : 0..GraceCeiling, sound : BOOLEAN]
    /\ trusted \in BOOLEAN

(* The grace period is enough: after a promotion that followed the advice, *)
(* every consumer of the issuer accepts the key that signs, provided that  *)
(* the canary results the advice rested on were about that key.            *)
GraceSuffices ==
    trusted => \A c \in Consumers :
                   (\A issuer \in Issuers : UsesIssuer(c, issuer)) => Accepts(c, active)

(* "the safe grace window for a rotation is measured, not guessed"         *)
(* (whitepaper, 2.4): the same of every promotion that followed the        *)
(* advice, whatever key the canary results were about.                     *)
NoOutage ==
    \A c \in Consumers : Accepts(c, active)

(* "a later, smaller transition [...] must never shrink the window below a *)
(* genuinely slow pickup seen earlier" (query.go, measuredWindow): while   *)
(* the history still holds it, a run more never lowers the window.         *)
WindowNeverShrinks ==
    [][\A c \in Consumers :
          Len(runs'[c]) <= HistoryLimit /\ clock' = clock =>
              MeasuredWindow(ProbeHistory(c), clock)
                  <= MeasuredWindow(ProbeHistory(c)', clock')]_vars

(* Tokens of the issuer of a proposal, and what a consumer does with them. *)
Token(issuer, algorithm, claims) == [issuer |-> issuer, algorithm |-> algorithm, claims |-> claims]

TakesToken(c, token) ==
    /\ token.issuer \in Contract[c].issuers
    /\ Contract[c].algorithms = {} \/ token.algorithm \in Contract[c].algorithms
    /\ Enforced[c] \subseteq token.claims

Algorithms == (UNION {Contract[c].algorithms : c \in Consumers}) \cup {"RS256", "ES256"}

(* The tokens of an issuer before and after a change. *)
Before(issuer) == {Token(issuer, alg, UNION {Enforced[c] : c \in Consumers}) : alg \in Algorithms}

After(t, p) ==
    CASE p.kind = "remove_claim"   -> {[t EXCEPT !.claims = @ \ {p.claim}]}
      [] p.kind = "change_issuer"  -> {[t EXCEPT !.issuer = p.new]}
      [] p.kind = "drop_algorithm" -> {[t EXCEPT !.algorithm = alg] : alg \in Algorithms \ {p.algorithm}}
      [] OTHER                     -> {t}

(* A consumer that takes the issuer's tokens before the change and none    *)
(* after it is never left out: it is reported as broken, or, for a claim,  *)
(* as unknown; and a consumer reported as broken does break.               *)
NothingOverlooked ==
    \A p \in Proposals, c \in Consumers :
        LET said   == Verdict(c, p, ProbeHistory(c), clock).verdict
            breaks == \E t \in Before(p.issuer) :
                          TakesToken(c, t) /\ \A u \in After(t, p) : ~TakesToken(c, u)
        IN  /\ breaks => said \in {"will_break", "unknown"}
            /\ said = "will_break" => breaks
=============================================================================
