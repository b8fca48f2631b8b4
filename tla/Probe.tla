-------------------------------- MODULE Probe --------------------------------
(***************************************************************************)
(* One run of the probe engine against the consumers of a version          *)
(* (internal/probe/engine.go, harness.go), from app.ProbeRun or            *)
(* app.HarnessRun to the saving of its results.                            *)
(*                                                                         *)
(* Run starts a goroutine per consumer behind a semaphore; RunHarness goes *)
(* through the consumers one by one.  Meanwhile an operator may throw the  *)
(* kill switch, the caller's context may end, and any request may meet a   *)
(* server error or no answer at all.                                       *)
(***************************************************************************)
EXTENDS Agent, FiniteSets

CONSTANTS
    Consumers,      \* the consumers probed, in the order of the version
    Keys,           \* the keys the issuer describes: a sequence of [kid, status]
    IssuerURL,
    Performs,       \* by consumer id: the checks its service really performs
    Trusts,         \* by consumer id: the keys its service has in its cache
    BadRequest,     \* by consumer id: the subjects of requests refused with 400
    Forbidden,      \* by consumer id: and with 403
    Flaky,          \* ids of services that may fail to answer
    Down,           \* ids of services that refuse every connection
    Allowed,        \* hosts that HostAllowed lets through
    MaxConcurrentGlobal,
    AbortOnConsecutive5xx,
    MaxRequiredClaimProbes,
    MaxFaults,      \* bound: requests without a proper answer
    FaultHorizon    \* bound: the first requests to a consumer, those that may fail

Ids == {Consumers[i].id : i \in DOMAIN Consumers}
(* What a request is about: a check, whether a key is still trusted, or    *)
(* already, or nothing.                                                    *)
Subjects == Checks \cup {"retired", "pickup", "nothing"}

Of(id) == CHOOSE c \in ToSet(Consumers) : c.id = id

ASSUME ProbeAssumption ==
    /\ {MaxConcurrentGlobal, AbortOnConsecutive5xx, MaxRequiredClaimProbes} \subseteq Nat \ {0}
    /\ {MaxFaults, FaultHorizon} \subseteq Nat
    /\ Performs \in [Ids -> SUBSET Checks]
    /\ {BadRequest, Forbidden} \subseteq [Ids -> SUBSET Subjects]
    /\ Consumers \in Seq(ToSet(Consumers))
    /\ \A c \in ToSet(Consumers) : c.claims \in Seq(STRING)
    /\ \A i, j \in DOMAIN Consumers : Consumers[i].id = Consumers[j].id => i = j
    /\ Flaky \cap Down = {}

VARIABLES
    mode,       \* what was asked for: "probes" or "harness"
    dryRun,
    killed,     \* the kill switch is engaged
    cancelled,  \* the caller's context is over
    next,       \* the consumer the loop is at
    loop,       \* "poll", "acquire", "wait" or "returned"
    phase,      \* per consumer: "waiting", "ready", "sent", "done" or "skipped"
    failures,   \* consecutive5xx
    results,    \* its results so far: the status of each request of its plan
    saved,      \* the results in the store, by consumer
    faults,     \* requests without a proper answer so far
    streak,     \* history: the latest requests to it in a row that failed
    late        \* history: consumers started after the kill switch

engineVars == <<next, loop, phase, failures, results, saved>>
callVars   == <<mode, dryRun>>
vars == <<callVars, killed, cancelled, engineVars, faults, streak, late>>

Running == {id \in Ids : phase[id] \in {"ready", "sent"}}
Started == {id \in Ids : phase[id] \in {"ready", "sent", "done"}}

(* How many consumers are served at once.                                  *)
Slots == IF mode = "harness" THEN 1 ELSE MaxConcurrentGlobal

HostAllowed(c) == c.host \in Allowed
Probeable(c)   == c.probeable /\ HostAllowed(c)

(* What is to be sent to each, in order. *)
ProbePlans ==
    [id \in Ids |-> ProbePlan(Of(id), Consumers, Keys, IssuerURL, MaxRequiredClaimProbes)]
Corpora == [id \in Ids |-> Corpus(Of(id), Keys, IssuerURL)]

Plan(id) == IF mode = "harness" THEN Corpora[id] ELSE ProbePlans[id]

(* The request a consumer is at, and whether there is none left. *)
Attempt(id)   == Plan(id)[Len(results[id]) + 1]
Exhausted(id) == Len(results[id]) = Len(Plan(id))
(* A plausible bug: one request too many. *)
LastRequestLate(id) == Len(results[id]) = Len(Plan(id))
LastRequest(id)     == Len(results[id]) + 1 = Len(Plan(id))

Init ==
    /\ mode \in {"probes", "harness"}
    /\ dryRun \in BOOLEAN
    /\ killed = FALSE
    /\ cancelled = FALSE
    /\ next = 1
    /\ loop = "poll"
    /\ phase = [id \in Ids |-> "waiting"]
    /\ failures = [id \in Ids |-> 0]
    /\ results = [id \in Ids |-> <<>>]
    /\ saved = [id \in Ids |-> <<>>]
    /\ faults = 0
    /\ streak = [id \in Ids |-> 0]
    /\ late = 0

-----------------------------------------------------------------------------
(* The environment. *)

Engage ==
    /\ loop # "returned"
    /\ ~killed
    /\ killed' = TRUE
    /\ UNCHANGED <<callVars, cancelled, engineVars, faults, streak, late>>

(* The client goes away, or the request has taken its sixty seconds.       *)
Cancel ==
    /\ loop # "returned"
    /\ ~cancelled
    /\ cancelled' = TRUE
    /\ UNCHANGED <<callVars, killed, engineVars, faults, streak, late>>

-----------------------------------------------------------------------------
(* The loop of Run and of RunHarness. *)

AtConsumer == loop = "poll" /\ next <= Len(Consumers)

(* RunHarness comes back to the switch when the consumer before is done.   *)
InTurn == mode = "harness" => Running = {}

(* ... and leaves its loop when the context is over.                       *)
Left == mode = "harness" /\ cancelled /\ next > 1

KillSwitch ==
    /\ AtConsumer /\ InTurn /\ ~Left
    /\ killed
    /\ phase' = [phase EXCEPT ![Consumers[next].id] = "skipped"]
    /\ next' = next + 1
    /\ UNCHANGED <<callVars, killed, cancelled, loop, failures, results, saved, faults, streak, late>>

(* A plausible bug: the switch is polled once, before the loop.            *)
AdmitUnchecked ==
    /\ AtConsumer /\ InTurn /\ ~Left
    /\ killed => next > 1
    /\ loop' = "acquire"
    /\ UNCHANGED <<callVars, killed, cancelled, next, phase, failures, results, saved, faults, streak, late>>

Admit ==
    /\ AtConsumer /\ InTurn /\ ~Left
    /\ ~killed
    /\ loop' = "acquire"
    /\ UNCHANGED <<callVars, killed, cancelled, next, phase, failures, results, saved, faults, streak, late>>

(* A plausible bug: a consumer that is skipped keeps its place.            *)
OccupiedLeaky == {id \in Ids : phase[id] \in {"ready", "sent", "skipped"}}

Occupied == Running

(* The place in the semaphore is taken after the switch was polled.        *)
Start ==
    /\ loop = "acquire"
    /\ Cardinality(Occupied) < Slots
    /\ LET c == Consumers[next] IN
       /\ phase' = [phase EXCEPT ![c.id] = IF Probeable(c) THEN "ready" ELSE "skipped"]
       /\ late' = IF killed /\ Probeable(c) THEN late + 1 ELSE late
    /\ next' = next + 1
    /\ loop' = "poll"
    /\ UNCHANGED <<callVars, killed, cancelled, failures, results, saved, faults, streak>>

LoopEnds ==
    /\ loop = "poll"
    /\ next > Len(Consumers) \/ (Left /\ InTurn)
    /\ loop' = "wait"
    /\ UNCHANGED <<callVars, killed, cancelled, next, phase, failures, results, saved, faults, streak, late>>

-----------------------------------------------------------------------------
(* A consumer's requests. *)

Baseline(id) == mode = "probes" /\ results[id] = <<>>

(* The next claim left out of the token, after the first.                  *)
NextClaim(id) ==
    /\ mode = "probes" /\ ~Baseline(id)
    /\ {Attempt(id).id, Plan(id)[Len(results[id])].id} = {"missing_required_claim"}

(* The context is looked at before each request but those.                 *)
Polled(id) == ~Baseline(id) /\ ~NextClaim(id)

Request(id) ==
    /\ phase[id] = "ready"
    /\ cancelled => ~Polled(id)
    /\ phase' = [phase EXCEPT ![id] = "sent"]
    /\ UNCHANGED <<callVars, killed, cancelled, next, loop, failures, results, saved, faults, streak, late>>

FaultPossible(id) == id \in Flaky /\ faults < MaxFaults /\ Len(results[id]) < FaultHorizon

(* The status a service refuses with, depending on what it objects to.     *)
Refusal(id, check) ==
    IF check \in BadRequest[id] THEN 400 ELSE IF check \in Forbidden[id] THEN 403 ELSE 401

(* What the service makes of the request, or why there is no answer: 0 is  *)
(* a transport error, -1 a dry run.                                        *)
Statuses(id) ==
    LET attempt == Attempt(id)
        honored == Verify(Performs[id], Trusts[id], Of(id), attempt.token)
    IN  IF dryRun THEN {-1}
        ELSE IF cancelled \/ id \in Down THEN {0}
        ELSE {IF honored THEN 200 ELSE Refusal(id, attempt.check)}
             \cup (IF FaultPossible(id) THEN {0, 500} ELSE {})

(* The engine's Expectation, and the harness's verdict.                    *)
Expected(attempt) ==
    IF attempt.expect = "accept" THEN {200} ELSE {401} \cup (IF attempt.check = "claims" THEN {403} ELSE {})

Passed(attempt, status) ==
    /\ ~dryRun
    /\ IF mode = "harness" THEN (attempt.expect = "accept") = (status = 200)
       ELSE status \in Expected(attempt)

(* A plausible bug: a transport error ends a run of server errors.         *)
TrackServerErrors(status, consecutive) == IF status >= 500 \/ status = -1 THEN consecutive + 1 ELSE 0

Track(status, consecutive) == IF status >= 500 \/ status <= 0 THEN consecutive + 1 ELSE 0

(* trackAndMaybeAbort, and the baseline's own rule.  The harness has none. *)
Aborts(id, status) ==
    /\ mode # "harness"
    /\ IF Baseline(id) THEN status >= 500
       ELSE Track(status, failures[id]) >= AbortOnConsecutive5xx

Answer(id) ==
    /\ phase[id] = "sent"
    /\ \E status \in Statuses(id) :
       /\ results' = [results EXCEPT ![id] = Append(@, status)]
       /\ failures' = [failures EXCEPT ![id] = IF mode = "harness" \/ Baseline(id) THEN 0 ELSE Track(status, @)]
       /\ phase' = [phase EXCEPT ![id] = IF Aborts(id, status) \/ LastRequest(id) THEN "done" ELSE "ready"]
       /\ faults' = IF id \in Flaky /\ status \in {0, 500} /\ ~cancelled THEN faults + 1 ELSE faults
       /\ streak' = [streak EXCEPT ![id] = IF status \in {0, 500} THEN @ + 1 ELSE 0]
    /\ UNCHANGED <<callVars, killed, cancelled, next, loop, saved, late>>

(* <-ctx.Done() before a request.                                          *)
Stop(id) ==
    /\ phase[id] = "ready"
    /\ cancelled /\ Polled(id)
    /\ phase' = [phase EXCEPT ![id] = "done"]
    /\ UNCHANGED <<callVars, killed, cancelled, next, loop, failures, results, saved, faults, streak, late>>

-----------------------------------------------------------------------------
(* A plausible bug: what there is of a run that was cut short is saved.    *)
ReturnPartial ==
    /\ loop = "wait" /\ Running = {}
    /\ loop' = "returned"
    /\ saved' = results
    /\ UNCHANGED <<callVars, killed, cancelled, next, phase, failures, results, faults, streak, late>>

(* The engine returns ctx.Err(), and with an error nothing is saved.       *)
Return ==
    /\ loop = "wait" /\ Running = {}
    /\ loop' = "returned"
    /\ saved' = IF cancelled THEN saved ELSE results
    /\ UNCHANGED <<callVars, killed, cancelled, next, phase, failures, results, faults, streak, late>>

EngineStep ==
    \/ KillSwitch
    \/ Admit
    \/ Start
    \/ LoopEnds
    \/ Return

ConsumerStep(id) == Request(id) \/ Answer(id) \/ Stop(id)

Next == Engage \/ Cancel \/ EngineStep \/ \E id \in Ids : ConsumerStep(id)

(* The goroutines run on, and a request ends with its timeout.  Nobody has *)
(* to throw the switch or to cancel.                                       *)
Fairness == WF_vars(EngineStep) /\ \A id \in Ids : WF_vars(ConsumerStep(id))

Spec == Init /\ [][Next]_vars /\ Fairness

-----------------------------------------------------------------------------
(* Properties. *)

(* The state is well formed.                                               *)
TypeOK ==
    /\ mode \in {"probes", "harness"}
    /\ {dryRun, killed, cancelled} \subseteq BOOLEAN
    /\ next \in 1..(Len(Consumers) + 1)
    /\ loop \in {"poll", "acquire", "wait", "returned"}
    /\ phase \in [Ids -> {"waiting", "ready", "sent", "done", "skipped"}]
    /\ \A id \in Ids : phase[id] \in {"ready", "sent"} => ~Exhausted(id)
    /\ failures \in [Ids -> 0..AbortOnConsecutive5xx]
    /\ faults \in 0..MaxFaults

Answers == {200, 400, 401, 403}

(* What a request reveals: it is let in when all the checks of one of      *)
(* these sets are missing.  Most requests are about a single one.  Where   *)
(* an attack would meet another check first, both have to be missing, and  *)
(* where no signature is looked at, no forgery is found out.               *)
Openings(check) ==
    CASE check = "none"                            -> {{"algorithm", "none", "spellings"}}
      [] check = "spellings"                       -> {{"algorithm", "spellings"}}
      [] check \in {"keyType", "zeros", "keyPath"} -> {{"algorithm", check}, {"algorithm", "signature"}}
      [] check = "embeddedKey"                     -> {{"embeddedKey"}, {"signature"}}
      [] check = "keyURL"                          -> {{"signature"}}
      [] check = "padding"                         -> {{"padding", "rawInput"}, {"padding", "signature"}}
      [] OTHER                                     -> {{check}}

(* Whether what a request is about is really wrong with a consumer.        *)
Lacks(id, check) ==
    CASE check = "retired" -> ResolveKey(Keys, "retired") \in Trusts[id] \/ "signature" \notin Performs[id]
      [] check = "pickup"  -> ResolveKey(Keys, "announced") \notin Trusts[id] /\ "signature" \in Performs[id]
      [] check = "nothing" -> FALSE
      [] OTHER             -> \E missing \in Openings(check) : missing \cap Performs[id] = {}

(* A probe takes a refusal for none when its status is not the one it      *)
(* expects (probes.go:93).                                                 *)
Misread(id, attempt) ==
    mode = "probes" /\ attempt.expect = "reject" /\ Refusal(id, attempt.check) \notin Expected(attempt)

(* The claims of a token of the corpus, as the inspection sees them.       *)
Inspected(m) ==
    [decodes |-> TRUE, act |-> <<>>, scope |-> <<>>, scp |-> <<>>, iat |-> Now,
     aud |-> IF "aud" \in DOMAIN m THEN [kind |-> "list", names |-> m.aud]
             ELSE [kind |-> "missing", names |-> {}],
     exp |-> IF "exp" \notin DOMAIN m THEN NoTime ELSE IF m.exp = "past" THEN Now - 1 ELSE Now + 1]

(* The inspection of an agent's token and the corpus agree on what they    *)
(* both look for: of the tokens sent to a consumer, those with an audience *)
(* that is not its own are the ones found unbound or mismatched.           *)
InspectionAgrees ==
    \A id \in Ids : \A attack \in ToSet(Corpora[id]) :
        LET policy == [DemoPolicy EXCEPT !.audience = First(Of(id).audiences, NoName)]
            found  == Threats(HandleAgentInspect(Inspected(attack.token.claims), policy).findings)
        IN  found \cap {"MCP-01", "MCP-02"} # {} <=> attack.check = "audience"

(* What the exactness of findings presumes.  A consumer is described with  *)
(* at least one audience (without any its audience is not checked at all,  *)
(* oracle.go), and requires no claim that a check looks at by itself: left *)
(* out it would fail that check too, and in the corpus its placeholder     *)
(* takes the place of the standard value (generators.go:35-37).            *)
Described(c) ==
    /\ c.issuers \in Seq(STRING)
    /\ c.audiences \in Seq(STRING) \ {<<>>}
    /\ Head(c.audiences) # NoName
    /\ ToSet(c.claims) \cap {"exp", "iss", "aud"} = {}

(* What a forged token is signed with is no key that a service trusts, the *)
(* values made to be wrong are no consumer's own, and a service that       *)
(* answers trusts the active key, without which it would refuse everything. *)
Markers == {"tampered", "empty", "attacker"}

WellDescribed ==
    /\ \A id \in Ids :
          /\ Described(Of(id))
          /\ ToSet(Of(id).issuers) \cap {"invalid", "evil"} = {}
          /\ ToSet(Of(id).audiences) \cap {"invalid", "other", "another", "passthrough", "sibling"} = {}
          /\ Trusts[id] \cap Markers = {}
    /\ \A id \in Ids \ Down : Probeable(Of(id)) =>
          /\ ResolveKey(Keys, "active") \in Trusts[id] \ {NoKey}
          /\ "issuer" \in Performs[id] => Of(id).issuers # <<>>

(* The results a run leaves are exact: a request that was answered is      *)
(* recorded as failed when, and only when, the consumer makes the mistake  *)
(* it was sent to reveal, for the probes and the corpus alike              *)
(* (probes.go:109-295, generators.go:52-187); but a probe also fails a     *)
(* consumer that refuses with another status than the expected one.  A     *)
(* token with a second defect would be refused for it and hide the first;  *)
(* a valid one with a defect would accuse everyone.  That a consumer       *)
(* fetches keys from where a header says is not revealed, for nothing is   *)
(* hosted there (harness.go:35-40).  And the inspection of tokens finds    *)
(* what it should (agentauth/analyze.go:68-153).                           *)
ExactFindings ==
    /\ \A id \in Ids : \A i \in DOMAIN results[id] :
          LET status == results[id][i]  attempt == Plan(id)[i]
          IN  status \in Answers =>
                  (~Passed(attempt, status) <=> Lacks(id, attempt.check) \/ Misread(id, attempt))
    /\ InspectionGates
    /\ InspectionAgrees

(* A consumer that has stopped answering is let alone: after               *)
(* AbortOnConsecutive5xx failures in a row the probes stop, whatever mix   *)
(* of server errors and refused connections they are (engine.go:248-262).  *)
(* Only a baseline that got no answer comes on top.                        *)
LetAlone ==
    mode = "probes" =>
        \A id \in Ids : LET first == results[id] # <<>> /\ results[id][1] = 0
                        IN  ~cancelled =>
                                streak[id] <= AbortOnConsecutive5xx + (IF first THEN 1 ELSE 0)

(* Once the kill switch is engaged at most one more consumer is started,   *)
(* the one already admitted (engine.go:142-149), in a harness run too; and *)
(* there are never more at once than the semaphore has places.             *)
Contained == late <= 1 /\ Cardinality(Running) <= Slots

(* The store never holds a result that the end of the caller's own context *)
(* made: a probe cut off would look like a consumer that refused the       *)
(* announced key.  What is stored of a consumer is all there was to send   *)
(* to it, unless it was given up for failing (app.go:90-97, engine.go:162).*)
NoCutOffResults ==
    loop = "returned" =>
        \A id \in Ids :
            \/ saved[id] = <<>>
            \/ Exhausted(id)
            \/ saved[id][1] = 500
            \/ failures[id] = AbortOnConsecutive5xx

(* The call returns: no consumer keeps its place in the semaphore, and     *)
(* every one has been served or skipped (engine.go:149-162).               *)
Returns == <>(loop = "returned" /\ (~cancelled => \A id \in Ids : phase[id] \in {"done", "skipped"}))
=============================================================================
