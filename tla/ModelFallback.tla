--------------------------- MODULE ModelFallback ---------------------------
(***************************************************************************)
(* FallbackInvoker and the circuit breaker of each provider: the calls of  *)
(* all worker processes walk their chains of models and share, in Redis,   *)
(* a sorted set of failures and a state key per provider.                  *)
(*                                                                         *)
(* A step is what happens between two awaits; each Redis pipeline is one   *)
(* transaction.  A failure is stamped when the model call fails and counted*)
(* when its pipeline executes, which other calls may precede.  A model is  *)
(* its provider: no step looks at anything else of it.                     *)
(*                                                                         *)
(* All processes stamp by one clock.  The code takes time.time() of each   *)
(* worker; a clock that differs from the others' moves its failures in the *)
(* windows, which is not modelled.                                         *)
(***************************************************************************)
EXTENDS Naturals, Sequences, FiniteSets

CONSTANTS
    Providers,
    Calls,
    MaxAttempts,   \* max_fallback_attempts + 1
    Threshold,     \* circuit_failure_threshold
    Window,        \* circuit_window_s
    OpenTtl,       \* circuit_open_ttl_s
    MaxChain,      \* bound on the length of a chain
    Horizon,       \* bound: calls take place until this time
    MaxClock       \* bound on the clock

ASSUME NumbersAssumption ==
    /\ MaxAttempts \in Nat \ {0}
    /\ Threshold \in Nat \ {0}
    /\ Window \in Nat \ {0}
    /\ OpenTtl \in Nat \ {0}
    /\ MaxChain \in Nat \ {0}
    /\ Horizon \in Nat
    /\ MaxClock \in Nat

VARIABLES
    now,
    failures,    \* failures[p]: the sorted set: its members and when its key expires
    openUntil,   \* openUntil[p]: when the state key "open" expires, 0 without one
    call,        \* call[c]: step, chain, position, stamp of its last failure
    log,         \* history: log[p], the failures of p that were recorded
    cleared,     \* history: cleared[p], how many successes of p were recorded
    late,        \* history: late[p], a failure of p was recorded after its second
    skipped      \* history: skipped[c], positions c passed over for an open circuit

vars == <<now, failures, openUntil, call, log, cleared, late, skipped>>

Times == 0 .. MaxClock
Chains == UNION {[1 .. n -> Providers] : n \in 1 .. MaxChain}
Steps == {"idle", "check", "invoke", "record", "open", "succeeded",
          "answered", "failed", "raised", "lost"}
Done == {"answered", "failed", "raised", "lost"}

\* A member of the sorted set: its score, and whose it is (a random suffix
\* in the code, so that no two are the same).
Failure == [at : Times, by : Calls, pos : Nat]

Counts == [members : SUBSET Failure, until : Nat]

\* A recorded failure, and the successes recorded before it.
Entry == [fail : Failure, since : Nat]

Call == [step : Steps, chain : Chains \cup {<<>>}, pos : Nat, stamp : Times]

NoFailures == [members |-> {}, until |-> 0]

Idle == [step |-> "idle", chain |-> <<>>, pos |-> 1, stamp |-> 0]

Init ==
    /\ now = 0
    /\ failures = [p \in Providers |-> NoFailures]
    /\ openUntil = [p \in Providers |-> 0]
    /\ call = [c \in Calls |-> Idle]
    /\ log = [p \in Providers |-> {}]
    /\ cleared = [p \in Providers |-> 0]
    /\ late = [p \in Providers |-> FALSE]
    /\ skipped = [c \in Calls |-> {}]

-----------------------------------------------------------------------------
(* The keys of a provider.                                                 *)

Open(p) == now < openUntil[p]

Members(p) == IF now < failures[p].until THEN failures[p].members ELSE {}

\* What GET returns of the state key: create_redis_client decodes responses.
RawState(p) == [type |-> "str", value |-> IF Open(p) THEN "open" ELSE "none"]

IsAvailable(p) == RawState(p) # [type |-> "bytes", value |-> "open"]

\* Mutation of Evicted: stale failures are counted too.
EvictedNone(members, stamp) == members

\* zremrangebyscore, up to the window before the stamp.
Evicted(members, stamp) == {f \in members : f.at + Window > stamp}

-----------------------------------------------------------------------------
(* A call.                                                                 *)

Provider(c) == call[c].chain[call[c].pos]
Mine(c) == [at |-> call[c].stamp, by |-> c, pos |-> call[c].pos]

\* A step of the call; record_failure's stamp is local to it.
Goto(c, step) == call' = [call EXCEPT ![c].step = step, ![c].stamp = 0]

\* The call ends with an answer, an exception, or with its process.
End(c, step) == call' = [call EXCEPT ![c] = [Idle EXCEPT !.step = step]]

\* Mutation of NextModel: the model after a failed one is skipped.
NextModelButOne(c) ==
    IF call[c].pos < Len(call[c].chain) - 1 /\ call[c].pos < MaxAttempts
      THEN call' = [call EXCEPT ![c].step = "check", ![c].pos = @ + 1]
      ELSE Goto(c, "failed")

\* The next model of fallback_chain.model_ids[:max_attempts], or an
\* InvocationFailure.
NextModel(c) ==
    IF call[c].pos < Len(call[c].chain) /\ call[c].pos < MaxAttempts
      THEN call' = [call EXCEPT ![c].step = "check", ![c].pos = @ + 1, ![c].stamp = 0]
      ELSE Goto(c, "failed")

\* llm_response_node passes a chain of at least one model.
Invoke(c) ==
    /\ call[c].step = "idle"
    /\ now < Horizon
    /\ \E chain \in Chains :
          call' = [call EXCEPT ![c].step = "check", ![c].chain = chain]
    /\ UNCHANGED <<now, failures, openUntil, log, cleared, late, skipped>>

Check(c) ==
    /\ call[c].step = "check"
    /\ IF IsAvailable(Provider(c)) THEN Goto(c, "invoke") ELSE NextModel(c)
    /\ skipped' = IF ~IsAvailable(Provider(c)) /\ Open(Provider(c))
                    THEN [skipped EXCEPT ![c] = @ \cup {call[c].pos}] ELSE skipped
    /\ UNCHANGED <<now, failures, openUntil, log, cleared, late>>

ModelAnswers(c) ==
    /\ call[c].step = "invoke"
    /\ Goto(c, "succeeded")
    /\ UNCHANGED <<now, failures, openUntil, log, cleared, late, skipped>>

\* 5xx, 429 or a timeout; record_failure takes its stamp before it awaits.
ModelFails(c) ==
    /\ call[c].step = "invoke"
    /\ call' = [call EXCEPT ![c].step = "record", ![c].stamp = now]
    /\ UNCHANGED <<now, failures, openUntil, log, cleared, late, skipped>>

\* classify_error knows no code for the error: it is raised, not recorded.
ModelRaises(c) ==
    /\ call[c].step = "invoke"
    /\ End(c, "raised")
    /\ UNCHANGED <<now, failures, openUntil, log, cleared, late, skipped>>

RecordSuccess(c) ==
    LET p == Provider(c)
    IN  /\ call[c].step = "succeeded"
        /\ openUntil' = [openUntil EXCEPT ![p] = 0]
        /\ failures' = [failures EXCEPT ![p] = NoFailures]
        /\ cleared' = [cleared EXCEPT ![p] = @ + 1]
        /\ End(c, "answered")
        /\ UNCHANGED <<now, log, late, skipped>>

RecordFailure(c) ==
    LET p == Provider(c)
        members == Evicted(Members(p), call[c].stamp) \cup {Mine(c)}
    IN  /\ call[c].step = "record"
        /\ failures' = [failures EXCEPT ![p] = [members |-> members,
                                                until |-> now + 2 * Window]]
        /\ IF Cardinality(members) >= Threshold
             THEN Goto(c, "open")
             ELSE NextModel(c)
        /\ log' = [log EXCEPT ![p] = @ \cup {[fail |-> Mine(c), since |-> cleared[p]]}]
        /\ late' = [late EXCEPT ![p] = @ \/ call[c].stamp # now]
        /\ UNCHANGED <<now, openUntil, cleared, skipped>>

\* Mutation of OpenCircuit: the state key is set without a time to live.
OpenCircuitForGood(c) ==
    /\ call[c].step = "open"
    /\ openUntil' = [openUntil EXCEPT ![Provider(c)] = MaxClock + 1]
    /\ NextModel(c)
    /\ UNCHANGED <<now, failures, log, cleared, late, skipped>>

\* The state key is set after the pipeline has counted.
OpenCircuit(c) ==
    /\ call[c].step = "open"
    /\ openUntil' = [openUntil EXCEPT ![Provider(c)] = now + OpenTtl]
    /\ NextModel(c)
    /\ UNCHANGED <<now, failures, log, cleared, late, skipped>>

\* Redis raises.  After a success this happens inside the try of the model
\* call, and classify_error knows no code for it: the answer is lost.
RedisFails(c) ==
    /\ call[c].step \in {"check", "succeeded", "record", "open"}
    /\ End(c, "raised")
    /\ UNCHANGED <<now, failures, openUntil, log, cleared, late, skipped>>

\* The worker process stops.
Crash(c) ==
    /\ call[c].step \notin Done \cup {"idle"}
    /\ End(c, "lost")
    /\ UNCHANGED <<now, failures, openUntil, log, cleared, late, skipped>>

Tick ==
    /\ now < MaxClock
    /\ now >= Horizon => \A c \in Calls : call[c].step \in Done \cup {"idle"}
    /\ now' = now + 1
    /\ UNCHANGED <<failures, openUntil, call, log, cleared, late, skipped>>

Progress(c) ==
    \/ Check(c) \/ ModelAnswers(c) \/ ModelFails(c) \/ ModelRaises(c)
    \/ RecordSuccess(c) \/ RecordFailure(c) \/ OpenCircuit(c) \/ RedisFails(c)

Next ==
    \/ \E c \in Calls : Invoke(c) \/ Progress(c) \/ Crash(c)
    \/ Tick

Spec == Init /\ [][Next]_vars

\* Model calls have a timeout, and time passes.
FairSpec == Spec /\ WF_vars(Tick) /\ \A c \in Calls : WF_vars(Progress(c))

-----------------------------------------------------------------------------
(* Properties.                                                             *)

\* Every variable holds a value of its type.
TypeOK ==
    /\ now \in Times
    /\ failures \in [Providers -> Counts]
    /\ openUntil \in [Providers -> Nat]
    /\ call \in [Calls -> Call]
    /\ log \in [Providers -> SUBSET Entry]
    /\ cleared \in [Providers -> Nat]
    /\ late \in [Providers -> BOOLEAN]
    /\ skipped \in [Calls -> SUBSET Nat]

\* The entries of the window that ends at t, recorded after n successes.
Streak(entries, t, n) ==
    {e \in entries : e.since = n /\ e.fail.at <= t /\ e.fail.at + Window > t}

Earned(entries, successes) ==
    \E t \in Times, n \in 0 .. successes : Cardinality(Streak(entries, t, n)) >= Threshold

\* However the pipelines, the successes and the state keys of concurrent
\* calls interleave, the key of a provider says "open" only after Threshold
\* recorded failures within one window, with no recorded success between
\* them.  A failure recorded after the second it happened in may stretch the
\* window: the provider is then excused.
OpenIsEarned ==
    \A p \in Providers :
        openUntil[p] > 0 /\ ~late[p] => Earned(log[p], cleared[p])

\* An InvocationFailure says that every candidate has been tried, or skipped
\* because its circuit was open, and that none succeeded: each one within
\* the budget of attempts has a failure of this call on record with its
\* provider, whatever the other calls have reset meanwhile, or this call
\* found the state key of its provider set when it came to it.
GivingUpMeansFailures ==
    \A c \in Calls :
        call[c].step = "failed" =>
            \A i \in 1 .. Len(call[c].chain) :
                i <= MaxAttempts =>
                    \/ i \in skipped[c]
                    \/ \E e \in log[call[c].chain[i]] : e.fail.by = c /\ e.fail.pos = i

\* Once no calls are made, an open circuit closes: every call ends, and the
\* state key outlives its last failure by its time to live only.
OpenCircuitsClose == \A p \in Providers : Open(p) ~> ~Open(p)

-----------------------------------------------------------------------------
(* A statement of the repository that the code does not satisfy.           *)

\* is_available returns False if the circuit is open: no call goes to a
\* provider whose circuit it has just found open.
OpenCircuitIsSkipped ==
    [][\A c \in Calls :
          call[c].step = "check" /\ call'[c].step = "invoke" => ~Open(Provider(c))]_vars

=============================================================================
