------------------------- MODULE ModelFallbackProofs -------------------------
(***************************************************************************)
(* Proofs about ModelFallback, for any numbers of providers and calls, and *)
(* any threshold, window, budget of attempts and length of chains.         *)
(***************************************************************************)
EXTENDS ModelFallback, FiniteSetTheorems, FunctionTheorems, SequenceTheorems, TLAPS

\* A chain is a sequence of at least one provider.
LEMMA ChainFacts ==
    ASSUME NEW s \in Chains
    PROVE  Len(s) \in Nat \ {0} /\ \A i \in 1 .. Len(s) : s[i] \in Providers
<1>1. PICK n \in 1 .. MaxChain : s \in [1 .. n -> Providers]
  BY DEF Chains
<1>2. n \in Nat \ {0} /\ s \in Seq(Providers)
  BY <1>1, SeqDef, NumbersAssumption
<1>3. Len(s) \in Nat /\ DOMAIN s = 1 .. Len(s)
  BY <1>2, LenProperties
<1>4. 1 .. Len(s) = 1 .. n
  BY <1>1, <1>3
<1>5. 1 \in 1 .. n
  BY <1>2
<1>6. 1 \in 1 .. Len(s)
  BY <1>4, <1>5
<1>. QED  BY <1>1, <1>3, <1>4, <1>6

\* is_available says no at most to a provider whose state key is set.  That
\* it never says no at all, as what Redis returns is text, is not used.
LEMMA UnavailableIsOpen == \A p \in Providers : ~IsAvailable(p) => Open(p)
<1>1. ASSUME NEW p \in Providers, ~IsAvailable(p) PROVE Open(p)
  <2>1. RawState(p).value = "open"
    BY <1>1 DEF IsAvailable
  <2>. QED  BY <2>1 DEF RawState
<1>. QED  BY <1>1

Active == {"check", "invoke", "record", "open", "succeeded"}

\* A call that walks its chain is at one of the chain's models.
Walks(d) ==
    /\ d.step = "idle" => d.pos = 1
    /\ d.step \in Active \cup {"failed"} => d.chain \in Chains /\ d.pos \in 1 .. Len(d.chain)

TypeInv == TypeOK /\ \A c \in Calls : Walks(call[c])

LEMMA AtAModel ==
    ASSUME TypeInv, NEW c \in Calls, call[c].step \in Active
    PROVE  /\ call[c].chain \in Chains /\ call[c].pos \in 1 .. Len(call[c].chain)
           /\ Len(call[c].chain) \in Nat
           /\ Provider(c) \in Providers
           /\ Mine(c) \in Failure
<1>1. call[c].chain \in Chains /\ call[c].pos \in 1 .. Len(call[c].chain)
  BY DEF TypeInv, Walks
<1>2. Len(call[c].chain) \in Nat /\ Provider(c) \in Providers
  BY <1>1, ChainFacts DEF Provider
<1>3. call[c].stamp \in Times /\ call[c].pos \in Nat
  BY <1>1, <1>2 DEF TypeInv, TypeOK, Call
<1>. QED  BY <1>1, <1>2, <1>3 DEF Mine, Failure

\* A move of a call to another step keeps its place in the chain.
LEMMA GotoFacts ==
    ASSUME TypeInv, NEW c \in Calls, NEW s \in Steps \ {"idle"}, Goto(c, s),
           call[c].step \in Active
    PROVE  /\ call' \in [Calls -> Call] /\ \A d \in Calls : Walks(call'[d])
           /\ call'[c].step = s /\ call'[c].chain = call[c].chain
           /\ call'[c].pos = call[c].pos
           /\ \A d \in Calls : d # c => call'[d] = call[d]
<1>1. call \in [Calls -> Call] /\ call' = [call EXCEPT ![c].step = s, ![c].stamp = 0]
  BY DEF Goto, TypeInv, TypeOK
<1>2. 0 \in Times
  BY NumbersAssumption DEF Times
<1>3. /\ call'[c] = [call[c] EXCEPT !.step = s, !.stamp = 0]
      /\ \A d \in Calls : d # c => call'[d] = call[d]
  BY <1>1
<1>4. call[c] \in Call
  BY <1>1
<1>5. /\ call'[c] \in Call /\ call'[c].step = s /\ call'[c].chain = call[c].chain
      /\ call'[c].pos = call[c].pos
  BY <1>2, <1>3, <1>4 DEF Call
<1>6. call' \in [Calls -> Call]
  BY <1>1, <1>3, <1>5
<1>7. Walks(call'[c])
  BY <1>5, AtAModel DEF Walks
<1>8. \A d \in Calls : Walks(call'[d])
  BY <1>3, <1>7 DEF TypeInv
<1>. QED  BY <1>3, <1>5, <1>6, <1>8

\* A call that ends forgets its chain.
LEMMA EndFacts ==
    ASSUME TypeInv, NEW c \in Calls, NEW s \in {"answered", "raised", "lost"}, End(c, s)
    PROVE  /\ call' \in [Calls -> Call] /\ \A d \in Calls : Walks(call'[d])
           /\ call'[c].step = s
           /\ \A d \in Calls : d # c => call'[d] = call[d]
<1>1. call \in [Calls -> Call] /\ call' = [call EXCEPT ![c] = [Idle EXCEPT !.step = s]]
  BY DEF End, TypeInv, TypeOK
<1>2. [Idle EXCEPT !.step = s] = [step |-> s, chain |-> <<>>, pos |-> 1, stamp |-> 0]
  BY DEF Idle
<1>3. [step |-> s, chain |-> <<>>, pos |-> 1, stamp |-> 0] \in Call
  BY NumbersAssumption DEF Call, Steps, Times
<1>4. call'[c].step = s /\ Walks(call'[c]) /\ \A d \in Calls : d # c => call'[d] = call[d]
  BY <1>1, <1>2 DEF Walks, Active
<1>5. call' \in [Calls -> Call]
  BY <1>1, <1>2, <1>3
<1>. QED  BY <1>4, <1>5 DEF TypeInv

\* The walk goes on to the next model within the budget, or gives up.
LEMMA NextModelFacts ==
    ASSUME TypeInv, NEW c \in Calls, call[c].step \in Active, NextModel(c)
    PROVE  /\ call' \in [Calls -> Call] /\ \A d \in Calls : Walks(call'[d])
           /\ call'[c].chain = call[c].chain
           /\ \/ call'[c].step = "check" /\ call'[c].pos = call[c].pos + 1
              \/ /\ call'[c].step = "failed" /\ call'[c].pos = call[c].pos
                 /\ call[c].pos >= Len(call[c].chain) \/ call[c].pos >= MaxAttempts
           /\ \A d \in Calls : d # c => call'[d] = call[d]
<1>0. /\ call[c].chain \in Chains /\ call[c].pos \in 1 .. Len(call[c].chain)
      /\ Len(call[c].chain) \in Nat /\ MaxAttempts \in Nat
  BY AtAModel, NumbersAssumption
<1>1. CASE call[c].pos < Len(call[c].chain) /\ call[c].pos < MaxAttempts
  <2>1. /\ call \in [Calls -> Call]
        /\ call' = [call EXCEPT ![c].step = "check", ![c].pos = @ + 1, ![c].stamp = 0]
    BY <1>1 DEF NextModel, TypeInv, TypeOK
  <2>. DEFINE next == call[c].pos + 1
  <2>2. /\ call'[c] = [call[c] EXCEPT !.step = "check", !.pos = next, !.stamp = 0]
        /\ \A d \in Calls : d # c => call'[d] = call[d]
        /\ next \in Nat
    BY <1>0, <2>1
  <2>. HIDE DEF next
  <2>3. call[c] \in Call /\ 0 \in Times /\ "check" \in Steps
    BY <2>1, NumbersAssumption DEF Times, Steps
  <2>4. /\ call'[c] \in Call /\ call'[c].step = "check" /\ call'[c].chain = call[c].chain
        /\ call'[c].pos = next
    BY <2>2, <2>3 DEF Call
  <2>5. call' \in [Calls -> Call]
    BY <2>1, <2>2, <2>4
  <2>6. Walks(call'[c])
    BY <1>0, <1>1, <2>4 DEF Walks, next
  <2>. QED  BY <2>2, <2>4, <2>5, <2>6 DEF TypeInv, next
<1>2. CASE ~(call[c].pos < Len(call[c].chain) /\ call[c].pos < MaxAttempts)
  <2>1. Goto(c, "failed") /\ "failed" \in Steps \ {"idle"}
    BY <1>2 DEF NextModel, Steps
  <2>. QED  BY <1>0, <1>2, <2>1, GotoFacts
<1>. QED  BY <1>1, <1>2

-----------------------------------------------------------------------------
\* Every variable keeps its type, and a call that walks its chain never runs
\* off its end.
LEMMA TypeInitial == Init => TypeInv
<1> SUFFICES ASSUME Init PROVE TypeInv
  OBVIOUS
<1>1. Idle \in Call /\ Walks(Idle)
  BY NumbersAssumption DEF Idle, Call, Steps, Times, Walks, Active
<1>2. NoFailures \in Counts
  BY DEF NoFailures, Counts
<1>3. 0 \in Times
  BY NumbersAssumption DEF Times
<1>. QED  BY <1>1, <1>2, <1>3 DEF Init, TypeInv, TypeOK

LEMMA TypeStep == ASSUME TypeInv, [Next]_vars PROVE TypeInv'
<1>0. /\ now \in Times /\ failures \in [Providers -> Counts]
      /\ openUntil \in [Providers -> Nat] /\ call \in [Calls -> Call]
      /\ log \in [Providers -> SUBSET Entry] /\ cleared \in [Providers -> Nat]
      /\ late \in [Providers -> BOOLEAN] /\ skipped \in [Calls -> SUBSET Nat]
      /\ Times \subseteq Nat /\ Window \in Nat /\ OpenTtl \in Nat /\ MaxClock \in Nat
  BY NumbersAssumption DEF TypeInv, TypeOK, Times
<1>s. Steps = {"idle", "check", "invoke", "record", "open", "succeeded",
               "answered", "failed", "raised", "lost"}
      /\ Active = {"check", "invoke", "record", "open", "succeeded"}
  BY DEF Steps, Active
<1>1. ASSUME NEW c \in Calls, Invoke(c) PROVE TypeInv'
  <2>1. PICK chain \in Chains :
          call' = [call EXCEPT ![c].step = "check", ![c].chain = chain]
    BY <1>1 DEF Invoke
  <2>2. /\ call'[c] = [call[c] EXCEPT !.step = "check", !.chain = chain]
        /\ \A d \in Calls : d # c => call'[d] = call[d]
    BY <1>0, <2>1
  <2>3. call[c] \in Call /\ call[c].pos = 1 /\ Len(chain) \in Nat \ {0}
    BY <1>0, <1>1, ChainFacts DEF Invoke, TypeInv, Walks
  <2>4. /\ call'[c] \in Call /\ call'[c].step = "check" /\ call'[c].chain = chain
        /\ call'[c].pos = 1
    BY <1>s, <2>2, <2>3 DEF Call
  <2>5. call' \in [Calls -> Call]
    BY <1>0, <2>1, <2>2, <2>4
  <2>6. Walks(call'[c])
    BY <2>3, <2>4 DEF Walks
  <2>7. \A d \in Calls : Walks(call'[d])
    BY <2>2, <2>6 DEF TypeInv
  <2>. QED  BY <1>1, <2>5, <2>7 DEF Invoke, TypeInv, TypeOK
<1>2. ASSUME NEW c \in Calls, Check(c) PROVE TypeInv'
  <2>1. call[c].step \in Active /\ (Goto(c, "invoke") \/ NextModel(c))
    BY <1>2, <1>s DEF Check
  <2>2. call' \in [Calls -> Call] /\ \A d \in Calls : Walks(call'[d])
    <3>1. CASE Goto(c, "invoke")
      BY <1>s, <2>1, <3>1, GotoFacts
    <3>2. CASE NextModel(c)
      BY <2>1, <3>2, NextModelFacts
    <3>. QED  BY <2>1, <3>1, <3>2
  <2>3. call[c].pos \in Nat
    BY <1>0 DEF Call
  <2>4. skipped' \in [Calls -> SUBSET Nat]
    <3>1. \/ skipped' = skipped
          \/ skipped' = [skipped EXCEPT ![c] = @ \cup {call[c].pos}]
      BY <1>2 DEF Check
    <3>. QED  BY <1>0, <2>3, <3>1
  <2>. QED  BY <1>0, <1>2, <2>2, <2>4 DEF Check, TypeInv, TypeOK
<1>3. ASSUME NEW c \in Calls, ModelAnswers(c) PROVE TypeInv'
  <2>1. call[c].step \in Active /\ Goto(c, "succeeded")
    BY <1>3, <1>s DEF ModelAnswers
  <2>2. call' \in [Calls -> Call] /\ \A d \in Calls : Walks(call'[d])
    BY <1>s, <2>1, GotoFacts
  <2>. QED  BY <1>3, <2>2 DEF ModelAnswers, TypeInv, TypeOK
<1>4. ASSUME NEW c \in Calls, ModelFails(c) PROVE TypeInv'
  <2>1. /\ call[c].step \in Active
        /\ call' = [call EXCEPT ![c].step = "record", ![c].stamp = now]
    BY <1>4, <1>s DEF ModelFails
  <2>2. /\ call'[c] = [call[c] EXCEPT !.step = "record", !.stamp = now]
        /\ \A d \in Calls : d # c => call'[d] = call[d]
    BY <1>0, <2>1
  <2>3. call[c] \in Call
    BY <1>0
  <2>4. /\ call'[c] \in Call /\ call'[c].step = "record"
        /\ call'[c].chain = call[c].chain /\ call'[c].pos = call[c].pos
    BY <1>0, <1>s, <2>2, <2>3 DEF Call
  <2>5. call' \in [Calls -> Call]
    BY <1>0, <2>1, <2>2, <2>4
  <2>6. Walks(call'[c])
    BY <2>1, <2>4, AtAModel DEF Walks
  <2>7. \A d \in Calls : Walks(call'[d])
    BY <2>2, <2>6 DEF TypeInv
  <2>. QED  BY <1>4, <2>5, <2>7 DEF ModelFails, TypeInv, TypeOK
<1>5. ASSUME NEW c \in Calls, ModelRaises(c) \/ RedisFails(c) \/ Crash(c) PROVE TypeInv'
  <2>1. /\ End(c, "raised") \/ End(c, "lost")
        /\ UNCHANGED <<now, failures, openUntil, log, cleared, late, skipped>>
    BY <1>5 DEF ModelRaises, RedisFails, Crash
  <2>2. call' \in [Calls -> Call] /\ \A d \in Calls : Walks(call'[d])
    BY <2>1, EndFacts
  <2>. QED  BY <2>1, <2>2 DEF TypeInv, TypeOK
<1>6. ASSUME NEW c \in Calls, RecordSuccess(c) PROVE TypeInv'
  <2>1. call' \in [Calls -> Call] /\ \A d \in Calls : Walks(call'[d])
    BY <1>6, EndFacts DEF RecordSuccess
  <2>2. Provider(c) \in Providers
    BY <1>6, <1>s, AtAModel DEF RecordSuccess
  <2>3. NoFailures \in Counts
    BY DEF NoFailures, Counts
  <2>4. /\ failures' \in [Providers -> Counts] /\ openUntil' \in [Providers -> Nat]
        /\ cleared' \in [Providers -> Nat]
    BY <1>0, <1>6, <2>2, <2>3 DEF RecordSuccess
  <2>. QED  BY <1>0, <1>6, <2>1, <2>4 DEF RecordSuccess, TypeInv, TypeOK
<1>7. ASSUME NEW c \in Calls, RecordFailure(c) PROVE TypeInv'
  <2>. DEFINE p == Provider(c)
              members == Evicted(Members(p), call[c].stamp) \cup {Mine(c)}
  <2>1. call[c].step \in Active
    BY <1>7, <1>s DEF RecordFailure
  <2>2. p \in Providers /\ Mine(c) \in Failure
    BY <2>1, AtAModel
  <2>3. failures[p].members \subseteq Failure /\ cleared[p] \in Nat
    BY <1>0, <2>2 DEF Counts
  <2>4. members \subseteq Failure
    BY <2>2, <2>3 DEF Evicted, Members
  <2>5. [members |-> members, until |-> now + 2 * Window] \in Counts
    BY <1>0, <2>4 DEF Counts
  <2>6. failures' = [failures EXCEPT ![p] = [members |-> members, until |-> now + 2 * Window]]
    BY <1>7 DEF RecordFailure
  <2>7. failures' \in [Providers -> Counts]
    BY <1>0, <2>2, <2>5, <2>6
  <2>8. [fail |-> Mine(c), since |-> cleared[p]] \in Entry
    BY <2>2, <2>3 DEF Entry
  <2>9. log' \in [Providers -> SUBSET Entry]
    BY <1>0, <1>7, <2>2, <2>8 DEF RecordFailure
  <2>10. late' \in [Providers -> BOOLEAN]
    BY <1>0, <1>7, <2>2 DEF RecordFailure
  <2>11. call' \in [Calls -> Call] /\ \A d \in Calls : Walks(call'[d])
    <3>1. Goto(c, "open") \/ NextModel(c)
      BY <1>7 DEF RecordFailure
    <3>2. CASE Goto(c, "open")
      BY <1>s, <2>1, <3>2, GotoFacts
    <3>3. CASE NextModel(c)
      BY <2>1, <3>3, NextModelFacts
    <3>. QED  BY <3>1, <3>2, <3>3
  <2>. QED  BY <1>0, <1>7, <2>7, <2>9, <2>10, <2>11 DEF RecordFailure, TypeInv, TypeOK
<1>8. ASSUME NEW c \in Calls, OpenCircuit(c) PROVE TypeInv'
  <2>1. call[c].step \in Active
    BY <1>8, <1>s DEF OpenCircuit
  <2>2. call' \in [Calls -> Call] /\ \A d \in Calls : Walks(call'[d])
    BY <1>8, <2>1, NextModelFacts DEF OpenCircuit
  <2>3. openUntil' \in [Providers -> Nat]
    BY <1>0, <1>8, <2>1, AtAModel DEF OpenCircuit
  <2>. QED  BY <1>0, <1>8, <2>2, <2>3 DEF OpenCircuit, TypeInv, TypeOK
<1>9. CASE Tick
  BY <1>0, <1>9 DEF Tick, TypeInv, TypeOK, Times
<1>10. CASE UNCHANGED vars
  BY <1>10 DEF vars, TypeInv, TypeOK
<1>. QED
  BY <1>1, <1>2, <1>3, <1>4, <1>5, <1>6, <1>7, <1>8, <1>9, <1>10 DEF Next, Progress

THEOREM FallbackTypeCorrect == Spec => []TypeInv
  BY TypeInitial, TypeStep, PTL DEF Spec

-----------------------------------------------------------------------------
\* Call c has passed position i of its chain for a reason: the circuit was
\* open, or a failure is in the history.
Passed(l, s, c, chain, i) == i \in s \/ \E e \in l[chain[i]] : e.fail.by = c /\ e.fail.pos = i

\* The models a call has left behind have all failed it or been skipped.
LeftBehind(l, s, c, d) ==
    /\ d.step \in Active =>
          \A i \in 1 .. Len(d.chain) :
             i < d.pos \/ (i = d.pos /\ d.step = "open") => Passed(l, s, c, d.chain, i)
    /\ d.step = "failed" =>
          \A i \in 1 .. Len(d.chain) : i <= MaxAttempts => Passed(l, s, c, d.chain, i)

WalkInv == \A c \in Calls : LeftBehind(log, skipped[c], c, call[c])

\* The history only grows, so what was passed for a reason stays so.
LEMMA LeftBehindGrows ==
    ASSUME NEW k \in [Providers -> SUBSET Entry], NEW l \in [Providers -> SUBSET Entry],
           \A p \in Providers : k[p] \subseteq l[p],
           NEW s, NEW t, s \subseteq t,
           NEW c, NEW d, Walks(d), LeftBehind(k, s, c, d)
    PROVE  LeftBehind(l, t, c, d)
<1>1. CASE d.step \in Active \cup {"failed"}
  <2>1. \A i \in 1 .. Len(d.chain) : d.chain[i] \in Providers
    BY <1>1, ChainFacts DEF Walks
  <2>2. \A i \in 1 .. Len(d.chain) : Passed(k, s, c, d.chain, i) => Passed(l, t, c, d.chain, i)
    BY <2>1 DEF Passed
  <2>. QED  BY <2>2 DEF LeftBehind
<1>2. CASE d.step \notin Active \cup {"failed"}
  BY <1>2 DEF LeftBehind
<1>. QED  BY <1>1, <1>2

\* When there is a reason to pass the model at hand, the walk may go on or
\* give up.
LEMMA LeavingAModel ==
    ASSUME TypeInv, NEW c \in Calls, call[c].step \in Active, NextModel(c),
           NEW l, NEW s, LeftBehind(l, s, c, call[c]),
           Passed(l, s, c, call[c].chain, call[c].pos)
    PROVE  LeftBehind(l, s, c, call'[c])
<1>1. /\ call[c].pos \in 1 .. Len(call[c].chain) /\ Len(call[c].chain) \in Nat
      /\ MaxAttempts \in Nat
  BY AtAModel, NumbersAssumption
<1>2. \A i \in 1 .. Len(call[c].chain) :
        i <= call[c].pos => Passed(l, s, c, call[c].chain, i)
  BY <1>1 DEF LeftBehind
<1>3. CASE call'[c].step = "check" /\ call'[c].pos = call[c].pos + 1
  <2>1. call'[c].chain = call[c].chain
    BY NextModelFacts
  <2>. QED  BY <1>1, <1>2, <1>3, <2>1 DEF LeftBehind
<1>4. CASE /\ call'[c].step = "failed"
           /\ call[c].pos >= Len(call[c].chain) \/ call[c].pos >= MaxAttempts
  <2>1. call'[c].chain = call[c].chain
    BY NextModelFacts
  <2>2. \A i \in 1 .. Len(call[c].chain) : i <= MaxAttempts => i <= call[c].pos
    BY <1>1, <1>4
  <2>. QED  BY <1>2, <1>4, <2>1, <2>2 DEF LeftBehind, Active
<1>. QED  BY <1>3, <1>4, NextModelFacts

LEMMA WalkStep == ASSUME TypeInv, WalkInv, [Next]_vars PROVE WalkInv'
<1>0. /\ call \in [Calls -> Call] /\ log \in [Providers -> SUBSET Entry]
      /\ skipped \in [Calls -> SUBSET Nat] /\ \A c \in Calls : Walks(call[c])
  BY DEF TypeInv, TypeOK
<1>s. Steps = {"idle", "check", "invoke", "record", "open", "succeeded",
               "answered", "failed", "raised", "lost"}
      /\ Active = {"check", "invoke", "record", "open", "succeeded"}
  BY DEF Steps, Active
\* The call moves on with the model it is at.
<1>1. ASSUME NEW c \in Calls, call[c].step \in Active, call[c].step # "open",
             call'[c].step \in Active \ {"open"}, call'[c].chain = call[c].chain,
             call'[c].pos = call[c].pos, \A d \in Calls : d # c => call'[d] = call[d],
             UNCHANGED <<log, skipped>>
      PROVE  WalkInv'
  <2>1. LeftBehind(log, skipped[c], c, call'[c])
    BY <1>1, <1>s DEF WalkInv, LeftBehind
  <2>. QED  BY <1>1, <2>1 DEF WalkInv
\* The call ends without giving up.
<1>2. ASSUME NEW c \in Calls, NEW s \in {"answered", "raised", "lost"}, End(c, s),
             UNCHANGED <<log, skipped>>
      PROVE  WalkInv'
  <2>1. call'[c].step = s /\ \A d \in Calls : d # c => call'[d] = call[d]
    BY <1>2, EndFacts DEF TypeInv
  <2>2. LeftBehind(log, skipped[c], c, call'[c])
    BY <1>s, <2>1 DEF LeftBehind
  <2>. QED  BY <1>2, <2>1, <2>2 DEF WalkInv
<1>3. ASSUME NEW c \in Calls, Invoke(c) PROVE WalkInv'
  <2>1. PICK chain \in Chains :
          call' = [call EXCEPT ![c].step = "check", ![c].chain = chain]
    BY <1>3 DEF Invoke
  <2>2. /\ call'[c] = [call[c] EXCEPT !.step = "check", !.chain = chain]
        /\ \A d \in Calls : d # c => call'[d] = call[d]
    BY <1>0, <2>1
  <2>3. call[c] \in Call /\ call[c].pos = 1
    BY <1>0, <1>3 DEF Invoke, Walks
  <2>4. call'[c].step = "check" /\ call'[c].pos = 1
    BY <2>2, <2>3 DEF Call
  <2>5. LeftBehind(log, skipped[c], c, call'[c])
    BY <2>4 DEF LeftBehind
  <2>. QED  BY <1>3, <2>2, <2>5 DEF Invoke, WalkInv
<1>4. ASSUME NEW c \in Calls, Check(c) PROVE WalkInv'
  <2>. DEFINE p == Provider(c)
  <2>1. call[c].step \in Active /\ call[c].step = "check" /\ log' = log
    BY <1>4, <1>s DEF Check
  <2>2. CASE IsAvailable(p)
    <3>1. Goto(c, "invoke") /\ skipped' = skipped
      BY <1>4, <2>2 DEF Check
    <3>2. /\ call'[c].step = "invoke" /\ call'[c].chain = call[c].chain
          /\ call'[c].pos = call[c].pos /\ \A d \in Calls : d # c => call'[d] = call[d]
      BY <1>s, <2>1, <3>1, GotoFacts
    <3>. QED  BY <1>1, <1>s, <2>1, <3>1, <3>2
  <2>3. CASE ~IsAvailable(p)
    <3>1. NextModel(c) /\ \A d \in Calls : d # c => call'[d] = call[d]
      BY <1>4, <2>1, <2>3, NextModelFacts DEF Check
    <3>2. Open(p)
      BY <2>1, <2>3, AtAModel, UnavailableIsOpen
    <3>3. skipped' = [skipped EXCEPT ![c] = @ \cup {call[c].pos}]
      BY <1>4, <2>3, <3>2 DEF Check
    <3>4. /\ skipped'[c] = skipped[c] \cup {call[c].pos}
          /\ \A d \in Calls : d # c => skipped'[d] = skipped[d]
      BY <1>0, <3>3
    <3>5. LeftBehind(log, skipped'[c], c, call[c])
      BY <1>0, <3>4, LeftBehindGrows DEF WalkInv
    <3>6. Passed(log, skipped'[c], c, call[c].chain, call[c].pos)
      BY <3>4 DEF Passed
    <3>7. LeftBehind(log, skipped'[c], c, call'[c])
      BY <2>1, <3>1, <3>5, <3>6, LeavingAModel
    <3>. QED  BY <2>1, <3>1, <3>4, <3>7 DEF WalkInv
  <2>. QED  BY <2>2, <2>3
<1>5. ASSUME NEW c \in Calls, ModelAnswers(c) PROVE WalkInv'
  <2>1. call[c].step \in Active /\ call[c].step = "invoke" /\ Goto(c, "succeeded")
    BY <1>5, <1>s DEF ModelAnswers
  <2>2. /\ call'[c].step = "succeeded" /\ call'[c].chain = call[c].chain
        /\ call'[c].pos = call[c].pos /\ \A d \in Calls : d # c => call'[d] = call[d]
    BY <1>s, <2>1, GotoFacts
  <2>. QED  BY <1>1, <1>5, <1>s, <2>1, <2>2 DEF ModelAnswers
<1>6. ASSUME NEW c \in Calls, ModelFails(c) PROVE WalkInv'
  <2>1. /\ call[c].step \in Active /\ call[c].step = "invoke"
        /\ call' = [call EXCEPT ![c].step = "record", ![c].stamp = now]
    BY <1>6, <1>s DEF ModelFails
  <2>2. /\ call'[c] = [call[c] EXCEPT !.step = "record", !.stamp = now]
        /\ \A d \in Calls : d # c => call'[d] = call[d]
    BY <1>0, <2>1
  <2>3. call[c] \in Call
    BY <1>0
  <2>4. /\ call'[c].step = "record" /\ call'[c].chain = call[c].chain
        /\ call'[c].pos = call[c].pos
    BY <2>2, <2>3 DEF Call
  <2>. QED  BY <1>1, <1>6, <1>s, <2>1, <2>2, <2>4 DEF ModelFails
<1>7. ASSUME NEW c \in Calls, ModelRaises(c) \/ RedisFails(c) \/ Crash(c) \/ RecordSuccess(c)
      PROVE  WalkInv'
  BY <1>2, <1>7 DEF ModelRaises, RedisFails, Crash, RecordSuccess
<1>8. ASSUME NEW c \in Calls, RecordFailure(c) PROVE WalkInv'
  <2>. DEFINE p == Provider(c)
              e == [fail |-> Mine(c), since |-> cleared[p]]
  <2>1. /\ call[c].step \in Active /\ call[c].step # "open" /\ p \in Providers
        /\ skipped' = skipped
    BY <1>8, <1>s, AtAModel DEF RecordFailure
  <2>2. log' \in [Providers -> SUBSET Entry]
    BY <1>8, TypeStep DEF Next, Progress, TypeInv, TypeOK
  <2>3. log' = [log EXCEPT ![p] = @ \cup {e}]
    BY <1>8 DEF RecordFailure
  <2>4. \A q \in Providers : log[q] \subseteq log'[q]
    BY <1>0, <2>3
  <2>5. \A d \in Calls : LeftBehind(log', skipped[d], d, call[d])
    BY <1>0, <2>2, <2>4, LeftBehindGrows DEF WalkInv
  <2>6. e \in log'[p] /\ e.fail.by = c /\ e.fail.pos = call[c].pos
    BY <1>0, <2>1, <2>3 DEF Mine
  <2>7. Passed(log', skipped[c], c, call[c].chain, call[c].pos)
    BY <2>6 DEF Passed, Provider
  <2>8. /\ call[c].pos \in 1 .. Len(call[c].chain) /\ Len(call[c].chain) \in Nat
    BY <2>1, AtAModel
  <2>9. CASE Goto(c, "open")
    <3>1. /\ call'[c].step = "open" /\ call'[c].chain = call[c].chain
          /\ call'[c].pos = call[c].pos /\ \A d \in Calls : d # c => call'[d] = call[d]
      BY <1>s, <2>1, <2>9, GotoFacts
    <3>2. LeftBehind(log', skipped[c], c, call'[c])
      BY <2>1, <2>5, <2>7, <2>8, <3>1 DEF LeftBehind
    <3>. QED  BY <2>1, <2>5, <3>1, <3>2 DEF WalkInv
  <2>10. CASE NextModel(c)
    <3>1. \A d \in Calls : d # c => call'[d] = call[d]
      BY <2>1, <2>10, NextModelFacts
    <3>2. LeftBehind(log', skipped[c], c, call'[c])
      BY <2>1, <2>5, <2>7, <2>10, LeavingAModel
    <3>. QED  BY <2>1, <2>5, <3>1, <3>2 DEF WalkInv
  <2>. QED  BY <1>8, <2>9, <2>10 DEF RecordFailure
<1>9. ASSUME NEW c \in Calls, OpenCircuit(c) PROVE WalkInv'
  <2>1. /\ call[c].step \in Active /\ call[c].step = "open" /\ NextModel(c)
        /\ UNCHANGED <<log, skipped>>
    BY <1>9, <1>s DEF OpenCircuit
  <2>2. Passed(log, skipped[c], c, call[c].chain, call[c].pos)
    BY <2>1, AtAModel DEF WalkInv, LeftBehind
  <2>3. LeftBehind(log, skipped[c], c, call'[c])
    BY <2>1, <2>2, LeavingAModel DEF WalkInv
  <2>4. \A d \in Calls : d # c => call'[d] = call[d]
    BY <2>1, NextModelFacts
  <2>. QED  BY <2>1, <2>3, <2>4 DEF WalkInv
<1>10. CASE Tick \/ UNCHANGED vars
  BY <1>10 DEF Tick, vars, WalkInv
<1>. QED
  BY <1>3, <1>4, <1>5, <1>6, <1>7, <1>8, <1>9, <1>10 DEF Next, Progress

\* A call that gives up has, for every model within the budget, a recorded
\* failure of its own or has found the circuit of its provider open.
THEOREM GivingUpIsJustified == Spec => []GivingUpMeansFailures
<1>1. Init => WalkInv
  BY DEF Init, Idle, WalkInv, LeftBehind, Active
<1>2. TypeInv /\ WalkInv /\ [Next]_vars => WalkInv'
  BY WalkStep
<1>3. WalkInv => GivingUpMeansFailures
  BY DEF WalkInv, LeftBehind, Passed, GivingUpMeansFailures
<1>. QED  BY <1>1, <1>2, <1>3, FallbackTypeCorrect, PTL DEF Spec

-----------------------------------------------------------------------------
\* A streak in the history stays one.
LEMMA EarnedGrows ==
    ASSUME NEW k, NEW l, k \subseteq l, IsFiniteSet(l), NEW m \in Nat, NEW n \in Nat, m <= n,
           Earned(k, m)
    PROVE  Earned(l, n)
<1>1. PICK t \in Times, i \in 0 .. m : Cardinality(Streak(k, t, i)) >= Threshold
  BY DEF Earned
<1>2. Streak(k, t, i) \subseteq Streak(l, t, i) /\ Streak(l, t, i) \subseteq l
  BY DEF Streak
<1>3. IsFiniteSet(Streak(l, t, i))
  BY <1>2, FS_Subset
<1>4. IsFiniteSet(Streak(k, t, i)) /\ Cardinality(Streak(k, t, i)) <= Cardinality(Streak(l, t, i))
  BY <1>2, <1>3, FS_Subset
<1>5. Cardinality(Streak(k, t, i)) \in Nat /\ Cardinality(Streak(l, t, i)) \in Nat
      /\ Threshold \in Nat
  BY <1>3, <1>4, FS_CardinalityType, NumbersAssumption
<1>6. Cardinality(Streak(l, t, i)) >= Threshold /\ i \in 0 .. n
  BY <1>1, <1>4, <1>5
<1>. QED  BY <1>6 DEF Earned

\* Enough members of the sorted set, all of the same streak, earn the key.
LEMMA MembersEarn ==
    ASSUME NEW l, IsFiniteSet(l), NEW members, NEW t \in Times, NEW n \in Nat,
           \A f \in members : /\ [fail |-> f, since |-> n] \in l
                              /\ f.at <= t /\ f.at + Window > t,
           Cardinality(members) >= Threshold
    PROVE  Earned(l, n)
<1>. DEFINE streak == Streak(l, t, n)
            inj == [f \in members |-> [fail |-> f, since |-> n]]
<1>1. streak \subseteq l
  BY DEF Streak
<1>2. IsFiniteSet(streak)
  BY <1>1, FS_Subset
<1>3. \A f \in members : inj[f] \in streak
  BY DEF Streak
<1>4. inj \in [members -> streak] /\ \A f, g \in members : inj[f] = inj[g] => f = g
  BY <1>3
<1>5. inj \in Injection(members, streak)
  BY <1>4 DEF Injection, IsInjective
<1>6. IsFiniteSet(members) /\ Cardinality(members) <= Cardinality(streak)
  BY <1>2, <1>5, FS_Injection
<1>7. Cardinality(members) \in Nat /\ Cardinality(streak) \in Nat /\ Threshold \in Nat
  BY <1>2, <1>6, FS_CardinalityType, NumbersAssumption
<1>8. Cardinality(streak) >= Threshold
  BY <1>6, <1>7
<1>. QED  BY <1>8 DEF Earned

\* The sorted set of a provider, the history and the calls that are about to
\* open its circuit fit together.
Counted(members, l, n) ==
    \A f \in members : [fail |-> f, since |-> n] \in l

EarnedInv ==
    /\ \A p \in Providers :
          /\ IsFiniteSet(log[p])
          /\ Counted(failures[p].members, log[p], cleared[p])
          /\ ~late[p] => \A f \in failures[p].members : f.at <= now
          /\ openUntil[p] > 0 /\ ~late[p] => Earned(log[p], cleared[p])
    /\ \A c \in Calls : call[c].step = "open" /\ ~late[Provider(c)] =>
          Earned(log[Provider(c)], cleared[Provider(c)])

LEMMA EarnedInitial == Init => EarnedInv
  BY FS_EmptySet DEF Init, EarnedInv, Counted, NoFailures, Idle

\* A step that leaves the keys and the history alone.
LEMMA EarnedUntouched ==
    ASSUME EarnedInv, TypeInv, UNCHANGED <<failures, openUntil, log, cleared, late>>,
           now' \in Nat, now' >= now,
           \A c \in Calls : call'[c].step = "open" => call'[c] = call[c]
    PROVE  EarnedInv'
<1>0. /\ now \in Nat /\ \A p \in Providers : failures[p].members \subseteq Failure
      /\ \A f \in Failure : f.at \in Nat
  BY NumbersAssumption DEF TypeInv, TypeOK, Counts, Failure, Times
<1>1. \A p \in Providers :
        ~late[p] => \A f \in failures[p].members : f.at <= now'
  BY <1>0 DEF EarnedInv
<1>2. \A c \in Calls : call'[c].step = "open" =>
        Provider(c)' = Provider(c) /\ call[c].step = "open"
  BY DEF Provider
<1>. QED  BY <1>1, <1>2 DEF EarnedInv

LEMMA EarnedStep == ASSUME TypeInv, EarnedInv, [Next]_vars PROVE EarnedInv'
<1>0. /\ now \in Times /\ Times \subseteq Nat /\ failures \in [Providers -> Counts]
      /\ openUntil \in [Providers -> Nat] /\ call \in [Calls -> Call]
      /\ log \in [Providers -> SUBSET Entry] /\ cleared \in [Providers -> Nat]
      /\ late \in [Providers -> BOOLEAN] /\ OpenTtl \in Nat \ {0} /\ Window \in Nat
  BY NumbersAssumption DEF TypeInv, TypeOK, Times
<1>s. Steps = {"idle", "check", "invoke", "record", "open", "succeeded",
               "answered", "failed", "raised", "lost"}
      /\ Active = {"check", "invoke", "record", "open", "succeeded"}
  BY DEF Steps, Active
<1>t. TypeInv'
  BY TypeStep
\* One call moves, and not to the opening of a circuit.
<1>1. ASSUME NEW c \in Calls, call'[c].step # "open",
             \A d \in Calls : d # c => call'[d] = call[d],
             UNCHANGED <<now, failures, openUntil, log, cleared, late>>
      PROVE  EarnedInv'
  BY <1>0, <1>1, EarnedUntouched
<1>2. ASSUME NEW c \in Calls, Invoke(c) PROVE EarnedInv'
  <2>1. PICK chain \in Chains :
          call' = [call EXCEPT ![c].step = "check", ![c].chain = chain]
    BY <1>2 DEF Invoke
  <2>2. /\ call'[c] = [call[c] EXCEPT !.step = "check", !.chain = chain]
        /\ \A d \in Calls : d # c => call'[d] = call[d]
    BY <1>0, <2>1
  <2>3. call[c] \in Call
    BY <1>0
  <2>4. call'[c].step = "check"
    BY <2>2, <2>3 DEF Call
  <2>. QED  BY <1>1, <1>2, <2>2, <2>4 DEF Invoke
<1>3. ASSUME NEW c \in Calls, Check(c) \/ ModelAnswers(c) PROVE EarnedInv'
  <2>1. /\ call[c].step \in Active
        /\ Goto(c, "invoke") \/ Goto(c, "succeeded") \/ NextModel(c)
    BY <1>3, <1>s DEF Check, ModelAnswers
  <2>2. call'[c].step # "open" /\ \A d \in Calls : d # c => call'[d] = call[d]
    <3>1. CASE Goto(c, "invoke") \/ Goto(c, "succeeded")
      BY <1>s, <2>1, <3>1, GotoFacts
    <3>2. CASE NextModel(c)
      BY <2>1, <3>2, NextModelFacts
    <3>. QED  BY <2>1, <3>1, <3>2
  <2>. QED  BY <1>1, <1>3, <2>2 DEF Check, ModelAnswers
<1>4. ASSUME NEW c \in Calls, ModelFails(c) PROVE EarnedInv'
  <2>1. /\ call'[c] = [call[c] EXCEPT !.step = "record", !.stamp = now]
        /\ \A d \in Calls : d # c => call'[d] = call[d]
    BY <1>0, <1>4 DEF ModelFails
  <2>2. call[c] \in Call
    BY <1>0
  <2>3. call'[c].step = "record"
    BY <2>1, <2>2 DEF Call
  <2>. QED  BY <1>1, <1>4, <2>1, <2>3 DEF ModelFails
<1>5. ASSUME NEW c \in Calls, ModelRaises(c) \/ RedisFails(c) \/ Crash(c) PROVE EarnedInv'
  <2>1. /\ End(c, "raised") \/ End(c, "lost")
        /\ UNCHANGED <<now, failures, openUntil, log, cleared, late, skipped>>
    BY <1>5 DEF ModelRaises, RedisFails, Crash
  <2>2. call'[c].step # "open" /\ \A d \in Calls : d # c => call'[d] = call[d]
    BY <2>1, EndFacts
  <2>. QED  BY <1>1, <2>1, <2>2
<1>6. ASSUME NEW c \in Calls, RecordSuccess(c) PROVE EarnedInv'
  <2>. DEFINE p == Provider(c)
  <2>1. call'[c].step = "answered" /\ \A d \in Calls : d # c => call'[d] = call[d]
    BY <1>6, EndFacts DEF RecordSuccess
  <2>2. p \in Providers
    BY <1>6, <1>s, AtAModel DEF RecordSuccess
  <2>3. /\ UNCHANGED <<now, log, late, skipped>>
        /\ failures'[p].members = {} /\ openUntil'[p] = 0 /\ cleared'[p] = cleared[p] + 1
        /\ \A q \in Providers : q # p => /\ failures'[q] = failures[q]
                                         /\ openUntil'[q] = openUntil[q]
                                         /\ cleared'[q] = cleared[q]
    BY <1>0, <1>6, <2>2 DEF RecordSuccess, NoFailures
  <2>4. \A q \in Providers : Earned(log[q], cleared[q]) => Earned(log'[q], cleared'[q])
    BY <1>0, <2>3, EarnedGrows DEF EarnedInv
  <2>5. \A q \in Providers :
          /\ IsFiniteSet(log'[q])
          /\ Counted(failures'[q].members, log'[q], cleared'[q])
          /\ ~late'[q] => \A f \in failures'[q].members : f.at <= now'
          /\ openUntil'[q] > 0 /\ ~late'[q] => Earned(log'[q], cleared'[q])
    BY <2>3, <2>4 DEF EarnedInv, Counted
  <2>6. \A d \in Calls : call'[d].step = "open" =>
          /\ Provider(d)' = Provider(d) /\ call[d].step = "open"
          /\ Provider(d) \in Providers
    BY <2>1, <1>s, AtAModel DEF Provider
  <2>7. \A d \in Calls : call'[d].step = "open" /\ ~late'[Provider(d)'] =>
          Earned(log'[Provider(d)'], cleared'[Provider(d)'])
    BY <2>3, <2>4, <2>6 DEF EarnedInv
  <2>. QED  BY <2>5, <2>7 DEF EarnedInv
<1>7. ASSUME NEW c \in Calls, RecordFailure(c) PROVE EarnedInv'
  <2>. DEFINE p == Provider(c)
              s == call[c].stamp
              members == Evicted(Members(p), s) \cup {Mine(c)}
              e == [fail |-> Mine(c), since |-> cleared[p]]
  <2>1. call[c].step \in Active /\ p \in Providers /\ Mine(c) \in Failure
    BY <1>7, <1>s, AtAModel DEF RecordFailure
  <2>2. /\ UNCHANGED <<now, openUntil, cleared, skipped>>
        /\ failures' = [failures EXCEPT ![p] = [members |-> members,
                                                until |-> now + 2 * Window]]
        /\ log' = [log EXCEPT ![p] = @ \cup {e}]
        /\ late' = [late EXCEPT ![p] = @ \/ s # now]
    BY <1>7 DEF RecordFailure
  <2>3. /\ failures'[p].members = members /\ log'[p] = log[p] \cup {e}
        /\ ~late'[p] => ~late[p] /\ s = now
        /\ \A q \in Providers : q # p => /\ failures'[q] = failures[q]
                                         /\ log'[q] = log[q]
                                         /\ late'[q] = late[q]
    BY <1>0, <2>1, <2>2
  <2>4. \A q \in Providers : IsFiniteSet(log'[q]) /\ log[q] \subseteq log'[q]
    <3>1. \A q \in Providers : IsFiniteSet(log[q])
      BY DEF EarnedInv
    <3>2. IsFiniteSet(log[p] \cup {e})
      BY <2>1, <3>1, FS_AddElement
    <3>. HIDE DEF p, e
    <3>. QED  BY <2>3, <3>1, <3>2
  <2>5. ASSUME NEW q \in Providers, Earned(log[q], cleared[q])
        PROVE  Earned(log'[q], cleared'[q])
    <3>1. cleared[q] \in Nat /\ cleared'[q] = cleared[q]
      BY <1>0, <2>2
    <3>2. Earned(log'[q], cleared[q])
      BY <2>4, <2>5, <3>1, EarnedGrows
    <3>. QED  BY <3>1, <3>2
  <2>6. \A f \in members : f = Mine(c) \/ (f \in failures[p].members /\ f.at + Window > s)
    BY DEF Evicted, Members
  <2>7. Counted(members, log'[p], cleared[p])
    BY <2>1, <2>3, <2>6 DEF EarnedInv, Counted
  <2>8. s \in Times /\ Mine(c).at = s
    BY <1>0 DEF Mine, Call
  <2>9. ~late'[p] => \A f \in members : f.at <= now /\ f.at + Window > now
    <3>1. Window \in Nat \ {0}
      BY NumbersAssumption
    <3>. QED  BY <1>0, <2>1, <2>3, <2>6, <2>8, <3>1 DEF EarnedInv
  <2>10. \A q \in Providers :
          /\ Counted(failures'[q].members, log'[q], cleared'[q])
          /\ ~late'[q] => \A f \in failures'[q].members : f.at <= now'
    BY <2>2, <2>3, <2>7, <2>9 DEF EarnedInv
  <2>11. \A q \in Providers : openUntil'[q] > 0 /\ ~late'[q] => Earned(log'[q], cleared'[q])
    BY <2>2, <2>3, <2>5 DEF EarnedInv
  <2>12. ~late'[p] /\ Cardinality(members) >= Threshold => Earned(log'[p], cleared'[p])
    <3>1. SUFFICES ASSUME ~late'[p], Cardinality(members) >= Threshold
                   PROVE  Earned(log'[p], cleared'[p])
      OBVIOUS
    <3>2. \A f \in members : /\ [fail |-> f, since |-> cleared[p]] \in log'[p]
                             /\ f.at <= now /\ f.at + Window > now
      BY <2>7, <2>9, <3>1 DEF Counted
    <3>3. IsFiniteSet(log'[p]) /\ cleared[p] \in Nat /\ now \in Times /\ cleared'[p] = cleared[p]
      BY <1>0, <2>1, <2>2, <2>4
    <3>. HIDE DEF members, p
    <3>4. Earned(log'[p], cleared[p])
      BY <3>1, <3>2, <3>3, MembersEarn
    <3>. QED  BY <3>3, <3>4
  <2>13. /\ \A d \in Calls : d # c => call'[d] = call[d]
         /\ call'[c].step = "open" =>
              /\ Cardinality(members) >= Threshold
              /\ call'[c].chain = call[c].chain /\ call'[c].pos = call[c].pos
    <3>1. IF Cardinality(members) >= Threshold THEN Goto(c, "open") ELSE NextModel(c)
      BY <1>7 DEF RecordFailure
    <3>2. CASE Cardinality(members) >= Threshold
      BY <1>s, <2>1, <3>1, <3>2, GotoFacts
    <3>3. CASE ~(Cardinality(members) >= Threshold)
      <4>1. NextModel(c)
        BY <3>1, <3>3
      <4>2. call'[c].step \in {"check", "failed"} /\ \A d \in Calls : d # c => call'[d] = call[d]
        BY <2>1, <4>1, NextModelFacts
      <4>. QED  BY <4>2
    <3>. QED  BY <3>2, <3>3
  <2>14. ASSUME NEW d \in Calls, call'[d].step = "open", ~late'[Provider(d)']
         PROVE  Earned(log'[Provider(d)'], cleared'[Provider(d)'])
    <3>1. CASE d = c
      <4>1. Provider(d)' = p
        BY <2>13, <2>14, <3>1 DEF Provider
      <4>. QED  BY <2>12, <2>13, <2>14, <3>1, <4>1
    <3>2. CASE d # c
      <4>1. Provider(d)' = Provider(d) /\ call[d].step = "open"
        BY <2>13, <2>14, <3>2 DEF Provider
      <4>2. Provider(d) \in Providers
        BY <1>s, <4>1, AtAModel
      <4>3. ~late[Provider(d)]
        BY <2>3, <2>14, <4>1, <4>2
      <4>. QED  BY <2>5, <4>1, <4>2, <4>3 DEF EarnedInv
    <3>. QED  BY <3>1, <3>2
  <2>. QED  BY <2>4, <2>10, <2>11, <2>14 DEF EarnedInv
<1>8. ASSUME NEW c \in Calls, OpenCircuit(c) PROVE EarnedInv'
  <2>. DEFINE p == Provider(c)
  <2>1. call[c].step \in Active /\ call[c].step = "open" /\ p \in Providers
    BY <1>8, <1>s, AtAModel DEF OpenCircuit
  <2>2. /\ call'[c].step # "open" /\ \A d \in Calls : d # c => call'[d] = call[d]
    BY <1>8, <2>1, NextModelFacts DEF OpenCircuit
  <2>3. /\ UNCHANGED <<now, failures, log, cleared, late, skipped>>
        /\ \A q \in Providers : q # p => openUntil'[q] = openUntil[q]
    BY <1>0, <1>8 DEF OpenCircuit
  <2>4. \A q \in Providers : openUntil'[q] > 0 /\ ~late'[q] => Earned(log'[q], cleared'[q])
    BY <2>1, <2>3 DEF EarnedInv
  <2>5. \A d \in Calls : call'[d].step = "open" =>
          Provider(d)' = Provider(d) /\ call[d].step = "open"
    BY <2>2 DEF Provider
  <2>. QED  BY <2>3, <2>4, <2>5 DEF EarnedInv
<1>9. CASE Tick
  BY <1>0, <1>9, EarnedUntouched DEF Tick
<1>10. CASE UNCHANGED vars
  BY <1>0, <1>10, EarnedUntouched DEF vars
<1>. QED
  BY <1>2, <1>3, <1>4, <1>5, <1>6, <1>7, <1>8, <1>9, <1>10 DEF Next, Progress

\* However the pipelines, successes and state keys of concurrent calls
\* interleave, "open" is only ever written for enough failures in one window
\* with no success between them.
THEOREM OpenCircuitsAreEarned == Spec => []OpenIsEarned
<1>1. EarnedInv => OpenIsEarned
  BY DEF EarnedInv, OpenIsEarned
<1>. QED  BY <1>1, EarnedInitial, EarnedStep, FallbackTypeCorrect, PTL DEF Spec
=============================================================================
