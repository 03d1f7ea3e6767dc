-------------------------- MODULE AuditChainProofs --------------------------
(***************************************************************************)
(* Proofs about AuditChain, for any numbers of requests and rows, any page *)
(* and chunk size and any clocks.                                          *)
(***************************************************************************)
EXTENDS AuditChain, FiniteSetTheorems, WellFoundedInduction, TLAPS

-----------------------------------------------------------------------------
(* The order of rows.                                                      *)

\* A finite set with a strict total order has a first element.
LEMMA FirstExists ==
    ASSUME NEW S, IsFiniteSet(S), S # {}, NEW R,
           \A x \in S : <<x, x>> \notin R,
           \A x, y, z \in S : <<x, y>> \in R /\ <<y, z>> \in R => <<x, z>> \in R,
           \A x, y \in S : x # y => <<x, y>> \in R \/ <<y, x>> \in R
    PROVE  \E m \in S : \A q \in S : q = m \/ <<m, q>> \in R
<1>. DEFINE below(x) == {y \in S : <<y, x>> \in R}
            B == {below(x) : x \in S}
<1>1. IsWellFoundedOn(StrictSubsetOrdering(S), SUBSET S)
  BY FS_StrictSubsetOrderingWellFounded, FS_FiniteSubsetsOfFinite
<1>2. B \subseteq SUBSET S /\ B # {}
  <2>1. PICK x \in S : TRUE
    OBVIOUS
  <2>2. below(x) \in B
    BY <2>1
  <2>3. ASSUME NEW b \in B PROVE b \in SUBSET S
    <3>1. PICK y \in S : b = below(y)
      BY <2>3
    <3>. QED  BY <3>1
  <2>4. B \subseteq SUBSET S
    BY <2>3
  <2>. QED  BY <2>2, <2>4
<1>3. PICK b \in B : \A c \in B : <<c, b>> \notin StrictSubsetOrdering(S)
  <2>. HIDE DEF B
  <2>. QED  BY <1>1, <1>2, WFMin
<1>4. PICK m \in S : b = below(m)
  OBVIOUS
<1>5. below(m) = {}
  <2>1. SUFFICES ASSUME NEW y \in below(m) PROVE FALSE
    OBVIOUS
  <2>2. y \in S /\ below(y) \subseteq below(m) /\ y \notin below(y)
    BY <2>1
  <2>3. <<below(y), below(m)>> \in StrictSubsetOrdering(S)
    BY <1>2, <2>1, <2>2 DEF StrictSubsetOrdering
  <2>. QED  BY <1>3, <1>4, <2>2, <2>3
<1>. QED  BY <1>5

\* What has a timestamp and an id, no two of them the same id.
Keyed(r) == r.ts \in Nat /\ r.id \in Nat
KeyedSet(S) ==
    /\ \A r \in S : Keyed(r)
    /\ \A p, q \in S : p.id = q.id => p = q

LEMMA BeforeFacts ==
    /\ \A p : Keyed(p) => ~Before(p, p)
    /\ \A p, q, r : Keyed(p) /\ Keyed(q) /\ Keyed(r) /\ Before(p, q) /\ Before(q, r) => Before(p, r)
    /\ \A S : KeyedSet(S) => \A p, q \in S : p # q => Before(p, q) \/ Before(q, p)
    /\ \A p, q : Keyed(p) /\ Keyed(q) /\ Before(p, q) => ~Before(q, p)
  BY DEF Keyed, KeyedSet, Before

LEMMA FirstRow ==
    ASSUME NEW S, KeyedSet(S), IsFiniteSet(S), S # {}
    PROVE  \E m \in S : \A q \in S : q = m \/ Before(m, q)
<1>. DEFINE R == {e \in S \X S : Before(e[1], e[2])}
<1>1. \A x, y \in S : <<x, y>> \in R <=> Before(x, y)
  OBVIOUS
<1>2. \A x \in S : Keyed(x)
  BY DEF KeyedSet
<1>. HIDE DEF R
<1>3. \E m \in S : \A q \in S : q = m \/ <<m, q>> \in R
  <2>1. \A x \in S : <<x, x>> \notin R
    BY <1>1, <1>2, BeforeFacts
  <2>2. \A x, y, z \in S : <<x, y>> \in R /\ <<y, z>> \in R => <<x, z>> \in R
    BY <1>1, <1>2, BeforeFacts
  <2>3. \A x, y \in S : x # y => <<x, y>> \in R \/ <<y, x>> \in R
    BY <1>1, BeforeFacts
  <2>. QED  BY <2>1, <2>2, <2>3, FirstExists
<1>. QED  BY <1>1, <1>3

LEMMA LastRow ==
    ASSUME NEW S, KeyedSet(S), IsFiniteSet(S), S # {}
    PROVE  \E m \in S : \A q \in S : q = m \/ Before(q, m)
<1>. DEFINE R == {e \in S \X S : Before(e[2], e[1])}
<1>1. \A x, y \in S : <<x, y>> \in R <=> Before(y, x)
  OBVIOUS
<1>2. \A x \in S : Keyed(x)
  BY DEF KeyedSet
<1>. HIDE DEF R
<1>3. \E m \in S : \A q \in S : q = m \/ <<m, q>> \in R
  <2>1. \A x \in S : <<x, x>> \notin R
    BY <1>1, <1>2, BeforeFacts
  <2>2. \A x, y, z \in S : <<x, y>> \in R /\ <<y, z>> \in R => <<x, z>> \in R
    BY <1>1, <1>2, BeforeFacts
  <2>3. \A x, y \in S : x # y => <<x, y>> \in R \/ <<y, x>> \in R
    BY <1>1, BeforeFacts
  <2>. QED  BY <2>1, <2>2, <2>3, FirstExists
<1>. QED  BY <1>1, <1>3

LEMMA KeyedSubset ==
    ASSUME NEW S, KeyedSet(S), IsFiniteSet(S), NEW T, T \subseteq S
    PROVE  KeyedSet(T) /\ IsFiniteSet(T) /\ Cardinality(T) \in Nat
           /\ Cardinality(T) <= Cardinality(S) /\ Cardinality(S) \in Nat
<1>1. IsFiniteSet(T) /\ Cardinality(T) <= Cardinality(S)
  BY FS_Subset
<1>. QED  BY <1>1, FS_CardinalityType DEF KeyedSet

LEMMA OneMore ==
    ASSUME NEW S, IsFiniteSet(S), NEW x
    PROVE  /\ IsFiniteSet(S \cup {x}) /\ Cardinality(S \cup {x}) \in Nat
           /\ Cardinality(S \cup {x}) <= Cardinality(S) + 1
<1>1. /\ IsFiniteSet(S \cup {x})
      /\ Cardinality(S \cup {x}) = IF x \in S THEN Cardinality(S) ELSE Cardinality(S) + 1
  BY FS_AddElement
<1>2. Cardinality(S) \in Nat
  BY FS_CardinalityType
<1>. QED  BY <1>1, <1>2

-----------------------------------------------------------------------------
(* Types, unique ids.                                                      *)

\* The rows and the requests keep their types, and no two rows have one id.
LogOK ==
    /\ clock \in Times
    /\ log \subseteq Rows /\ IsFiniteSet(log)
    /\ \A p, q \in log : p.id = q.id => p = q
    /\ request \in [Requests -> Pending]

LEMMA LogIsKeyed == LogOK => KeyedSet(log) /\ Times \subseteq Nat
<1>1. Times \subseteq Nat
  BY TimesAssumption DEF Times
<1>2. \A r \in Rows : r.ts \in Times /\ r.id \in Ids
  BY DEF Rows
<1>3. LogOK => \A r \in log : Keyed(r)
  BY <1>1, <1>2, IdsAssumption DEF LogOK, Keyed
<1>. QED  BY <1>1, <1>3 DEF LogOK, KeyedSet

LEMMA LatestFacts ==
    ASSUME LogOK, log # {}
    PROVE  Latest(log) \in log /\ \A q \in log : q = Latest(log) \/ Before(q, Latest(log))
<1>1. \E m \in log : \A q \in log : m = q \/ Before(q, m)
  BY LogIsKeyed, LastRow DEF LogOK
<1>. QED  BY <1>1 DEF Latest

LEMMA FreshIsPending ==
    ASSUME NEW s \in {"idle", "handled", "done", "failed"}
    PROVE  Fresh(s) \in Pending /\ Fresh(s).pc = s
<1>1. 0 \in Times /\ <<>> \in Hashes
  BY TimesAssumption DEF Times, Hashes
<1>. QED  BY <1>1 DEF Fresh, Pending, GenesisHash

\* The row of a request that is about to commit.
LEMMA RowFacts ==
    ASSUME LogOK, NEW c \in Requests, NEW i \in Ids
    PROVE  /\ Row(c, i) \in Rows
           /\ Row(c, i).id = i /\ Row(c, i).ts = request[c].ts /\ Row(c, i).body = c
           /\ Row(c, i).hash = Hash(request[c].prev, request[c].ts, c)
<1>1. request[c].ts \in Times /\ request[c].prev \in Seq(Fields)
  BY DEF LogOK, Pending, Hashes
<1>2. [ts |-> request[c].ts, body |-> c] \in Fields
  BY <1>1 DEF Fields
<1>3. Hash(request[c].prev, request[c].ts, c) \in Hashes
  BY <1>1, <1>2 DEF Hash, Hashes
<1>. QED  BY <1>1, <1>3 DEF Row, Rows

LEMMA LogInitial == Init => LogOK
  BY FreshIsPending, FS_EmptySet, TimesAssumption DEF Init, LogOK, Times

LEMMA LogStep == ASSUME LogOK, [Next]_vars PROVE LogOK'
<1>0. /\ clock \in Times /\ log \subseteq Rows /\ IsFiniteSet(log)
      /\ request \in [Requests -> Pending] /\ MaxClock \in Nat /\ Times = 0 .. MaxClock
  BY TimesAssumption DEF LogOK, Times
<1>1. CASE Tick
  BY <1>0, <1>1 DEF Tick, LogOK
<1>2. ASSUME NEW c \in Requests, Handle(c) PROVE LogOK'
  BY <1>0, <1>2, FreshIsPending DEF Handle, Goto, LogOK
<1>3. ASSUME NEW c \in Requests, Stamp(c) PROVE LogOK'
  <2>1. PICK ts \in Times : request' = [request EXCEPT ![c].pc = "stamped", ![c].ts = ts]
    BY <1>3 DEF Stamp
  <2>2. request' \in [Requests -> Pending]
    BY <1>0, <2>1 DEF Pending
  <2>. QED  BY <1>3, <2>2 DEF Stamp, LogOK
<1>4. ASSUME NEW c \in Requests, ReadLatest(c) PROVE LogOK'
  <2>1. LatestHash(log) \in Hashes
    <3>1. GenesisHash \in Hashes
      BY DEF GenesisHash, Hashes
    <3>2. ASSUME log # {} PROVE Latest(log).hash \in Hashes
      BY <1>0, <3>2, LatestFacts DEF Rows
    <3>. QED  BY <3>1, <3>2 DEF LatestHash
  <2>2. request' = [request EXCEPT ![c].pc = "read", ![c].prev = LatestHash(log)]
    BY <1>4 DEF ReadLatest
  <2>3. \A h \in Hashes :
          [request EXCEPT ![c].pc = "read", ![c].prev = h] \in [Requests -> Pending]
    BY <1>0 DEF Pending
  <2>4. request' \in [Requests -> Pending]
    BY <2>1, <2>2, <2>3
  <2>. QED  BY <1>4, <2>4 DEF ReadLatest, LogOK
<1>5. ASSUME NEW c \in Requests, Commit(c) PROVE LogOK'
  <2>1. PICK i \in Ids : (\A r \in log : r.id # i) /\ log' = log \cup {Row(c, i)}
    BY <1>5 DEF Commit
  <2>2. Row(c, i) \in Rows /\ Row(c, i).id = i
    BY RowFacts
  <2>3. log' \subseteq Rows /\ IsFiniteSet(log') /\ \A p, q \in log' : p.id = q.id => p = q
    BY <1>0, <2>1, <2>2, FS_AddElement DEF LogOK
  <2>4. request' \in [Requests -> Pending]
    BY <1>0, <1>5, FreshIsPending DEF Commit, Goto
  <2>. QED  BY <1>5, <2>3, <2>4 DEF Commit, LogOK
<1>6. ASSUME NEW c \in Requests, Fail(c) PROVE LogOK'
  BY <1>0, <1>6, FreshIsPending DEF Fail, Goto, LogOK
<1>7. CASE UNCHANGED <<clock, log, request>>
  BY <1>7 DEF LogOK
<1>. QED
  BY <1>1, <1>2, <1>3, <1>4, <1>5, <1>6, <1>7
  DEF Next, vars, ListPage, StartArchive, FetchBatch, Upload, ArchiveFails

\* The rows and the requests keep their types, and no two rows have one id.
THEOREM LogTypeCorrect == Spec => []LogOK
  BY LogInitial, LogStep, PTL DEF Spec

-----------------------------------------------------------------------------
(* The chain.                                                              *)

\* As long as nothing has slipped, one request at a time holds a timestamp,
\* later than every row, and the row it has read is still the latest.
ChainInv ==
    slips = {} =>
        /\ Intact(log)
        /\ \A c, d \in Stamped : c = d
        /\ \A c \in Stamped :
              /\ \A r \in log : r.ts < request[c].ts
              /\ request[c].pc = "read" => request[c].prev = LatestHash(log)

LEMMA ChainStep == ASSUME LogOK, ChainInv, [Next]_vars PROVE ChainInv'
<1>0. /\ request \in [Requests -> Pending] /\ Times \subseteq Nat
      /\ \A r \in log : r.ts \in Nat /\ r.id \in Nat
      /\ \A c \in Requests : request[c].ts \in Nat
  BY LogIsKeyed DEF LogOK, KeyedSet, Keyed, Pending
\* A request lets go of its timestamp, or had none.
<1>1. ASSUME NEW c \in Requests, NEW s \in {"idle", "handled", "done", "failed"}, Goto(c, s),
             UNCHANGED <<log, slips>>
      PROVE  ChainInv'
  <2>1. request'[c].pc = s /\ \A d \in Requests : d # c => request'[d] = request[d]
    BY <1>0, <1>1, FreshIsPending DEF Goto
  <2>2. Stamped' \subseteq Stamped /\ c \notin Stamped'
    BY <2>1 DEF Stamped
  <2>3. \A d \in Stamped' : request'[d] = request[d]
    BY <2>1, <2>2 DEF Stamped
  <2>. QED  BY <1>1, <2>2, <2>3 DEF ChainInv
<1>2. ASSUME NEW c \in Requests, Stamp(c) PROVE ChainInv'
  <2>1. PICK ts \in Times :
          /\ request' = [request EXCEPT ![c].pc = "stamped", ![c].ts = ts]
          /\ slips' = slips \cup (IF Stamped # {} THEN {"overlap"} ELSE {})
                            \cup (IF \E r \in log : ts <= r.ts THEN {"clock"} ELSE {})
    BY <1>2 DEF Stamp
  <2>2. SUFFICES ASSUME slips' = {} PROVE ChainInv'
    BY DEF ChainInv
  <2>3. slips = {} /\ Stamped = {} /\ \A r \in log : ~(ts <= r.ts)
    BY <2>1, <2>2
  <2>4. /\ request'[c].ts = ts /\ request'[c].pc = "stamped"
        /\ \A d \in Requests : d # c => request'[d] = request[d]
    BY <1>0, <2>1 DEF Pending
  <2>5. Stamped' = {c}
    BY <2>3, <2>4 DEF Stamped
  <2>6. \A r \in log : r.ts < ts
    BY <1>0, <2>3
  <2>7. log' = log
    BY <1>2 DEF Stamp
  <2>. QED  BY <2>3, <2>4, <2>5, <2>6, <2>7 DEF ChainInv
<1>3. ASSUME NEW c \in Requests, ReadLatest(c) PROVE ChainInv'
  <2>1. request' = [request EXCEPT ![c].pc = "read", ![c].prev = LatestHash(log)]
    BY <1>3 DEF ReadLatest
  <2>2. /\ request'[c].pc = "read" /\ request'[c].prev = LatestHash(log)
        /\ request'[c].ts = request[c].ts
        /\ \A d \in Requests : d # c => request'[d] = request[d]
    BY <1>0, <2>1 DEF Pending
  <2>3. Stamped' = Stamped
    BY <1>3, <2>2 DEF Stamped, ReadLatest
  <2>4. UNCHANGED <<log, slips>>
    BY <1>3 DEF ReadLatest
  <2>5. \A d \in Stamped : request'[d].ts = request[d].ts
    BY <2>2 DEF Stamped
  <2>6. \A d \in Stamped : request'[d].pc = "read" =>
          request'[d].prev = LatestHash(log) \/ (request[d].pc = "read" /\ request'[d] = request[d])
    BY <2>2 DEF Stamped
  <2>. QED  BY <2>3, <2>4, <2>5, <2>6 DEF ChainInv
<1>4. ASSUME NEW c \in Requests, Commit(c) PROVE ChainInv'
  <2>1. PICK i \in Ids : (\A r \in log : r.id # i) /\ log' = log \cup {Row(c, i)}
    BY <1>4 DEF Commit
  <2>2. SUFFICES ASSUME slips' = {} PROVE ChainInv'
    BY DEF ChainInv
  <2>3. slips = {} /\ c \in Stamped /\ request[c].pc = "read"
    BY <1>4, <2>2 DEF Commit, Stamped
  <2>. DEFINE new == Row(c, i)
  <2>4. /\ new.id = i /\ new.ts = request[c].ts /\ new.body = c
        /\ new.hash = Hash(request[c].prev, request[c].ts, c)
    BY RowFacts
  <2>5. \A r \in log : r.ts < new.ts
    BY <2>3, <2>4 DEF ChainInv
  <2>6. \A r \in log : Before(r, new) /\ ~Before(new, r)
    BY <1>0, <2>4, <2>5 DEF Before
  <2>7. ~Before(new, new)
    BY <1>0, <2>4, IdsAssumption DEF Before
  <2>8. {q \in log' : Before(q, new)} = log
    BY <2>1, <2>6, <2>7
  <2>9. \A r \in log : {q \in log' : Before(q, r)} = {q \in log : Before(q, r)}
    BY <2>1, <2>6
  <2>10. new.hash = Hash(LatestHash(log), new.ts, new.body)
    BY <2>3, <2>4 DEF ChainInv
  <2>. HIDE DEF new
  <2>11. Intact(log')
    BY <2>1, <2>3, <2>8, <2>9, <2>10 DEF ChainInv, Intact, new
  <2>12. Stamped' = {}
    <3>1. request'[c].pc = "done" /\ \A d \in Requests : d # c => request'[d] = request[d]
      BY <1>0, <1>4, FreshIsPending DEF Commit, Goto
    <3>. QED  BY <2>3, <3>1 DEF ChainInv, Stamped
  <2>. QED  BY <2>11, <2>12 DEF ChainInv
<1>5. CASE UNCHANGED <<log, request, slips>>
  BY <1>5 DEF ChainInv, Stamped
<1>6. ASSUME NEW c \in Requests, Handle(c) \/ Fail(c) PROVE ChainInv'
  BY <1>1, <1>6 DEF Handle, Fail
<1>. QED
  BY <1>2, <1>3, <1>4, <1>5, <1>6
  DEF Next, vars, Tick, ListPage, StartArchive, FetchBatch, Upload, ArchiveFails

\* While requests hold their timestamps one at a time and the clock moves on
\* between two rows, the verification finds nothing wrong, with any number of
\* rows.
THEOREM SerialChainsAreIntact == Spec => []SerialChainIsIntact
<1>1. Init => ChainInv
  BY DEF Init, ChainInv, Intact, Stamped, Fresh
<1>2. LogOK /\ ChainInv /\ [Next]_vars => ChainInv'
  BY ChainStep
<1>3. ChainInv => SerialChainIsIntact
  BY DEF ChainInv, SerialChainIsIntact
<1>. QED  BY <1>1, <1>2, <1>3, LogTypeCorrect, PTL DEF Spec

-----------------------------------------------------------------------------
(* Mismatches stay.                                                        *)

\* A hash tells what it was made from.
LEMMA HashTells ==
    ASSUME NEW g \in Hashes, NEW h \in Hashes, NEW s \in Times, NEW t \in Times,
           NEW b \in Requests, NEW c \in Requests, Hash(g, s, b) = Hash(h, t, c)
    PROVE  g = h /\ s = t /\ b = c
<1>. DEFINE x == [ts |-> s, body |-> b]
            y == [ts |-> t, body |-> c]
<1>1. g \in Seq(Fields) /\ h \in Seq(Fields) /\ x \in Fields /\ y \in Fields
  BY DEF Hashes, Fields
<1>2. Append(g, x) = Append(h, y)
  BY DEF Hash
<1>3. x = y => s = t /\ b = c
  <2>1. x.ts = s /\ y.ts = t /\ x.body = b /\ y.body = c
    OBVIOUS
  <2>. QED  BY <2>1
<1>. HIDE DEF x, y
<1>4. Len(Append(g, x)) = Len(g) + 1 /\ Len(Append(h, y)) = Len(h) + 1
  BY <1>1
<1>5. Len(g) = Len(h) /\ Len(g) \in Nat
  BY <1>1, <1>2, <1>4
<1>6. x = y
  <2>1. Append(g, x)[Len(g) + 1] = x /\ Append(h, y)[Len(h) + 1] = y
    BY <1>1
  <2>. QED  BY <1>2, <1>5, <2>1
<1>7. \A i \in 1 .. Len(g) : g[i] = h[i]
  <2>1. ASSUME NEW i \in 1 .. Len(g) PROVE g[i] = h[i]
    <3>1. Append(g, x)[i] = g[i] /\ Append(h, y)[i] = h[i]
      BY <1>1, <1>5
    <3>. QED  BY <1>2, <3>1
  <2>. QED  BY <2>1
<1>8. g = h
  BY <1>1, <1>5, <1>7
<1>. QED  BY <1>3, <1>6, <1>8

LEMMA HashIsNotGenesis ==
    ASSUME NEW h \in Hashes, NEW t \in Times, NEW c \in Requests
    PROVE  Hash(h, t, c) \in Hashes /\ Hash(h, t, c) # GenesisHash
<1>1. h \in Seq(Fields) /\ [ts |-> t, body |-> c] \in Fields
  BY DEF Hashes, Fields
<1>. DEFINE x == [ts |-> t, body |-> c]
<1>. HIDE DEF x
<1>2. Append(h, x) \in Seq(Fields) /\ Len(Append(h, x)) = Len(h) + 1 /\ Len(h) \in Nat
  BY <1>1 DEF x
<1>3. Len(<<>>) = 0
  OBVIOUS
<1>. QED  BY <1>2, <1>3 DEF x, Hash, Hashes, GenesisHash

\* What a row may have been chained to.
Known(S, h) == h = GenesisHash \/ \E p \in S : h = p.hash

Chained(S, r) == \E prev \in Hashes : Known(S, prev) /\ r.hash = Hash(prev, r.ts, r.body)

\* Every row is chained to a committed one, so is what a request has read,
\* and a request has one row, at its end.
LinkInv ==
    /\ \A r \in log : Chained(log, r)
    /\ \A c \in Requests : request[c].pc = "read" => Known(log, request[c].prev)
    /\ \A r \in log : request[r.body].pc = "done"
    /\ \A p, q \in log : p.body = q.body => p = q

LEMMA LinkStep == ASSUME LogOK, LinkInv, [Next]_vars PROVE LinkInv'
<1>0. /\ request \in [Requests -> Pending] /\ log \subseteq Rows
      /\ \A r \in log : r.body \in Requests
  BY DEF LogOK, Rows
<1>1. ASSUME log' = log PROVE (\A h : Known(log, h) => Known(log', h)) /\ \A r \in log : Chained(log', r)
  <2>1. \A h : Known(log, h) => Known(log', h)
    BY <1>1 DEF Known
  <2>2. \A r \in log : Chained(log', r)
    BY <2>1 DEF LinkInv, Chained
  <2>. QED  BY <2>1, <2>2
\* A step of a request that is not done, which has no row yet.
<1>2. ASSUME NEW c \in Requests, log' = log, request[c].pc # "done",
             \A d \in Requests : d # c => request'[d] = request[d],
             request'[c].pc = "read" => Known(log, request'[c].prev)
      PROVE  LinkInv'
  <2>1. \A r \in log : r.body # c
    BY <1>2 DEF LinkInv
  <2>2. \A r \in log' : request'[r.body].pc = "done"
    BY <1>0, <1>2, <2>1 DEF LinkInv
  <2>3. \A d \in Requests : request'[d].pc = "read" => Known(log, request'[d].prev)
    BY <1>2 DEF LinkInv
  <2>4. \A d \in Requests : request'[d].pc = "read" => Known(log', request'[d].prev)
    BY <1>2, <2>3 DEF Known
  <2>5. \A r \in log' : Chained(log', r)
    BY <1>1, <1>2
  <2>6. \A p, q \in log' : p.body = q.body => p = q
    BY <1>2 DEF LinkInv
  <2>. QED  BY <2>2, <2>4, <2>5, <2>6 DEF LinkInv
<1>3. ASSUME NEW c \in Requests, Handle(c) \/ Fail(c) PROVE LinkInv'
  <2>1. \E s \in {"handled", "failed"} : Goto(c, s)
    BY <1>3 DEF Handle, Fail
  <2>2. request'[c].pc \in {"handled", "failed"} /\ \A d \in Requests : d # c => request'[d] = request[d]
    BY <1>0, <2>1, FreshIsPending DEF Goto
  <2>3. log' = log /\ request[c].pc # "done"
    BY <1>3 DEF Handle, Fail
  <2>. QED  BY <1>2, <2>2, <2>3
<1>4. ASSUME NEW c \in Requests, Stamp(c) PROVE LinkInv'
  <2>1. request'[c].pc = "stamped" /\ \A d \in Requests : d # c => request'[d] = request[d]
    BY <1>0, <1>4 DEF Stamp, Pending
  <2>. QED  BY <1>2, <1>4, <2>1 DEF Stamp
<1>5. ASSUME NEW c \in Requests, ReadLatest(c) PROVE LinkInv'
  <2>1. request'[c].prev = LatestHash(log) /\ \A d \in Requests : d # c => request'[d] = request[d]
    BY <1>0, <1>5 DEF ReadLatest, Pending
  <2>2. Known(log, LatestHash(log))
    BY LatestFacts DEF LatestHash, Known
  <2>. QED  BY <1>2, <1>5, <2>1, <2>2 DEF ReadLatest
<1>6. ASSUME NEW c \in Requests, Commit(c) PROVE LinkInv'
  <2>1. PICK i \in Ids : log' = log \cup {Row(c, i)}
    BY <1>6 DEF Commit
  <2>. DEFINE new == Row(c, i)
  <2>2. /\ new.ts = request[c].ts /\ new.body = c
        /\ new.hash = Hash(request[c].prev, request[c].ts, c)
    BY RowFacts
  <2>3. request'[c].pc = "done" /\ \A d \in Requests : d # c => request'[d] = request[d]
    BY <1>0, <1>6, FreshIsPending DEF Commit, Goto
  <2>4. request[c].pc = "read" /\ Known(log, request[c].prev) /\ request[c].prev \in Hashes
    BY <1>0, <1>6 DEF Commit, LinkInv, Pending
  <2>5. \A r \in log : r.body # c
    BY <2>4 DEF LinkInv
  <2>. HIDE DEF new
  <2>6. log' = log \cup {new}
    BY <2>1 DEF new
  <2>7. \A h : Known(log, h) => Known(log', h)
    BY <2>6 DEF Known
  <2>8. Chained(log', new)
    <3>1. Chained(log', new) <=> \E prev \in Hashes : Known(log', prev) /\ new.hash = Hash(prev, new.ts, new.body)
      BY DEF Chained
    <3>. QED  BY <2>2, <2>4, <2>7, <3>1
  <2>9. \A r \in log : Chained(log', r)
    BY <2>7 DEF LinkInv, Chained
  <2>10. \A r \in log' : Chained(log', r)
    BY <2>6, <2>8, <2>9
  <2>11. \A d \in Requests : request'[d].pc = "read" => Known(log', request'[d].prev)
    BY <2>3, <2>7 DEF LinkInv
  <2>12. \A r \in log' : request'[r.body].pc = "done"
    BY <1>0, <2>2, <2>3, <2>5, <2>6 DEF LinkInv
  <2>13. \A p, q \in log' : p.body = q.body => p = q
    BY <2>2, <2>5, <2>6 DEF LinkInv
  <2>. QED  BY <2>10, <2>11, <2>12, <2>13 DEF LinkInv
<1>7. CASE UNCHANGED <<log, request>>
  <2>1. \A r \in log' : Chained(log', r)
    BY <1>1, <1>7
  <2>. QED  BY <1>7, <2>1 DEF LinkInv, Known
<1>. QED
  BY <1>3, <1>4, <1>5, <1>6, <1>7
  DEF Next, vars, Tick, ListPage, StartArchive, FetchBatch, Upload, ArchiveFails

\* A row of the log that does not follow from its predecessor never will:
\* the row it was chained to is in the log already, and a new row does not
\* take away the one in between.
LEMMA GapsStay ==
    ASSUME LogOK, LogOK', LinkInv, LinkInv', log \subseteq log', Intact(log')
    PROVE  Intact(log)
<1>. DEFINE below(S, r) == {q \in S : Before(q, r)}
<1>0. KeyedSet(log) /\ KeyedSet(log') /\ IsFiniteSet(log) /\ IsFiniteSet(log')
      /\ (\A r \in log' : r.ts \in Times /\ r.body \in Requests /\ r.hash \in Hashes)
  <2>1. Times \subseteq Nat
    BY TimesAssumption DEF Times
  <2>2. \A r \in Rows : r.ts \in Times /\ r.id \in Nat /\ r.body \in Requests /\ r.hash \in Hashes
    BY IdsAssumption DEF Rows
  <2>3. \A r \in log' : r \in Rows
    BY DEF LogOK
  <2>4. KeyedSet(log')
    BY <2>1, <2>2, <2>3 DEF LogOK, KeyedSet, Keyed
  <2>. QED  BY <2>2, <2>3, <2>4, LogIsKeyed DEF LogOK
<1>1. SUFFICES ASSUME NEW r \in log
               PROVE  r.hash = Hash(LatestHash(below(log, r)), r.ts, r.body)
  BY DEF Intact
<1>2. r \in log' /\ r.hash = Hash(LatestHash(below(log', r)), r.ts, r.body)
  BY <1>1 DEF Intact
<1>3. PICK prev \in Hashes : Known(log, prev) /\ r.hash = Hash(prev, r.ts, r.body)
  BY <1>1 DEF LinkInv, Chained
<1>4. below(log, r) \subseteq below(log', r)
  OBVIOUS
<1>5. below(log', r) # {} =>
        /\ Latest(below(log', r)) \in below(log', r)
        /\ \A q \in below(log', r) : q = Latest(below(log', r)) \/ Before(q, Latest(below(log', r)))
  <2>1. KeyedSet(below(log', r)) /\ IsFiniteSet(below(log', r))
    <3>1. below(log', r) \subseteq log'
      OBVIOUS
    <3>. HIDE DEF below
    <3>. QED  BY <1>0, <3>1, KeyedSubset
  <2>. HIDE DEF below
  <2>2. below(log', r) # {} =>
          \E m \in below(log', r) : \A q \in below(log', r) : m = q \/ Before(q, m)
    BY <2>1, LastRow
  <2>. QED  BY <2>2 DEF Latest
<1>6. LatestHash(below(log', r)) \in Hashes
  <2>1. GenesisHash \in Hashes
    BY DEF GenesisHash, Hashes
  <2>2. below(log', r) \subseteq log'
    OBVIOUS
  <2>. HIDE DEF below
  <2>. QED  BY <1>0, <1>5, <2>1, <2>2 DEF LatestHash
<1>7. LatestHash(below(log', r)) = prev
  <2>. DEFINE latest == LatestHash(below(log', r))
  <2>1. latest \in Hashes /\ Hash(latest, r.ts, r.body) = Hash(prev, r.ts, r.body)
    BY <1>2, <1>3, <1>6
  <2>2. r.ts \in Times /\ r.body \in Requests
    BY <1>0, <1>2
  <2>. HIDE DEF latest
  <2>3. latest = prev
    BY <1>3, <2>1, <2>2, HashTells
  <2>. QED  BY <2>3 DEF latest
<1>8. CASE below(log', r) = {}
  <2>1. below(log, r) = {}
    BY <1>4, <1>8
  <2>. HIDE DEF below
  <2>. QED  BY <1>2, <1>8, <2>1
<1>9. CASE below(log', r) # {}
  <2>. DEFINE m == Latest(below(log', r))
  <2>1. m \in log' /\ Before(m, r) /\ \A q \in below(log', r) : q = m \/ Before(q, m)
    BY <1>5, <1>9
  <2>. HIDE DEF m
  <2>2. prev = m.hash
    <3>. HIDE DEF below
    <3>. QED  BY <1>7, <1>9 DEF LatestHash, m
  <2>3. PICK mp \in Hashes : m.hash = Hash(mp, m.ts, m.body)
    BY <2>1 DEF LinkInv, Chained
  <2>4. m.ts \in Times /\ m.body \in Requests /\ prev # GenesisHash
    BY <1>0, <2>1, <2>2, <2>3, HashIsNotGenesis
  <2>5. PICK p \in log : prev = p.hash
    BY <1>3, <2>4 DEF Known
  <2>6. PICK pp \in Hashes : p.hash = Hash(pp, p.ts, p.body)
    BY <2>5 DEF LinkInv, Chained
  <2>7. p \in log' /\ p.body = m.body
    BY <1>0, <2>2, <2>3, <2>4, <2>5, <2>6, HashTells
  <2>8. p = m
    BY <2>1, <2>7 DEF LinkInv
  <2>9. m \in below(log, r) /\ \A q \in below(log, r) : q = m \/ Before(q, m)
    BY <1>4, <2>1, <2>5, <2>8
  <2>10. Latest(below(log, r)) = m
    <3>1. \A q \in below(log, r) : (q = m \/ Before(m, q)) => q = m
      <4>1. \A q \in below(log, r) : q \in log
        OBVIOUS
      <4>2. Keyed(m) /\ \A q \in log : Keyed(q)
        BY <1>0, <2>1 DEF KeyedSet
      <4>. QED  BY <2>9, <4>1, <4>2, BeforeFacts
    <3>. HIDE DEF below
    <3>. QED  BY <2>9, <3>1 DEF Latest
  <2>. HIDE DEF below
  <2>. QED  BY <1>3, <2>2, <2>9, <2>10 DEF LatestHash
<1>. QED  BY <1>8, <1>9

LEMMA LogGrows == ASSUME [Next]_vars PROVE log \subseteq log'
<1>1. ASSUME NEW c \in Requests, Commit(c) PROVE log \subseteq log'
  BY <1>1 DEF Commit
<1>. QED
  BY <1>1
  DEF Next, vars, Tick, Handle, Stamp, ReadLatest, Fail, ListPage, StartArchive, FetchBatch,
      Upload, ArchiveFails

\* A mismatch that the verification has found once is found for ever, and a
\* chain that is intact has always been: with any number of requests, in any
\* overlap and with any clocks.
THEOREM MismatchesRemain == Spec => MismatchesStay
<1>1. Init => LinkInv
  BY DEF Init, LinkInv, Fresh
<1>2. LogOK /\ LinkInv /\ [Next]_vars => LinkInv'
  BY LinkStep
<1>3. LogOK /\ LogOK' /\ LinkInv /\ LinkInv' /\ [Next]_vars => [~Intact(log) => ~Intact(log')]_vars
  BY LogGrows, GapsStay
<1>. QED  BY <1>1, <1>2, <1>3, LogTypeCorrect, PTL DEF Spec, MismatchesStay

-----------------------------------------------------------------------------
(* The pages.                                                              *)

\* A full page ends at a row that separates it from the rest; a page that is
\* not full is the rest.
LEMMA PageFacts ==
    ASSUME NEW S, KeyedSet(S), IsFiniteSet(S), NEW cursor, Keyed(cursor)
    PROVE  LET page == Page(S, cursor) IN
           /\ \A r \in page : r \in S /\ Before(r, cursor)
           /\ Cardinality(page) = Limit =>
                \E last \in page :
                    /\ \A q \in page : q = last \/ Before(last, q)
                    /\ \A r \in S : Before(r, cursor) => r \in page \/ Before(r, last)
           /\ Cardinality(page) # Limit => \A r \in S : Before(r, cursor) => r \in page
<1>. DEFINE page == Page(S, cursor)
            older == {r \in S : Before(r, cursor)}
            newer(r) == {q \in older : Before(r, q)}
<1>1. page = {r \in older : Cardinality(newer(r)) < Limit}
  BY DEF Page
<1>2. Limit \in Nat \ {0}
  BY SizesAssumption
<1>3. /\ KeyedSet(older) /\ IsFiniteSet(older)
      /\ KeyedSet(page) /\ IsFiniteSet(page) /\ Cardinality(page) \in Nat
      /\ \A r \in older : Keyed(r)
  <2>1. KeyedSet(older) /\ IsFiniteSet(older)
    BY KeyedSubset
  <2>2. page \subseteq older
    BY <1>1
  <2>3. \A r \in older : Keyed(r)
    BY <2>1 DEF KeyedSet
  <2>. HIDE DEF page, older
  <2>. QED  BY <2>1, <2>2, <2>3, KeyedSubset
<1>4. \A r : /\ newer(r) \subseteq older /\ IsFiniteSet(newer(r))
             /\ Cardinality(newer(r)) \in Nat
  <2>1. \A r : newer(r) \subseteq older
    OBVIOUS
  <2>. HIDE DEF older
  <2>. QED  BY <1>3, <2>1, KeyedSubset
<1>5. page # {} => \E last \in page : \A q \in page : q = last \/ Before(last, q)
  <2>. HIDE DEF page
  <2>. QED  BY <1>3, FirstRow
<1>6. ASSUME Cardinality(page) = Limit
      PROVE  \E last \in page :
                /\ \A q \in page : q = last \/ Before(last, q)
                /\ \A r \in older : r \in page \/ Before(r, last)
  <2>1. page # {}
    <3>. HIDE DEF page
    <3>. QED  BY <1>2, <1>6, FS_EmptySet
  <2>2. PICK last \in page : \A q \in page : q = last \/ Before(last, q)
    BY <1>5, <2>1
  <2>3. ASSUME NEW r \in older, r \notin page, ~Before(r, last) PROVE FALSE
    <3>1. last \in older /\ r # last
      BY <1>1, <2>3
    <3>2. Before(last, r)
      <4>. HIDE DEF page, older
      <4>. QED  BY <1>3, <2>3, <3>1, BeforeFacts
    <3>3. newer(r) \subseteq newer(last)
      <4>1. SUFFICES ASSUME NEW q \in older, Before(r, q) PROVE Before(last, q)
        OBVIOUS
      <4>. HIDE DEF page, older
      <4>. QED  BY <1>3, <2>3, <3>1, <3>2, <4>1, BeforeFacts
    <3>4. Cardinality(newer(r)) <= Cardinality(newer(last))
      <4>. HIDE DEF newer
      <4>. QED  BY <1>4, <3>3, FS_Subset
    <3>5. Cardinality(newer(last)) < Limit /\ ~(Cardinality(newer(r)) < Limit)
      BY <1>1, <2>3
    <3>. HIDE DEF newer
    <3>. QED  BY <1>2, <1>4, <3>4, <3>5
  <2>. QED  BY <2>2, <2>3
<1>7. ASSUME Cardinality(page) # Limit PROVE older \subseteq page
  <2>. DEFINE rest == older \ page
  <2>1. SUFFICES ASSUME rest # {} PROVE FALSE
    OBVIOUS
  <2>2. KeyedSet(rest) /\ IsFiniteSet(rest)
    <3>1. rest \subseteq older
      OBVIOUS
    <3>. HIDE DEF rest, older
    <3>. QED  BY <1>3, <3>1, KeyedSubset
  <2>3. PICK r \in rest : \A q \in rest : q = r \/ Before(q, r)
    <3>. HIDE DEF rest
    <3>. QED  BY <2>1, <2>2, LastRow
  <2>4. newer(r) \subseteq page
    <3>1. SUFFICES ASSUME NEW q \in older, Before(r, q), q \notin page PROVE FALSE
      OBVIOUS
    <3>2. r \in older /\ (q = r \/ Before(q, r)) /\ Keyed(r) /\ Keyed(q)
      BY <1>3, <2>3, <3>1
    <3>. QED  BY <3>1, <3>2, BeforeFacts
  <2>5. Cardinality(newer(r)) <= Cardinality(page)
    <3>. HIDE DEF newer, page
    <3>. QED  BY <1>3, <2>4, FS_Subset
  <2>6. ~(Cardinality(newer(r)) < Limit)
    BY <1>1, <2>3
  <2>7. Cardinality(page) > Limit
    <3>. HIDE DEF newer, page
    <3>. QED  BY <1>2, <1>3, <1>4, <1>7, <2>5, <2>6
  <2>8. page # {}
    <3>. HIDE DEF page
    <3>. QED  BY <1>2, <2>7, FS_EmptySet
  <2>9. PICK last \in page : \A q \in page : q = last \/ Before(last, q)
    BY <1>5, <2>8
  <2>10. page \subseteq newer(last) \cup {last}
    BY <1>1, <2>9
  <2>11. /\ IsFiniteSet(newer(last) \cup {last})
         /\ Cardinality(newer(last) \cup {last}) \in Nat
         /\ Cardinality(newer(last) \cup {last}) <= Cardinality(newer(last)) + 1
    <3>. HIDE DEF newer
    <3>. QED  BY <1>4, OneMore
  <2>12. Cardinality(page) <= Cardinality(newer(last) \cup {last})
    <3>. HIDE DEF newer, page
    <3>. QED  BY <2>10, <2>11, FS_Subset
  <2>13. Cardinality(newer(last)) < Limit
    BY <1>1, <2>9
  <2>. HIDE DEF newer, page
  <2>. QED  BY <1>2, <1>3, <1>4, <2>7, <2>11, <2>12, <2>13
<1>. QED  BY <1>1, <1>6, <1>7

\* What the reader has got lies behind the cursor, and what is still due
\* before it.
PageInv ==
    /\ listing.pc \in {"idle", "more", "end"}
    /\ Keyed(listing.cursor)
    /\ listing.pc = "idle" => listing.cursor = NoCursor
    /\ listing.got \subseteq log /\ listing.due \subseteq log
    /\ listing.again = {}
    /\ listing.pc # "end" => \A r \in listing.got : ~Before(r, listing.cursor)
    /\ listing.pc = "more" =>
          \A r \in listing.due : r \in listing.got \/ Before(r, listing.cursor)
    /\ listing.pc = "end" => listing.due \subseteq listing.got

LEMMA NoCursorFacts ==
    /\ Keyed(NoCursor)
    /\ LogOK => \A r \in log : Before(r, NoCursor)
<1>1. MaxClock \in Nat /\ NoCursor.ts = MaxClock + 1 /\ NoCursor.id = 0
  BY TimesAssumption DEF NoCursor
<1>2. LogOK => \A r \in log : r.ts \in 0 .. MaxClock
  BY DEF LogOK, Rows, Times
<1>. QED  BY <1>1, <1>2 DEF Keyed, Before

LEMMA PageStep == ASSUME LogOK, PageInv, ListPage PROVE PageInv'
<1>. DEFINE cursor == listing.cursor
            page == Page(log, cursor)
            last == CHOOSE r \in page : \A q \in page : q = r \/ Before(r, q)
<1>1. log' = log /\ KeyedSet(log) /\ IsFiniteSet(log) /\ Keyed(cursor)
  BY LogIsKeyed DEF ListPage, PageInv, LogOK
<1>2. /\ \A r \in page : r \in log /\ Before(r, cursor) /\ Keyed(r)
      /\ Cardinality(page) = Limit =>
            /\ last \in page
            /\ \A q \in page : q = last \/ Before(last, q)
            /\ \A r \in log : Before(r, cursor) => r \in page \/ Before(r, last)
      /\ Cardinality(page) # Limit => \A r \in log : Before(r, cursor) => r \in page
  <2>1. \A r \in page : r \in log /\ Before(r, cursor)
    BY <1>1, PageFacts
  <2>2. \A r \in log : Keyed(r)
    BY <1>1 DEF KeyedSet
  <2>3. Cardinality(page) # Limit => \A r \in log : Before(r, cursor) => r \in page
    BY <1>1, PageFacts
  <2>4. ASSUME Cardinality(page) = Limit
        PROVE  /\ last \in page /\ \A q \in page : q = last \/ Before(last, q)
               /\ \A r \in log : Before(r, cursor) => r \in page \/ Before(r, last)
    <3>1. PICK m \in page :
            /\ \A q \in page : q = m \/ Before(m, q)
            /\ \A r \in log : Before(r, cursor) => r \in page \/ Before(r, m)
      BY <1>1, <2>4, PageFacts
    <3>2. last \in page /\ \A q \in page : q = last \/ Before(last, q)
      BY <3>1
    <3>3. last = m
      BY <2>1, <2>2, <3>1, <3>2, BeforeFacts
    <3>. QED  BY <3>1, <3>2, <3>3
  <2>. QED  BY <2>1, <2>2, <2>3, <2>4
<1>3. /\ listing.pc \in {"idle", "more"} /\ listing.again = {}
      /\ listing.got \subseteq log /\ listing.due \subseteq log
      /\ \A r \in listing.got : ~Before(r, cursor) /\ Keyed(r)
  BY <1>1 DEF ListPage, PageInv, KeyedSet
<1>4. listing.got \cap page = {}
  BY <1>2, <1>3
<1>. DEFINE due == IF listing.pc = "idle" THEN log ELSE listing.due
<1>5. due \subseteq log /\ \A r \in due : r \in listing.got \/ Before(r, cursor)
  BY <1>3, NoCursorFacts DEF PageInv
<1>6. CASE Cardinality(page) = Limit
  <2>1. listing' = [pc |-> "more", cursor |-> [ts |-> last.ts, id |-> last.id],
                    got |-> listing.got \cup page,
                    again |-> listing.again \cup (listing.got \cap page), due |-> due]
    BY <1>6 DEF ListPage
  <2>. DEFINE new == [ts |-> last.ts, id |-> last.id]
  <2>2. Keyed(last) /\ Keyed(new) /\ \A r : Before(r, new) <=> Before(r, last)
    BY <1>2, <1>6 DEF Keyed, Before
  <2>3. Before(last, cursor)
    BY <1>2, <1>6
  <2>4. \A r \in listing.got : ~Before(r, last)
    BY <1>1, <1>3, <2>2, <2>3, BeforeFacts
  <2>5. \A r \in page : ~Before(r, last)
    BY <1>2, <1>6, <2>2, BeforeFacts
  <2>6. \A r \in due : r \in listing.got \cup page \/ Before(r, last)
    BY <1>2, <1>5, <1>6
  <2>7. listing.got \cup page \subseteq log
    BY <1>2, <1>3
  <2>. HIDE DEF page, last, due, new
  <2>8. /\ listing'.pc = "more" /\ listing'.cursor = new /\ listing'.due = due
        /\ listing'.got = listing.got \cup page /\ listing'.again = {}
    BY <1>3, <1>4, <2>1 DEF new
  <2>. QED  BY <1>1, <1>5, <2>2, <2>4, <2>5, <2>6, <2>7, <2>8 DEF PageInv
<1>7. CASE Cardinality(page) # Limit
  <2>1. listing' = [pc |-> "end", cursor |-> cursor, got |-> listing.got \cup page,
                    again |-> listing.again \cup (listing.got \cap page), due |-> due]
    BY <1>7 DEF ListPage
  <2>2. \A r \in due : r \in listing.got \cup page
    BY <1>2, <1>5, <1>7
  <2>3. listing.got \cup page \subseteq log
    BY <1>2, <1>3
  <2>. HIDE DEF page, due
  <2>4. /\ listing'.pc = "end" /\ listing'.cursor = cursor /\ listing'.due = due
        /\ listing'.got = listing.got \cup page /\ listing'.again = {}
    BY <1>3, <1>4, <2>1
  <2>5. UNCHANGED log /\ Keyed(cursor)
    BY <1>1
  <2>. QED  BY <1>5, <2>2, <2>3, <2>4, <2>5 DEF PageInv
<1>. QED  BY <1>6, <1>7

\* Who follows the cursors to the end gets every row that was there at the
\* first page, and none twice, with any page size and any appends meanwhile.
THEOREM PagesAreExact == Spec => []PagesReturnEachOnce
<1>1. Init => PageInv
  BY NoCursorFacts DEF Init, PageInv
<1>2. LogOK /\ PageInv /\ [Next]_vars => PageInv'
  <2> SUFFICES ASSUME LogOK, PageInv, [Next]_vars PROVE PageInv'
    OBVIOUS
  <2>1. CASE ListPage
    BY <2>1, PageStep
  <2>2. CASE UNCHANGED listing /\ log \subseteq log'
    BY <2>2 DEF PageInv
  <2>3. ASSUME NEW c \in Requests, Commit(c) PROVE UNCHANGED listing /\ log \subseteq log'
    BY <2>3 DEF Commit
  <2>. QED
    BY <2>1, <2>2, <2>3
    DEF Next, vars, Tick, Handle, Stamp, ReadLatest, Fail, StartArchive, FetchBatch, Upload,
        ArchiveFails
<1>3. PageInv => PagesReturnEachOnce
  BY DEF PageInv, PagesReturnEachOnce
<1>. QED  BY <1>1, <1>2, <1>3, LogTypeCorrect, PTL DEF Spec

-----------------------------------------------------------------------------
(* The archive.                                                            *)

\* The rows of S before which there are fewer than k rows.
Low(S, k) == {r \in S : Cardinality({q \in S : Before(q, r)}) < k}

\* There are k of them, or they are all.
LEMMA LowFacts ==
    ASSUME NEW S, KeyedSet(S), IsFiniteSet(S), NEW k \in Nat
    PROVE  /\ Low(S, k) \subseteq S /\ IsFiniteSet(Low(S, k))
           /\ Cardinality(Low(S, k)) \in Nat /\ Cardinality(Low(S, k)) <= k
           /\ Low(S, k) # S => Cardinality(Low(S, k)) = k
<1>. DEFINE low == Low(S, k)
            below(r) == {q \in S : Before(q, r)}
<1>1. low = {r \in S : Cardinality(below(r)) < k}
  BY DEF Low
<1>2. /\ low \subseteq S /\ KeyedSet(low) /\ IsFiniteSet(low) /\ Cardinality(low) \in Nat
      /\ \A r \in S : Keyed(r)
  <2>1. low \subseteq S
    BY <1>1
  <2>. HIDE DEF low
  <2>. QED  BY <2>1, KeyedSubset DEF KeyedSet
<1>3. \A r : /\ below(r) \subseteq S /\ IsFiniteSet(below(r))
             /\ Cardinality(below(r)) \in Nat
  <2>1. \A r : below(r) \subseteq S
    OBVIOUS
  <2>. QED  BY <2>1, KeyedSubset
<1>4. Cardinality(low) <= k
  <2>1. CASE low = {}
    BY <2>1, FS_EmptySet
  <2>2. CASE low # {}
    <3>1. PICK last \in low : \A q \in low : q = last \/ Before(q, last)
      <4>. HIDE DEF low
      <4>. QED  BY <1>2, <2>2, LastRow
    <3>2. low \subseteq below(last) \cup {last} /\ Cardinality(below(last)) < k
      BY <1>1, <3>1
    <3>3. /\ IsFiniteSet(below(last) \cup {last})
          /\ Cardinality(below(last) \cup {last}) \in Nat
          /\ Cardinality(below(last) \cup {last}) <= Cardinality(below(last)) + 1
      <4>. HIDE DEF below, low
      <4>. QED  BY <1>3, OneMore
    <3>5. Cardinality(low) <= Cardinality(below(last) \cup {last})
      <4>. HIDE DEF below, low
      <4>. QED  BY <3>2, <3>3, FS_Subset
    <3>. HIDE DEF below, low
    <3>. QED  BY <1>2, <1>3, <3>2, <3>3, <3>5
  <2>. QED  BY <2>1, <2>2
<1>5. low # S => Cardinality(low) = k
  <2>. DEFINE rest == S \ low
  <2>1. SUFFICES ASSUME low # S PROVE Cardinality(low) = k
    OBVIOUS
  <2>2. rest # {} /\ rest \subseteq S
    BY <1>2, <2>1
  <2>3. KeyedSet(rest) /\ IsFiniteSet(rest)
    <3>. HIDE DEF rest
    <3>. QED  BY <2>2, KeyedSubset
  <2>4. PICK r \in rest : \A q \in rest : q = r \/ Before(r, q)
    <3>. HIDE DEF rest
    <3>. QED  BY <2>2, <2>3, FirstRow
  <2>5. below(r) \subseteq low
    <3>1. SUFFICES ASSUME NEW q \in S, Before(q, r), q \notin low PROVE FALSE
      OBVIOUS
    <3>2. (q = r \/ Before(r, q)) /\ Keyed(r) /\ Keyed(q)
      BY <1>2, <2>4, <3>1
    <3>. QED  BY <3>1, <3>2, BeforeFacts
  <2>6. Cardinality(below(r)) <= Cardinality(low)
    <3>. HIDE DEF below, low
    <3>. QED  BY <1>2, <2>5, FS_Subset
  <2>7. ~(Cardinality(below(r)) < k)
    BY <1>1, <2>4
  <2>. HIDE DEF below, low
  <2>. QED  BY <1>2, <1>3, <1>4, <2>6, <2>7
<1>. QED  BY <1>2, <1>4, <1>5

\* A batch is what comes after the offset; one that does not fill its chunk
\* is the last.
LEMMA BatchFacts ==
    ASSUME NEW S, KeyedSet(S), IsFiniteSet(S), NEW k \in Nat
    PROVE  /\ Low(S, k) \cup Batch(S, k) = Low(S, k + ChunkSize)
           /\ Batch(S, k) \subseteq S
           /\ Cardinality(Batch(S, k)) < ChunkSize => Low(S, k + ChunkSize) = S
<1>1. ChunkSize \in Nat \ {0}
  BY SizesAssumption
<1>2. \A r : Cardinality({q \in S : Before(q, r)}) \in Nat
  <2>1. \A r : {q \in S : Before(q, r)} \subseteq S
    OBVIOUS
  <2>. QED  BY <2>1, KeyedSubset
<1>3. Batch(S, k) = Low(S, k + ChunkSize) \ Low(S, k)
  BY <1>1, <1>2 DEF Batch, Low
<1>4. Low(S, k) \subseteq Low(S, k + ChunkSize)
  BY <1>1, <1>2 DEF Low
<1>5. ASSUME Low(S, k + ChunkSize) # S PROVE Cardinality(Batch(S, k)) >= ChunkSize
  <2>1. /\ IsFiniteSet(Low(S, k + ChunkSize))
        /\ Cardinality(Low(S, k + ChunkSize)) = k + ChunkSize
    BY <1>1, <1>5, LowFacts
  <2>2. Cardinality(Low(S, k)) \in Nat /\ Cardinality(Low(S, k)) <= k
    BY LowFacts
  <2>3. Low(S, k + ChunkSize) \cap Low(S, k) = Low(S, k)
    BY <1>4
  <2>4. Cardinality(Batch(S, k)) = Cardinality(Low(S, k + ChunkSize)) - Cardinality(Low(S, k))
    BY <1>3, <2>1, <2>3, FS_Difference
  <2>. QED  BY <1>1, <2>1, <2>2, <2>4
<1>6. IsFiniteSet(Batch(S, k)) /\ Cardinality(Batch(S, k)) \in Nat /\ Batch(S, k) \subseteq S
  <2>1. Batch(S, k) \subseteq S
    BY DEF Batch
  <2>. QED  BY <2>1, KeyedSubset
<1>. QED  BY <1>1, <1>3, <1>4, <1>5, <1>6

\* The day d is over, and so is the time of the requests stamped on it.
Over(d) == clock >= (d + 1) * Day + Gap

ArchiveInv ==
    /\ archive \in [pc : {"idle", "reading", "upload"}, day : Days,
                    offset : Nat, rows : SUBSET Rows]
    /\ objects \in [Days -> SUBSET Rows]
    /\ \A c \in Stamped : request[c].ts + MaxAge + Skew >= clock
    /\ archive.pc # "idle" => Over(archive.day)
    /\ archive.pc = "reading" => archive.rows = Low(DayRows(log, archive.day), archive.offset)
    /\ archive.pc = "upload" => archive.rows = DayRows(log, archive.day)
    /\ \A d \in Days : objects[d] # {} => Over(d) /\ objects[d] = DayRows(log, d)

LEMMA DayFacts ==
    ASSUME LogOK, NEW d \in Days
    PROVE  KeyedSet(DayRows(log, d)) /\ IsFiniteSet(DayRows(log, d))
           /\ DayRows(log, d) \subseteq Rows
<1>1. DayRows(log, d) \subseteq log
  BY DEF DayRows
<1>. QED  BY <1>1, LogIsKeyed, KeyedSubset DEF LogOK

\* What is committed now belongs to no day that is over.
LEMMA DayIsClosed ==
    ASSUME LogOK, NEW ts \in Times, ts + MaxAge + Skew >= clock, NEW d \in Days, Over(d)
    PROVE  ts \div Day # d
<1>1. /\ {MaxAge, Skew, Gap, MaxClock} \subseteq Nat /\ MaxAge + Skew <= Gap
      /\ Day \in Nat \ {0} /\ d \in Nat /\ ts \in Nat /\ clock \in Nat
  BY TimesAssumption DEF LogOK, Days, Times
<1>2. PICK e \in Nat : e = (d + 1) * Day
  BY <1>1
<1>3. clock >= e + Gap
  BY <1>2 DEF Over
<1>4. ts >= e
  BY <1>1, <1>3
<1>. QED  BY <1>1, <1>2, <1>4

LEMMA ArchiveStep == ASSUME LogOK, ArchiveInv, [Next]_vars PROVE ArchiveInv'
<1>0. /\ request \in [Requests -> Pending] /\ clock \in Nat
      /\ MaxAge \in Nat /\ Skew \in Nat /\ Gap \in Nat /\ Day \in Nat \ {0}
      /\ ChunkSize \in Nat \ {0} /\ Days \subseteq Nat
      /\ archive \in [pc : {"idle", "reading", "upload"}, day : Days,
                      offset : Nat, rows : SUBSET Rows]
      /\ objects \in [Days -> SUBSET Rows]
      /\ \A c \in Requests : request[c].ts \in Times
  BY LogIsKeyed, TimesAssumption, SizesAssumption
  DEF LogOK, ArchiveInv, Days, Times, Pending
<1>1. CASE Tick
  <2>1. clock' = clock + 1 /\ UNCHANGED <<request, log, archive, objects>>
    BY <1>1 DEF Tick
  <2>2. \A c \in Stamped' : request'[c].ts + MaxAge + Skew >= clock'
    <3>1. Stamped' = Stamped /\ \A c \in Stamped : clock < request[c].ts + MaxAge + Skew
      BY <1>1, <2>1 DEF Tick, Stamped
    <3>2. \A c \in Stamped : request[c].ts \in Nat
      BY LogIsKeyed DEF LogOK, Pending, Stamped
    <3>. QED  BY <1>0, <2>1, <3>1, <3>2
  <2>3. \A d \in Days : Over(d) => Over(d)'
    <3>1. SUFFICES ASSUME NEW d \in Days, clock >= (d + 1) * Day + Gap
                   PROVE  clock + 1 >= (d + 1) * Day + Gap
      BY <2>1 DEF Over
    <3>2. PICK e \in Nat : e = (d + 1) * Day
      BY <1>0
    <3>. QED  BY <1>0, <3>1, <3>2
  <2>. QED  BY <1>0, <2>1, <2>2, <2>3 DEF ArchiveInv
\* Requests that hold no timestamp after the step.
<1>2. ASSUME NEW c \in Requests, NEW s \in {"idle", "handled", "done", "failed"}, Goto(c, s)
      PROVE  Stamped' \subseteq Stamped /\ \A d \in Stamped' : request'[d] = request[d]
  <2>1. request'[c].pc = s /\ \A d \in Requests : d # c => request'[d] = request[d]
    BY <1>0, <1>2, FreshIsPending DEF Goto
  <2>. QED  BY <2>1 DEF Stamped
<1>3. ASSUME NEW c \in Requests, Handle(c) \/ Fail(c) PROVE ArchiveInv'
  <2>1. Stamped' \subseteq Stamped /\ \A d \in Stamped' : request'[d] = request[d]
    BY <1>2, <1>3 DEF Handle, Fail
  <2>2. UNCHANGED <<clock, log, archive, objects>>
    BY <1>3 DEF Handle, Fail
  <2>. QED  BY <2>1, <2>2 DEF ArchiveInv, Over
<1>4. ASSUME NEW c \in Requests, Stamp(c) PROVE ArchiveInv'
  <2>1. PICK ts \in Times : /\ clock - Skew <= ts
                            /\ request' = [request EXCEPT ![c].pc = "stamped", ![c].ts = ts]
    BY <1>4 DEF Stamp
  <2>2. /\ request'[c].ts = ts
        /\ \A d \in Requests : d # c => request'[d] = request[d]
    BY <1>0, <2>1 DEF Pending
  <2>3. ts + MaxAge + Skew >= clock
    BY <1>0, <2>1, LogIsKeyed
  <2>4. UNCHANGED <<clock, log, archive, objects>>
    BY <1>4 DEF Stamp
  <2>5. \A d \in Stamped' : request'[d].ts + MaxAge + Skew >= clock'
    BY <2>2, <2>3, <2>4 DEF ArchiveInv, Stamped
  <2>. QED  BY <2>4, <2>5 DEF ArchiveInv, Over
<1>5. ASSUME NEW c \in Requests, ReadLatest(c) PROVE ArchiveInv'
  <2>1. \A d \in Stamped' : d \in Stamped /\ request'[d].ts = request[d].ts
    BY <1>0, <1>5 DEF ReadLatest, Stamped, Pending
  <2>2. UNCHANGED <<clock, log, archive, objects>>
    BY <1>5 DEF ReadLatest
  <2>. QED  BY <2>1, <2>2 DEF ArchiveInv, Over
<1>6. ASSUME NEW c \in Requests, Commit(c) PROVE ArchiveInv'
  <2>1. PICK i \in Ids : log' = log \cup {Row(c, i)}
    BY <1>6 DEF Commit
  <2>2. Row(c, i).ts = request[c].ts /\ c \in Stamped
    BY <1>6, RowFacts DEF Commit, Stamped
  <2>3. \A d \in Days : Over(d) => DayRows(log', d) = DayRows(log, d)
    <3>1. SUFFICES ASSUME NEW d \in Days, Over(d) PROVE DayRows(log', d) = DayRows(log, d)
      OBVIOUS
    <3>2. request[c].ts \div Day # d
      BY <1>0, <2>2, <3>1, DayIsClosed DEF ArchiveInv
    <3>. QED  BY <2>1, <2>2, <3>2 DEF DayRows
  <2>4. Stamped' \subseteq Stamped /\ \A d \in Stamped' : request'[d] = request[d]
    BY <1>2, <1>6 DEF Commit
  <2>5. UNCHANGED <<clock, archive, objects>>
    BY <1>6 DEF Commit
  <2>. QED  BY <1>0, <2>3, <2>4, <2>5 DEF ArchiveInv, Over
<1>7. CASE ListPage
  BY <1>7 DEF ListPage, ArchiveInv, Over, Stamped
<1>8. ASSUME NEW d \in Days, StartArchive(d) PROVE ArchiveInv'
  <2>1. /\ archive' = [pc |-> "reading", day |-> d, offset |-> 0, rows |-> {}]
        /\ Over(d) /\ UNCHANGED <<clock, log, request, objects>>
    BY <1>8 DEF StartArchive, Over
  <2>2. Low(DayRows(log, d), 0) = {}
    <3>1. Cardinality(Low(DayRows(log, d), 0)) <= 0 /\ IsFiniteSet(Low(DayRows(log, d), 0))
          /\ Cardinality(Low(DayRows(log, d), 0)) \in Nat
      BY DayFacts, LowFacts
    <3>2. Cardinality(Low(DayRows(log, d), 0)) = 0
      BY <3>1
    <3>. QED  BY <3>1, <3>2, FS_EmptySet
  <2>. QED  BY <1>0, <2>1, <2>2 DEF ArchiveInv, Over, Stamped
<1>9. CASE FetchBatch
  <2>. DEFINE S == DayRows(log, archive.day)
              k == archive.offset
              batch == Batch(S, k)
  <2>1. /\ archive.pc = "reading" /\ UNCHANGED <<clock, log, request, objects>>
        /\ archive' = [archive EXCEPT !.rows = @ \cup batch, !.offset = @ + ChunkSize,
                                      !.pc = IF Cardinality(batch) < ChunkSize
                                               THEN "upload" ELSE "reading"]
    BY <1>9 DEF FetchBatch
  <2>2. KeyedSet(S) /\ IsFiniteSet(S) /\ S \subseteq Rows /\ k \in Nat /\ archive.day \in Days
    BY <1>0, DayFacts
  <2>3. archive.rows = Low(S, k) /\ Over(archive.day)
    BY <2>1 DEF ArchiveInv
  <2>4. /\ archive.rows \cup batch = Low(S, k + ChunkSize)
        /\ archive.rows \cup batch \subseteq Rows
        /\ Cardinality(batch) < ChunkSize => archive.rows \cup batch = S
    <3>. HIDE DEF S, k
    <3>1. batch \subseteq S /\ archive.rows \subseteq S
      BY <2>2, <2>3, BatchFacts, LowFacts
    <3>. QED  BY <2>2, <2>3, <3>1, BatchFacts
  <2>5. /\ archive'.rows = archive.rows \cup batch /\ archive'.offset = k + ChunkSize
        /\ archive'.day = archive.day
        /\ archive'.pc = IF Cardinality(batch) < ChunkSize THEN "upload" ELSE "reading"
        /\ archive' = [pc |-> archive'.pc, day |-> archive'.day, offset |-> archive'.offset,
                       rows |-> archive'.rows]
    BY <1>0, <2>1
  <2>6. archive' \in [pc : {"idle", "reading", "upload"}, day : Days,
                      offset : Nat, rows : SUBSET Rows]
    <3>1. k + ChunkSize \in Nat
      BY <1>0, <2>2
    <3>. HIDE DEF batch, S, k
    <3>. QED  BY <2>2, <2>4, <2>5, <3>1
  <2>. HIDE DEF batch
  <2>7. /\ archive'.pc = "reading" => archive'.rows = Low(S, archive'.offset)
        /\ archive'.pc = "upload" => archive'.rows = S
    BY <2>4, <2>5
  <2>. QED  BY <2>1, <2>3, <2>5, <2>6, <2>7 DEF ArchiveInv, Over, Stamped
<1>10. CASE Upload
  <2>. DEFINE d == archive.day
  <2>1. /\ d \in Days /\ archive.rows = DayRows(log, d) /\ Over(d)
        /\ archive.rows \in SUBSET Rows
    BY <1>0, <1>10 DEF Upload, ArchiveInv
  <2>2. /\ objects' = objects \/ objects' = [objects EXCEPT ![d] = archive.rows]
        /\ UNCHANGED <<clock, log, request>>
    BY <1>10 DEF Upload
  <2>3. /\ archive'.pc = "idle"
        /\ archive' \in [pc : {"idle", "reading", "upload"}, day : Days,
                         offset : Nat, rows : SUBSET Rows]
    BY <1>0, <1>10 DEF Upload
  <2>4. /\ objects' \in [Days -> SUBSET Rows]
        /\ \A e \in Days : objects'[e] = objects[e] \/ (e = d /\ objects'[e] = archive.rows)
    BY <1>0, <2>1, <2>2
  <2>. QED  BY <2>1, <2>2, <2>3, <2>4 DEF ArchiveInv, Over, Stamped
<1>11. CASE ArchiveFails
  <2>1. /\ archive'.pc = "idle"
        /\ archive' \in [pc : {"idle", "reading", "upload"}, day : Days,
                         offset : Nat, rows : SUBSET Rows]
    BY <1>0, <1>11 DEF ArchiveFails
  <2>2. UNCHANGED <<clock, log, request, objects>>
    BY <1>11 DEF ArchiveFails
  <2>. QED  BY <2>1, <2>2 DEF ArchiveInv, Over, Stamped
<1>12. CASE UNCHANGED vars
  BY <1>12 DEF vars, ArchiveInv, Over, Stamped
<1>. QED
  BY <1>1, <1>3, <1>4, <1>5, <1>6, <1>7, <1>8, <1>9, <1>10, <1>11, <1>12 DEF Next

\* The archive object of a day holds all its rows and no other, with any
\* chunk size: the wait until two o'clock outlasts every request that may
\* still add to the day.
THEOREM ArchivesAreExact == Spec => []ArchiveIsExact
<1>1. Init => ArchiveInv
  BY TimesAssumption DEF Init, ArchiveInv, Days, Stamped, Fresh
<1>2. LogOK /\ ArchiveInv /\ [Next]_vars => ArchiveInv'
  BY ArchiveStep
<1>3. ArchiveInv => ArchiveIsExact
  BY DEF ArchiveInv, ArchiveIsExact
<1>. QED  BY <1>1, <1>2, <1>3, LogTypeCorrect, PTL DEF Spec
=============================================================================
