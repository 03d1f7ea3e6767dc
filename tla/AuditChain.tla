----------------------------- MODULE AuditChain -----------------------------
(***************************************************************************)
(* The admin audit log: requests that change something and append a row,   *)
(* the hash chain over the rows, its verification, the daily archive and   *)
(* the paged listing.                                                      *)
(*                                                                         *)
(* A row has no reference to the row before it.  Its hash is computed from *)
(* the hash of whatever row was the latest, by timestamp and id, when the  *)
(* request asked; the verification recomputes the hashes along that order. *)
(* The two agree only as long as rows are committed in the order of their  *)
(* timestamps and one at a time.  The database refuses UPDATE and DELETE   *)
(* on the table, so the log only grows.                                    *)
(*                                                                         *)
(* What a request changes besides is the subject of other modules; some    *)
(* log a row without having changed anything (a status set to what it was, *)
(* a pull that failed).                                                    *)
(*                                                                         *)
(* No two requests are alike to the microsecond.                           *)
(* SHA-256 is taken to be injective: a hash is the sequence of the fields  *)
(* it was made from.                                                       *)
(***************************************************************************)
EXTENDS Integers, Sequences, FiniteSets

CONSTANTS
    Requests,  \* the requests to the admin API that log a row
    Ids,       \* the row ids (uuid4), by their order
    Day,       \* length of a day, in ticks of the clock
    Gap,       \* ticks from midnight to the archive job (02:00)
    Skew,      \* how far the clock of a replica may be behind, in ticks
    MaxAge,    \* from the timestamp of a row to its commit, at most
    MaxClock,  \* bound on the clock
    Limit,     \* rows per page
    ChunkSize  \* rows per query of the archive job

ASSUME IdsAssumption == Ids \subseteq Nat
ASSUME TimesAssumption ==
    /\ Day \in Nat \ {0}
    /\ {Gap, Skew, MaxAge, MaxClock} \subseteq Nat
    /\ MaxAge + Skew <= Gap
ASSUME SizesAssumption == {Limit, ChunkSize} \subseteq Nat \ {0}

Times == 0 .. MaxClock
Days  == 0 .. MaxClock
Fields == [ts : Times, body : Requests]
Hashes == Seq(Fields)
Pending == [pc : {"idle", "handled", "stamped", "read", "done", "failed"},
            ts : Times, prev : Hashes]
Rows  == [id : Ids, ts : Times, body : Requests, hash : Hashes]

NoCursor == [ts |-> MaxClock + 1, id |-> 0]

VARIABLES
    clock,
    log,      \* the committed rows
    request,  \* request[c]: the step it is at, its timestamp, the hash it chains to
    listing,  \* a reader of the pages: cursor, rows got, (history) got twice, due
    archive,  \* the archive job: day, offset, rows fetched
    objects,  \* objects[d]: the rows in the archive object of day d
    slips     \* (history) what has disturbed the order of the rows

vars == <<clock, log, request, listing, archive, objects, slips>>

-----------------------------------------------------------------------------
(* The order of the rows and the chain.                                    *)

\* ORDER BY timestamp, id.
Before(p, q) == p.ts < q.ts \/ (p.ts = q.ts /\ p.id < q.id)

\* Mutation of Row: the time of the row is not hashed.
RowWithoutTime(c, i) ==
    [id |-> i, ts |-> request[c].ts, body |-> c,
     hash |-> Append(request[c].prev, [ts |-> 0, body |-> c])]

Hash(prev, ts, body) == Append(prev, [ts |-> ts, body |-> body])

GenesisHash == <<>>

\* The row that request c adds, under the id i.
Row(c, i) ==
    [id |-> i, ts |-> request[c].ts, body |-> c,
     hash |-> Hash(request[c].prev, request[c].ts, c)]

Latest(S) == CHOOSE r \in S : \A q \in S : q = r \/ Before(q, r)

LatestHash(S) == IF S = {} THEN GenesisHash ELSE Latest(S).hash

\* What the verification of the rows S finds: every stored hash is the one
\* recomputed from the row before it.
Intact(S) ==
    \A r \in S :
        r.hash = Hash(LatestHash({q \in S : Before(q, r)}), r.ts, r.body)

-----------------------------------------------------------------------------
Fresh(step) == [pc |-> step, ts |-> 0, prev |-> GenesisHash]

Init ==
    /\ clock = 0
    /\ log = {}
    /\ request = [c \in Requests |-> Fresh("idle")]
    /\ listing = [pc |-> "idle", cursor |-> NoCursor, got |-> {}, again |-> {}, due |-> {}]
    /\ archive = [pc |-> "idle", day |-> 0, offset |-> 0, rows |-> {}]
    /\ objects = [d \in Days |-> {}]
    /\ slips = {}

\* Requests that hold a timestamp and have not ended.
Stamped == {c \in Requests : request[c].pc \in {"stamped", "read"}}

\* Time passes; a request does not hold a timestamp for longer than MaxAge.
Tick ==
    /\ clock < MaxClock
    /\ \A c \in Stamped : clock < request[c].ts + MaxAge + Skew
    /\ clock' = clock + 1
    /\ UNCHANGED <<log, request, listing, archive, objects, slips>>

-----------------------------------------------------------------------------
(* A request.                                                              *)

Goto(c, step) == request' = [request EXCEPT ![c] = Fresh(step)]

\* The service has done its part, on tables of its own.
Handle(c) ==
    /\ request[c].pc = "idle"
    /\ Goto(c, "handled")
    /\ UNCHANGED <<clock, log, listing, archive, objects, slips>>

\* The timestamp is taken, by the clock of the replica, before the latest
\* row is looked up.
Stamp(c) ==
    /\ request[c].pc = "handled"
    /\ \E ts \in {t \in Times : clock - Skew <= t /\ t <= clock} :
        /\ request' = [request EXCEPT ![c].pc = "stamped", ![c].ts = ts]
        /\ slips' = slips \cup (IF Stamped # {} THEN {"overlap"} ELSE {})
                          \cup (IF \E r \in log : ts <= r.ts THEN {"clock"} ELSE {})
    /\ UNCHANGED <<clock, log, listing, archive, objects>>

\* Mutation of ReadLatest: rows that are flushed and not committed are seen.
ReadUncommitted(c) ==
    /\ request[c].pc = "stamped"
    /\ \E prev \in {LatestHash(log)} \cup
                    {Hash(request[d].prev, request[d].ts, d) :
                        d \in {d \in Requests : request[d].pc = "read"}} :
        request' = [request EXCEPT ![c].pc = "read", ![c].prev = prev]
    /\ UNCHANGED <<clock, log, listing, archive, objects, slips>>

\* Committed rows are seen, and no others.
ReadLatest(c) ==
    /\ request[c].pc = "stamped"
    /\ request' = [request EXCEPT ![c].pc = "read", ![c].prev = LatestHash(log)]
    /\ UNCHANGED <<clock, log, listing, archive, objects, slips>>

Commit(c) ==
    /\ request[c].pc = "read"
    /\ \E i \in Ids :
        /\ \A r \in log : r.id # i
        /\ log' = log \cup {Row(c, i)}
    /\ Goto(c, "done")
    /\ UNCHANGED <<clock, listing, archive, objects, slips>>

\* An error or a crash; the row is rolled back.
Fail(c) ==
    /\ request[c].pc \in {"handled", "stamped", "read"}
    /\ Goto(c, "failed")
    /\ UNCHANGED <<clock, log, listing, archive, objects, slips>>

-----------------------------------------------------------------------------
(* Listing: keyset pages, newest first.                                    *)

\* Mutation of Page: the condition of the cursor compares timestamps only.
PageByTime(S, cursor) ==
    LET older == {r \in S : r.ts < cursor.ts}
    IN  {r \in older : Cardinality({q \in older : Before(r, q)}) < Limit}

Page(S, cursor) ==
    LET older == {r \in S : Before(r, cursor)}
    IN  {r \in older : Cardinality({q \in older : Before(r, q)}) < Limit}

\* A page that is full has a cursor to the next one, be that empty.
ListPage ==
    /\ listing.pc # "end"
    /\ LET page == Page(log, listing.cursor)
           full == Cardinality(page) = Limit
           last == CHOOSE r \in page : \A q \in page : q = r \/ Before(r, q)
       IN  listing' = [pc     |-> IF full THEN "more" ELSE "end",
                       cursor |-> IF full THEN [ts |-> last.ts, id |-> last.id]
                                          ELSE listing.cursor,
                       got    |-> listing.got \cup page,
                       again  |-> listing.again \cup (listing.got \cap page),
                       due    |-> IF listing.pc = "idle" THEN log ELSE listing.due]
    /\ UNCHANGED <<clock, log, request, archive, objects, slips>>

-----------------------------------------------------------------------------
(* The archive job of a day: batches by offset, one object at the end.     *)

DayRows(S, d) == {r \in S : r.ts \div Day = d}

Batch(S, offset) ==
    {r \in S : LET rank == Cardinality({q \in S : Before(q, r)})
               IN  offset <= rank /\ rank < offset + ChunkSize}

\* One job at a time, for the day before, from two o'clock on.
StartArchive(d) ==
    /\ archive.pc = "idle"
    /\ clock \div Day = d + 1
    /\ clock >= (d + 1) * Day + Gap
    /\ archive' = [pc |-> "reading", day |-> d, offset |-> 0, rows |-> {}]
    /\ UNCHANGED <<clock, log, request, listing, objects, slips>>

\* Mutation of FetchBatch: a batch that fills its chunk ends the job as well.
FetchOneBatch ==
    /\ archive.pc = "reading"
    /\ LET batch == Batch(DayRows(log, archive.day), archive.offset)
       IN  archive' = [archive EXCEPT !.rows = @ \cup batch,
                                      !.offset = @ + ChunkSize,
                                      !.pc = "upload"]
    /\ UNCHANGED <<clock, log, request, listing, objects, slips>>

FetchBatch ==
    /\ archive.pc = "reading"
    /\ LET batch == Batch(DayRows(log, archive.day), archive.offset)
       IN  archive' = [archive EXCEPT !.rows = @ \cup batch,
                                      !.offset = @ + ChunkSize,
                                      !.pc = IF Cardinality(batch) < ChunkSize
                                               THEN "upload" ELSE "reading"]
    /\ UNCHANGED <<clock, log, request, listing, objects, slips>>

\* The object is replaced as a whole; a day without rows uploads nothing.
Upload ==
    /\ archive.pc = "upload"
    /\ objects' = IF archive.rows = {} THEN objects
                  ELSE [objects EXCEPT ![archive.day] = archive.rows]
    /\ archive' = [archive EXCEPT !.pc = "idle"]
    /\ UNCHANGED <<clock, log, request, listing, slips>>

\* The job fails or is killed; Kubernetes starts it anew.
ArchiveFails ==
    /\ archive.pc # "idle"
    /\ archive' = [archive EXCEPT !.pc = "idle"]
    /\ UNCHANGED <<clock, log, request, listing, objects, slips>>

-----------------------------------------------------------------------------
Next ==
    \/ Tick
    \/ \E c \in Requests :
        Handle(c) \/ Stamp(c) \/ ReadLatest(c) \/ Commit(c) \/ Fail(c)
    \/ ListPage
    \/ \E d \in Days : StartArchive(d)
    \/ FetchBatch \/ Upload \/ ArchiveFails

Spec == Init /\ [][Next]_vars

-----------------------------------------------------------------------------
(* Properties.                                                             *)

\* As long as no two requests held a timestamp at once and no clock stood
\* still or went back between two rows, the verification finds the chain
\* intact: what it reports is then a change of the rows.
SerialChainIsIntact == slips = {} => Intact(log)

\* A mismatch stays, and so whoever finds the chain intact knows that it has
\* been intact at every moment before, whatever requests have overlapped or
\* rolled back and whatever their clocks showed: no row that is committed
\* late slips into a gap and makes good what was reported.
MismatchesStay == [][~Intact(log) => ~Intact(log')]_vars

\* A reader who follows the cursors to the end has seen every row that was
\* there at the first page, and none twice, whatever is appended meanwhile.
PagesReturnEachOnce ==
    /\ listing.again = {}
    /\ listing.pc = "end" => listing.due \subseteq listing.got

\* The archive object of a day holds all rows of that day: the job reads what
\* no request can add to any more.
ArchiveIsExact ==
    \A d \in Days : objects[d] # {} => objects[d] = DayRows(log, d)
=============================================================================
