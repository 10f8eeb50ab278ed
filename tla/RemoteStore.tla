------------------------------ MODULE RemoteStore ------------------------------
(***************************************************************************)
(* How the Firestore client on a telephone sends its writes (the iOS SDK:  *)
(* sync_engine.cc, local_store.cc, leveldb_mutation_queue.cc,              *)
(* remote_store.cc, write_stream.cc, stream.cc, grpc_stream.cc).           *)
(*                                                                         *)
(* A write becomes a batch in LevelDB.  Up to MaxPending batches are in    *)
(* the write pipeline and are sent over a stream: handshake first, then    *)
(* every batch of the pipeline, in order.  Answers carry no batch id: each *)
(* concerns the first batch of the pipeline.  A stream that ends is opened *)
(* again and everything unanswered is sent once more; a permanent error is *)
(* put down to the first batch, which is dropped.                          *)
(*                                                                         *)
(* All of this runs on one worker queue, so that a handler is one step.    *)
(* The network is enabled while the process runs: the application never    *)
(* disables it.  Tokens of the stream are not modelled: the handshake does *)
(* not carry one, and nothing is decided by them.                          *)
(***************************************************************************)
EXTENDS Naturals, Sequences, SequencesExt

CONSTANTS NumWrites,    \* bound: writes the application makes
          MaxPending,   \* kMaxPendingWrites
          MaxFaults     \* bound: crashes, broken streams, refusals, ...

ASSUME NumWritesAssumption == NumWrites \in Nat
ASSUME MaxPendingAssumption == MaxPending \in Nat \ {0}
ASSUME MaxFaultsAssumption == MaxFaults \in Nat

VARIABLES
    up,         \* the process runs
    issued,     \* number of writes made so far; a write is its number
    calls,      \* worker queue: writes not yet stored
    db,         \* LevelDB: batches [id, write] in the order of their ids
    nextId,     \* next_batch_id_
    pipeline,   \* write_pipeline_
    stream,     \* state_ of the write stream; Healthy counts as open
    handshake,  \* handshake_complete_
    idle,       \* the idle timer is scheduled
    fresh,      \* questions for credentials with the present close_count_
    stale,      \* questions for credentials of streams closed since
    wire,       \* requests of the stream that the server has not taken
    answers,    \* answers of the stream that the client has not read
    closing,    \* how the stream has ended: "none", "transient", "permanent"
    late,       \* what the server may yet take of the streams given up
    applied,    \* server: writes taken
    refused,    \* server: writes refused
    lost,       \* writes that a crash took before they were stored
    verdict,    \* per write, what the client makes of it: "none", "ok", "error"
    faults

memory  == <<calls, nextId, pipeline, stream, handshake, idle, fresh, stale>>
network == <<wire, answers, closing, late>>
server  == <<applied, refused>>
vars    == <<up, issued, db, memory, network, server, lost, verdict, faults>>

Writes == 1 .. NumWrites

Hello == 0      \* the handshake as a request and as an answer

Batch == [id : Nat \ {0}, write : Writes]

WritesOf(batches) == [k \in DOMAIN batches |-> batches[k].write]

-----------------------------------------------------------------------------
\* LevelDB: the first position with a greater id than the given one.
After(d, id) ==
    CHOOSE k \in 1 .. Len(d) + 1 :
        /\ \A j \in 1 .. k - 1 : d[j].id <= id
        /\ k <= Len(d) => d[k].id > id

Without(d, id) == RemoveAt(d, CHOOSE k \in DOMAIN d : d[k].id = id)

\* Faulty variant, for the check of the properties: every fill starts at the
\* first batch of the queue.
FilledFromTheFront(p, d) ==
    p \o SubSeq(d, 1, IF Len(d) <= MaxPending - Len(p) THEN Len(d) ELSE MaxPending - Len(p))

\* FillWritePipeline: the pipeline p with the batches of d behind it, as far as
\* there is room.
Filled(p, d) ==
    LET k    == After(d, IF p = << >> THEN 0 ELSE p[Len(p)].id)
        last == k - 1 + MaxPending - Len(p)
    IN  p \o SubSeq(d, k, IF last <= Len(d) THEN last ELSE Len(d))

IsStarted(s) == s \in {"starting", "open", "backoff"}

\* StartWriteStream if ShouldStartWriteStream: the state of the stream with the
\* pipeline p.
Started(s, p) == CASE IsStarted(s) \/ p = << >>  -> s
                   [] s = "error" /\ p # << >>   -> "backoff"
                   [] s = "initial" /\ p # << >> -> "starting"

\* RequestCredentials is called when a stream leaves its initial state.
Asking(s, p) == IF s = "initial" /\ p # << >> THEN 1 ELSE 0

Fault == faults < MaxFaults /\ faults' = faults + 1

\* The gRPC stream is gone; what was on its way may still be taken.
GiveUpStream ==
    /\ wire' = << >> /\ answers' = << >> /\ closing' = "none"
    /\ \/ late' = late
       \/ /\ closing # "permanent" /\ handshake /\ wire # << >>
          /\ late' = late \cup {wire}

Connected == stream = "open" /\ closing = "none"

-----------------------------------------------------------------------------
Init ==
    /\ up = TRUE /\ issued = 0 /\ calls = << >> /\ db = << >> /\ nextId = 1
    /\ pipeline = << >> /\ stream = "initial" /\ handshake = FALSE /\ idle = FALSE
    /\ fresh = 0 /\ stale = 0
    /\ wire = << >> /\ answers = << >> /\ closing = "none" /\ late = {}
    /\ applied = {} /\ refused = {} /\ lost = {}
    /\ verdict = [w \in Writes |-> "none"]
    /\ faults = 0

\* The application calls set, update or delete.
WriteMutations ==
    /\ up /\ issued < NumWrites
    /\ issued' = issued + 1
    /\ calls' = Append(calls, issued + 1)
    /\ UNCHANGED <<up, db, nextId, pipeline, stream, handshake, idle, fresh, stale,
                   network, server, lost, verdict, faults>>

\* The worker queue stores the write as a batch and fills the pipeline, sending
\* what has been added if the stream takes it.
StoreAndSend(takes, stillIdle) ==
    /\ up /\ calls # << >>
    /\ calls' = Tail(calls)
    /\ db' = Append(db, [id |-> nextId, write |-> Head(calls)])
    /\ nextId' = nextId + 1
    /\ pipeline' = Filled(pipeline, db')
    /\ LET added == SubSeq(pipeline', Len(pipeline) + 1, Len(pipeline'))
       IN  IF takes /\ added # << >>
           THEN wire' = wire \o WritesOf(added) /\ idle' = stillIdle
           ELSE UNCHANGED <<wire, idle>>
    /\ stream' = Started(stream, pipeline')
    /\ fresh' = fresh + Asking(stream, pipeline')
    /\ UNCHANGED <<up, issued, handshake, stale, answers, closing, late, server, lost,
                   verdict, faults>>

\* Faulty variants, for the check of the properties: the handshake is not waited
\* for; the idle timer runs on.
WriteLocallyTooEarly  == StoreAndSend(stream = "open", FALSE)
WriteLocallyWhileIdle == StoreAndSend(stream = "open" /\ handshake, idle)

\* Sent at once on an open stream with its handshake complete.
WriteLocally == StoreAndSend(stream = "open" /\ handshake, FALSE)

-----------------------------------------------------------------------------
\* ResumeStartWithCredentials: the stream opens and the handshake is written.
CredentialsArrive ==
    /\ fresh > 0
    /\ fresh' = fresh - 1
    /\ stream' = "open"
    /\ wire' = <<Hello>> /\ answers' = << >> /\ closing' = "none"
    /\ UNCHANGED <<up, issued, calls, db, nextId, pipeline, handshake, idle, stale, late,
                   server, lost, verdict, faults>>

\* No token: OnStreamFinish before there is a gRPC stream.
CredentialsFail ==
    /\ fresh > 0 /\ Fault
    /\ fresh' = fresh - 1
    /\ stream' = Started("error", pipeline)
    /\ handshake' = FALSE /\ idle' = FALSE
    /\ UNCHANGED <<up, issued, calls, db, nextId, pipeline, stale, network, server, lost,
                   verdict>>

\* Credentials for a stream that has been closed since are dropped.
StaleCredentialsArrive ==
    /\ stale > 0
    /\ stale' = stale - 1
    /\ UNCHANGED <<up, issued, calls, db, nextId, pipeline, stream, handshake, idle, fresh,
                   network, server, lost, verdict, faults>>

\* The backoff timer: the stream starts again.
BackoffElapsed ==
    /\ stream = "backoff"
    /\ stream' = "starting"
    /\ fresh' = fresh + 1
    /\ UNCHANGED <<up, issued, calls, db, nextId, pipeline, handshake, idle, stale,
                   network, server, lost, verdict, faults>>

\* The first answer is the one to the handshake: the pipeline is sent.
HandshakeComplete ==
    /\ answers # << >> /\ ~ handshake
    /\ answers' = Tail(answers)
    /\ handshake' = TRUE
    /\ wire' = wire \o WritesOf(pipeline)
    /\ idle' = (idle /\ pipeline = << >>)
    /\ UNCHANGED <<up, issued, calls, db, nextId, pipeline, stream, fresh, stale, closing,
                   late, server, lost, verdict, faults>>

\* Every other answer acknowledges the first batch of the pipeline, which is
\* then filled again; with nothing left the stream is marked idle.
MutationResult ==
    /\ answers # << >> /\ handshake
    /\ answers' = Tail(answers)
    /\ LET b    == Head(pipeline)
           rest == Tail(pipeline)
       IN  /\ db' = Without(db, b.id)
           /\ verdict' = [verdict EXCEPT ![b.write] = "ok"]
           /\ pipeline' = Filled(rest, db')
           /\ wire' = wire \o WritesOf(SubSeq(pipeline', Len(rest) + 1, Len(pipeline')))
           /\ idle' = IF pipeline' = << >> THEN TRUE
                      ELSE idle /\ Len(pipeline') = Len(rest)
    /\ UNCHANGED <<up, issued, calls, nextId, stream, handshake, fresh, stale, closing,
                   late, server, lost, faults>>

\* The idle timer closes the stream.
IdleTimeout ==
    /\ idle
    /\ stream' = Started("initial", pipeline)
    /\ fresh' = Asking("initial", pipeline) /\ stale' = stale + fresh
    /\ handshake' = FALSE /\ idle' = FALSE
    /\ GiveUpStream
    /\ UNCHANGED <<up, issued, calls, db, nextId, pipeline, server, lost, verdict, faults>>

\* The end of the stream reaches the client: when there is nothing more to read,
\* or earlier when a write fails, for then the answers not yet read are dropped.
StreamEnds ==
    /\ stream = "open" /\ closing # "none"
    /\ answers = << >> \/ wire # << >>

\* OnWriteStreamClose for an error that only asks for another attempt.
CloseAndRetry ==
    /\ StreamEnds
    /\ closing = "transient" \/ ~ handshake \/ pipeline = << >>
    /\ stream' = Started("error", pipeline)
    /\ fresh' = 0 /\ stale' = stale + fresh
    /\ handshake' = FALSE /\ idle' = FALSE
    /\ GiveUpStream
    /\ UNCHANGED <<up, issued, calls, db, nextId, pipeline, server, lost, verdict, faults>>

\* HandleWriteError for a permanent error: a batch is dropped, and the stream
\* starts again without backoff if there is something left to send.
Reject(k, startsAgain) ==
    /\ StreamEnds
    /\ closing = "permanent" /\ handshake /\ pipeline # << >>
    /\ LET b == pipeline[k]
       IN  /\ db' = Without(db, b.id)
           /\ verdict' = [verdict EXCEPT ![b.write] = "error"]
           /\ pipeline' = Filled(RemoveAt(pipeline, k), db')
    /\ IF startsAgain
       THEN stream' = Started("initial", pipeline') /\ fresh' = Asking("initial", pipeline')
       ELSE stream' = "initial" /\ fresh' = 0
    /\ stale' = stale + fresh
    /\ handshake' = FALSE /\ idle' = FALSE
    /\ GiveUpStream
    /\ UNCHANGED <<up, issued, calls, nextId, server, lost, faults>>

\* Faulty variants, for the check of the properties: the error is put down to
\* the last batch that was sent; the stream is left closed.
CloseAndRejectLast    == Reject(Len(pipeline), TRUE)
CloseAndRejectAndRest == Reject(1, FALSE)

\* It is the first batch that is dropped.
CloseAndReject == Reject(1, TRUE)

\* The streams are stopped and the pipeline p is sent anew.
RestartWith(p) ==
    /\ up /\ Fault
    /\ pipeline' = p
    /\ stream' = Started("initial", p)
    /\ fresh' = Asking("initial", p) /\ stale' = stale + fresh
    /\ handshake' = FALSE /\ idle' = FALSE
    /\ GiveUpStream
    /\ UNCHANGED <<up, issued, calls, db, nextId, server, lost, verdict>>

\* Faulty variant, for the check of the properties: what was in the pipeline is
\* taken for sent.
RestartWithTheRest == RestartWith(Filled(<< >>, SubSeq(db, Len(pipeline) + 1, Len(db))))

\* The telephone has changed its network: the pipeline is emptied and filled
\* from the beginning of the queue.
RestartNetwork == RestartWith(Filled(<< >>, db))

\* The process dies: LevelDB is all that remains.
Kill ==
    /\ up /\ Fault
    /\ up' = FALSE
    /\ lost' = lost \cup {calls[k] : k \in DOMAIN calls}
    /\ calls' = << >> /\ pipeline' = << >> /\ stream' = "initial"
    /\ handshake' = FALSE /\ idle' = FALSE /\ fresh' = 0 /\ stale' = 0
    /\ GiveUpStream
    /\ UNCHANGED <<issued, db, nextId, server, verdict>>

\* The next start, with the first id that will be given out.
StartCountingFrom(id) ==
    /\ ~ up
    /\ up' = TRUE
    /\ nextId' = id
    /\ pipeline' = Filled(<< >>, db)
    /\ stream' = Started("initial", pipeline')
    /\ fresh' = Asking("initial", pipeline')
    /\ UNCHANGED <<issued, calls, db, handshake, idle, stale, network, server, lost,
                   verdict, faults>>

\* Faulty variants, for the check of the properties: the greatest id in use is
\* given out again; the batches that are left are counted.
StartWithTheLastId == StartCountingFrom(IF db = << >> THEN 0 ELSE db[Len(db)].id)
StartCountingLeft  == StartCountingFrom(Len(db) + 1)

\* Ids continue behind the greatest in use, or begin anew if there is none.
Start == StartCountingFrom(IF db = << >> THEN 1 ELSE db[Len(db)].id + 1)

-----------------------------------------------------------------------------
\* The server takes the next request of the stream and answers it.
ServerAccepts ==
    /\ Connected /\ wire # << >>
    /\ wire' = Tail(wire)
    /\ answers' = Append(answers, Head(wire))
    /\ applied' = IF Head(wire) = Hello THEN applied ELSE applied \cup {Head(wire)}
    /\ UNCHANGED <<up, issued, db, memory, closing, late, refused, lost, verdict, faults>>

\* It refuses the request for good and ends the stream with that error.
ServerRefuses ==
    /\ Connected /\ wire # << >> /\ Fault
    /\ wire' = Tail(wire)
    /\ closing' = "permanent"
    /\ refused' = IF Head(wire) = Hello THEN refused ELSE refused \cup {Head(wire)}
    /\ UNCHANGED <<up, issued, db, memory, answers, late, applied, lost, verdict>>

\* The stream breaks, with some of the answers still on their way.
StreamBreaks ==
    /\ Connected /\ Fault
    /\ closing' = "transient"
    /\ \E n \in 0 .. Len(answers) : answers' = SubSeq(answers, 1, n)
    /\ UNCHANGED <<up, issued, db, memory, wire, late, server, lost, verdict>>

\* The next request of a stream that the client has given up reaches the server.
LateRequest(requests) ==
    /\ requests \in late
    /\ \/ /\ applied' = applied \cup {Head(requests)} /\ refused' = refused
          /\ late' = (late \ {requests}) \cup ({Tail(requests)} \ {<< >>})
       \/ /\ refused' = refused \cup {Head(requests)} /\ applied' = applied
          /\ late' = late \ {requests}
    /\ UNCHANGED <<up, issued, db, memory, wire, answers, closing, lost, verdict, faults>>

Next ==
    \/ WriteMutations \/ WriteLocally
    \/ CredentialsArrive \/ CredentialsFail \/ StaleCredentialsArrive \/ BackoffElapsed
    \/ HandshakeComplete \/ MutationResult \/ IdleTimeout
    \/ CloseAndRetry \/ CloseAndReject \/ RestartNetwork \/ Kill \/ Start
    \/ ServerAccepts \/ ServerRefuses \/ StreamBreaks
    \/ \E requests \in late : LateRequest(requests)

Spec == Init /\ [][Next]_vars

\* The worker queue, the timers and the answer to a question for credentials
\* come in time; a server takes what reaches it over a stream that holds; and
\* the application is started again.
Fairness ==
    /\ WF_vars(WriteLocally) /\ WF_vars(CredentialsArrive) /\ WF_vars(BackoffElapsed)
    /\ WF_vars(HandshakeComplete) /\ WF_vars(MutationResult)
    /\ WF_vars(CloseAndRetry) /\ WF_vars(CloseAndReject)
    /\ WF_vars(ServerAccepts) /\ WF_vars(Start)

FairSpec == Spec /\ Fairness
-----------------------------------------------------------------------------
\* Batches have ids, in the queue and in the pipeline, and what is under way on
\* a stream that was given up is writes, never a handshake.
TypeOK ==
    /\ up \in BOOLEAN /\ issued \in 0 .. NumWrites /\ faults \in 0 .. MaxFaults
    /\ calls \in Seq(Writes) /\ db \in Seq(Batch) /\ pipeline \in Seq(Batch)
    /\ nextId \in Nat \ {0} /\ fresh \in Nat /\ stale \in Nat
    /\ stream \in {"initial", "starting", "open", "error", "backoff"}
    /\ handshake \in BOOLEAN /\ idle \in BOOLEAN
    /\ wire \in Seq(Writes \cup {Hello}) /\ answers \in Seq(Writes \cup {Hello})
    /\ closing \in {"none", "transient", "permanent"}
    /\ \A requests \in late : requests \in Seq(Writes) /\ requests # << >>
    /\ applied \subseteq Writes /\ refused \subseteq Writes /\ lost \subseteq Writes
    /\ verdict \in [Writes -> {"none", "ok", "error"}]

\* Batches have distinct ascending ids and hold the writes in the order in which
\* they were made, although ids are given out again once the queue has been
\* empty at a start.
BatchesAscend ==
    /\ \A j, k \in DOMAIN db : j < k => db[j].id < db[k].id /\ db[j].write < db[k].write
    /\ \A k \in DOMAIN db : up => db[k].id < nextId

\* "Writes remain in this pipeline until they are acknowledged by the backend"
\* (remote_store.h): the pipeline is the beginning of the queue in LevelDB,
\* through acknowledgements, rejections, restarts of the network and crashes.
\* While the process runs, the pipeline has no room left that a batch could have.
PipelineIsNextInLine ==
    /\ IsPrefix(pipeline, db) /\ Len(pipeline) <= MaxPending
    /\ up /\ Len(pipeline) < MaxPending => pipeline = db

\* Answers carry no id.  On a stream that holds, the answers to be read and the
\* requests still unanswered are exactly the pipeline, so that the first answer
\* is always the first batch's; on one that has ended, the answers left are.
AnswersMatchThePipeline ==
    stream = "open" =>
        LET sent == IF handshake THEN WritesOf(pipeline) ELSE <<Hello>>
        IN  /\ closing = "none" => answers \o wire = sent
            /\ IsPrefix(answers, sent)

\* What the client asserts (HARD_ASSERT in stream.cc, write_stream.cc,
\* remote_store.cc and leveldb_mutation_queue.cc): an answer finds a batch in
\* the pipeline, the idle timer an open stream with nothing to send, and the
\* credentials a stream that is starting.
AssertionsHold ==
    /\ answers # << >> => stream = "open"
    /\ answers # << >> /\ handshake => pipeline # << >>
    /\ idle => stream = "open" /\ handshake /\ pipeline = << >>
    /\ handshake => stream = "open"
    /\ fresh = (IF stream = "starting" THEN 1 ELSE 0)
    /\ stream = "error" => pipeline = << >>

\* Of what was ever stored, a write leaves the queue only when the server has
\* taken or refused it, and one reported as done has been taken.
NothingForgotten ==
    \A w \in 1 .. issued :
        /\ \/ w \in Range(calls) \/ w \in lost
           \/ w \in Range(WritesOf(db))
           \/ w \in applied \cup refused
        /\ verdict[w] = "ok" => w \in applied

\* The client implements an outbox: whatever breaks, writes reach the server for
\* the first time in the order in which they were made.
Promised == INSTANCE Outbox WITH
    queue  <- WritesOf(db),
    stored <- (1 .. issued) \ (Range(calls) \cup lost)

ImplementsOutbox == Promised!Spec

\* Every batch in LevelDB leaves it: the server has taken or refused the write.
EveryWriteIsDecided ==
    \A w \in Writes : w \in Range(WritesOf(db)) ~> w \notin Range(WritesOf(db))

\* remote_store.cc says of a permanent error that "the request itself was the
\* problem": the batch that is dropped is one the server refused.
DroppedIsTheRefused == \A w \in Writes : verdict[w] = "error" => w \in refused
=============================================================================
