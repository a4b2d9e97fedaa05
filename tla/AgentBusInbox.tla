--------------------------- MODULE AgentBusInbox ---------------------------
(***************************************************************************)
(* AgentBus streams and one agent's inbox (agentbus_service.py).           *)
(*                                                                         *)
(* Threads of other agents append chunks to streams.  A chunk is stamped   *)
(* with its created_at first and committed later; the inbox orders the     *)
(* chunks of all streams by (created_at, id), and its cursor is such a     *)
(* pair.  A chunk and a cursor are modelled by that place: the n-th pair   *)
(* in this order is the number n, and 0 is the empty cursor.               *)
(*                                                                         *)
(* The hub runs on PostgreSQL with its default isolation: a transaction    *)
(* sees what has been committed when each of its statements starts, and    *)
(* reads lock nothing.  So every statement whose result is used by a later *)
(* one is a step of its own.                                               *)
(***************************************************************************)
EXTENDS Naturals, FiniteSets

CONSTANTS
    Stream,       \* stream ids
    Sender,       \* threads of other agents that append chunks
    Drainer,      \* calls of the agent's sessions that drain the inbox
    Lookalike,    \* streams not addressed to the agent whose members' ids
                  \* contain its id: the LIKE prefilter lets them through
    Limits,       \* values of a drain's limit
    None,         \* SQL NULL, or no stream
    MaxChunks     \* bound on the chunks stamped

ASSUME InboxAssumption ==
    /\ Lookalike \subseteq Stream
    /\ Limits \subseteq Nat \ {0}
    /\ MaxChunks \in Nat
    /\ None \notin Stream \cup [stream : Stream, seq : Nat]

VARIABLES stream,   \* agentbus_streams: the status of each stream
          chunk,    \* agentbus_chunks: the committed rows, by place
          clock,    \* the last place given out
          append,   \* the append each sender is in
          cursor,   \* the durable inbox position (agentbus_consumer_cursors)
          drain,    \* the drain each session is in
          handed    \* how often a chunk was handed to a session for good (capped)

vars == <<stream, chunk, clock, append, cursor, drain, handed>>

Place == 1 .. MaxChunks
Cursor == 0 .. MaxChunks

Row        == [stream : Stream, seq : Nat \ {0}]
AppendCall == [pc : {"idle", "begun", "numbered"}, at : Cursor,
               stream : Stream \cup {None}, final : BOOLEAN, seq : Nat]
DrainCall  == [pc : {"idle", "started", "read", "checked"}, from : Cursor,
               limit : Limits \cup {0}, commit : BOOLEAN, batch : SUBSET Place]

NoAppend == [pc |-> "idle", at |-> 0, stream |-> None, final |-> FALSE, seq |-> 0]
NoDrain  == [pc |-> "idle", from |-> 0, limit |-> 0, commit |-> FALSE, batch |-> {}]

Init ==
    /\ stream = [s \in Stream |-> "new"]
    /\ chunk = [n \in Place |-> None]
    /\ clock = 0
    /\ append = [p \in Sender |-> NoAppend]
    /\ cursor = 0
    /\ drain = [d \in Drainer |-> NoDrain]
    /\ handed = [n \in Place |-> 0]

Sent == {n \in Place : chunk[n] # None}

\* _stream_addresses_agent: the chunks that are spoken to the agent.
Addressed == {n \in Sent : chunk[n].stream \notin Lookalike}

\* The highest sequence number of stream s, 0 when it has no chunk.
IsLastSequence(s, k) ==
    /\ \A n \in Sent : chunk[n].stream = s => chunk[n].seq <= k
    /\ k # 0 => \E n \in Sent : chunk[n].stream = s /\ chunk[n].seq = k

-----------------------------------------------------------------------------
(* Streams and appends.                                                    *)

\* open_stream.
OpenStream(s) ==
    /\ stream[s] = "new"
    /\ stream' = [stream EXCEPT ![s] = "open"]
    /\ UNCHANGED <<chunk, clock, append, cursor, drain, handed>>

\* close_stream: the sender's statement that the conversation is over.
CloseStream(s) ==
    /\ stream[s] = "open"
    /\ stream' = [stream EXCEPT ![s] = "closed"]
    /\ UNCHANGED <<chunk, clock, append, cursor, drain, handed>>

\* append_chunk, up to the check that the stream is open: created_at is taken.
BeginAppend(p, s, final) ==
    /\ append[p].pc = "idle"
    /\ clock < MaxChunks
    /\ stream[s] = "open"
    /\ clock' = clock + 1
    /\ append' = [append EXCEPT ![p] = [pc |-> "begun", at |-> clock + 1,
                                        stream |-> s, final |-> final, seq |-> 0]]
    /\ UNCHANGED <<stream, chunk, cursor, drain, handed>>

\* Mutant of NumberChunk: the last number is used again.
NumberFromLast(p) ==
    /\ append[p].pc = "begun"
    /\ \E k \in 0 .. MaxChunks :
          /\ IsLastSequence(append[p].stream, k)
          /\ append' = [append EXCEPT ![p].pc = "numbered", ![p].seq = k]
    /\ UNCHANGED <<stream, chunk, clock, cursor, drain, handed>>

\* ... SELECT MAX(sequence) + 1.
NumberChunk(p) ==
    /\ append[p].pc = "begun"
    /\ \E k \in 0 .. MaxChunks :
          /\ IsLastSequence(append[p].stream, k)
          /\ append' = [append EXCEPT ![p].pc = "numbered", ![p].seq = k + 1]
    /\ UNCHANGED <<stream, chunk, clock, cursor, drain, handed>>

\* The stream after the append of p commits.
StreamAfter(p) ==
    IF append[p].final THEN [stream EXCEPT ![append[p].stream] = "closed"] ELSE stream

\* Mutant of CommitChunk: UNIQUE(stream_id, sequence) is missing.
CommitUnchecked(p) ==
    /\ append[p].pc = "numbered"
    /\ chunk' = [chunk EXCEPT ![append[p].at] =
                    [stream |-> append[p].stream, seq |-> append[p].seq]]
    /\ stream' = StreamAfter(p)
    /\ append' = [append EXCEPT ![p] = NoAppend]
    /\ UNCHANGED <<clock, cursor, drain, handed>>

\* ... INSERT and, for a final chunk, the close; both commit.
CommitChunk(p) ==
    LET row == [stream |-> append[p].stream, seq |-> append[p].seq] IN
    /\ append[p].pc = "numbered"
    /\ \A n \in Place : chunk[n] # row       \* UNIQUE(stream_id, sequence)
    /\ chunk' = [chunk EXCEPT ![append[p].at] = row]
    /\ stream' = StreamAfter(p)
    /\ append' = [append EXCEPT ![p] = NoAppend]
    /\ UNCHANGED <<clock, cursor, drain, handed>>

\* The append fails: another one took its sequence number, or the connection died.
FailAppend(p) ==
    /\ append[p].pc # "idle"
    /\ append' = [append EXCEPT ![p] = NoAppend]
    /\ UNCHANGED <<stream, chunk, clock, cursor, drain, handed>>

-----------------------------------------------------------------------------
(* drain_inbox.                                                            *)

\* The first k places of S.
Page(S, k) == {n \in S : Cardinality({m \in S : m < n}) < k}

\* A session drains from the durable position, or from a bookmark of its own:
\* a cursor it was handed before, or none.
StartDrain(d, from, limit, commit) ==
    /\ drain[d].pc = "idle"
    /\ from \in {0, cursor} \cup Addressed
    /\ drain' = [drain EXCEPT ![d] = [pc |-> "started", from |-> from, limit |-> limit,
                                      commit |-> commit, batch |-> {}]]
    /\ UNCHANGED <<stream, chunk, clock, append, cursor, handed>>

\* Mutant of ReadInbox: the cursor itself is read again.
ReadInboxFromCursor(d) ==
    LET page == Page({n \in Sent : n >= drain[d].from}, drain[d].limit)
        batch == page \cap Addressed
    IN
    /\ drain[d].pc = "started"
    /\ drain' = [drain EXCEPT ![d] =
                    IF batch # {} /\ drain[d].commit
                    THEN [drain[d] EXCEPT !.pc = "read", !.batch = batch] ELSE NoDrain]
    /\ UNCHANGED <<stream, chunk, clock, append, cursor, handed>>

\* read_inbox: LIMIT applies to what the LIKE prefilter lets through, the exact
\* check of the addressee comes after it.  A peek, or a read of nothing, ends here.
ReadInbox(d) ==
    LET page == Page({n \in Sent : n > drain[d].from}, drain[d].limit)
        batch == page \cap Addressed
    IN
    /\ drain[d].pc = "started"
    /\ drain' = [drain EXCEPT ![d] =
                    IF batch # {} /\ drain[d].commit
                    THEN [drain[d] EXCEPT !.pc = "read", !.batch = batch] ELSE NoDrain]
    /\ UNCHANGED <<stream, chunk, clock, append, cursor, handed>>

\* Mutant of CheckCursor: no compare before the set.
CheckNothing(d) ==
    /\ drain[d].pc = "read"
    /\ drain' = [drain EXCEPT ![d].pc = "checked"]
    /\ UNCHANGED <<stream, chunk, clock, append, cursor, handed>>

\* The compare of the compare-and-set; a drain that lost returns a conflict.
CheckCursor(d) ==
    /\ drain[d].pc = "read"
    /\ drain' = [drain EXCEPT ![d] =
                    IF drain[d].from = cursor THEN [drain[d] EXCEPT !.pc = "checked"]
                    ELSE NoDrain]
    /\ UNCHANGED <<stream, chunk, clock, append, cursor, handed>>

\* Mutant of SetCursor: the position is not stored.
SetNothing(d) ==
    /\ drain[d].pc = "checked"
    /\ drain' = [drain EXCEPT ![d] = NoDrain]
    /\ UNCHANGED <<stream, chunk, clock, append, cursor, handed>>

\* The set: the position moves behind the batch, and the batch is returned.
SetCursor(d) ==
    /\ drain[d].pc = "checked"
    /\ \E last \in drain[d].batch :
          /\ \A n \in drain[d].batch : n <= last
          /\ cursor' = last
    /\ handed' = [n \in Place |-> IF n \in drain[d].batch /\ handed[n] < 2
                                  THEN handed[n] + 1 ELSE handed[n]]
    /\ drain' = [drain EXCEPT ![d] = NoDrain]
    /\ UNCHANGED <<stream, chunk, clock, append>>

\* The hub thread dies before the drain commits.
FailDrain(d) ==
    /\ drain[d].pc # "idle"
    /\ drain' = [drain EXCEPT ![d] = NoDrain]
    /\ UNCHANGED <<stream, chunk, clock, append, cursor, handed>>

-----------------------------------------------------------------------------
Next ==
    \/ \E s \in Stream : OpenStream(s) \/ CloseStream(s)
    \/ \E p \in Sender, s \in Stream, f \in BOOLEAN : BeginAppend(p, s, f)
    \/ \E p \in Sender : NumberChunk(p) \/ CommitChunk(p) \/ FailAppend(p)
    \/ \E d \in Drainer, from \in Cursor, k \in Limits, c \in BOOLEAN :
          StartDrain(d, from, k, c)
    \/ \E d \in Drainer : ReadInbox(d) \/ CheckCursor(d) \/ SetCursor(d) \/ FailDrain(d)

Spec == Init /\ [][Next]_vars

\* The steps of a drain from the durable position that is to be kept.
DefaultStart(d) == \E k \in Limits : StartDrain(d, cursor, k, TRUE)
DefaultRead(d) == drain[d].commit /\ drain[d].from = cursor /\ ReadInbox(d)
DefaultCheck(d) == drain[d].from = cursor /\ CheckCursor(d)

\* A drain that was started goes on; between its turns the session drains
\* (cli_session.run_hook), and the hub does not die at the same place each time.
Fairness ==
    \A d \in Drainer : /\ WF_vars(ReadInbox(d) \/ CheckCursor(d))
                       /\ SF_vars(DefaultStart(d))
                       /\ SF_vars(DefaultRead(d))
                       /\ SF_vars(DefaultCheck(d))
                       /\ SF_vars(SetCursor(d))

FairSpec == Spec /\ Fairness

-----------------------------------------------------------------------------
\* The type invariant of the bus tables and the calls in progress.
TypeOK ==
    /\ stream \in [Stream -> {"new", "open", "closed"}]
    /\ chunk \in [Place -> Row \cup {None}]
    /\ clock \in Cursor
    /\ append \in [Sender -> AppendCall]
    /\ cursor \in Cursor
    /\ drain \in [Drainer -> DrainCall]
    /\ handed \in [Place -> 0 .. 2]

\* The chunks of a stream are numbered 1, 2, ... without a gap and without a
\* repetition, however appends of several members interleave or fail: a reader
\* that follows a conversation by sequence (read_chunks) sees all of it.
SequencesDense ==
    \A n \in Sent :
        /\ \A m \in Sent : chunk[m] = chunk[n] => m = n
        /\ chunk[n].seq > 1 => \E m \in Sent : /\ chunk[m].stream = chunk[n].stream
                                               /\ chunk[m].seq = chunk[n].seq - 1

\* The durable position does not move backwards, whatever bookmark a drain was
\* started from: what was consumed stays consumed (the compare in drain_inbox).
CursorNeverBack == [][cursor' >= cursor]_vars

\* "Compare-and-set prevents two concurrent drains from both consuming the same
\* batch" (drain_inbox): no chunk is handed out for good twice.
HandedOnce == \A n \in Place : handed[n] < 2

\* A chunk that was sent to the agent is not left waiting for ever: the position
\* of a session that keeps draining reaches it (read_inbox, drain_inbox).
InboxAdvances == \A n \in Place : (n \in Addressed) ~> cursor >= n

\* A watcher resumes where the previous one stopped, "so a message landing between
\* rounds is not skipped" (docs/in-flight-agent-messages.md): what lies before
\* the durable position has been handed out.
NothingSkipped == \A n \in Addressed : n <= cursor => handed[n] > 0
=============================================================================
