------------------------ MODULE AgentBusInboxProofs ------------------------
(***************************************************************************)
(* What the inbox keeps for every number of streams, senders, sessions and *)
(* chunks: dense sequence numbers, always; with one session at a time, a   *)
(* chunk handed out at most once and a position that never moves back;     *)
(* with one sender, no chunk skipped.  Two sessions and two senders break  *)
(* both, as runs show, and the lemmas say through what.                    *)
(***************************************************************************)
EXTENDS AgentBusInbox, FiniteSetTheorems, TLAPS

\* The pending appends hold places of their own, none of them committed yet.
PlacesOwned ==
    /\ \A n \in Sent : n <= clock
    /\ \A p \in Sender : append[p].pc # "idle" =>
          /\ append[p].at \in 1 .. clock
          /\ append[p].at \in Place
          /\ chunk[append[p].at] = None
          /\ append[p].stream \in Stream
    /\ \A p, q \in Sender :
          append[p].pc # "idle" /\ append[q].pc # "idle" /\ append[p].at = append[q].at
              => p = q

\* The number an append holds follows a committed one.
NumberFollows ==
    \A p \in Sender : append[p].pc = "numbered" =>
        /\ append[p].seq \in Nat \ {0}
        /\ append[p].seq > 1 => \E m \in Sent : /\ chunk[m].stream = append[p].stream
                                                /\ chunk[m].seq = append[p].seq - 1

BusInv == TypeOK /\ PlacesOwned /\ NumberFollows

LEMMA BusInvInit == Init => BusInv
  BY InboxAssumption DEF Init, BusInv, TypeOK, PlacesOwned, NumberFollows, Sent,
     Place, Cursor, AppendCall, DrainCall, NoAppend, NoDrain

-----------------------------------------------------------------------------
\* A drain step that leaves the bus alone keeps the types of the calls.
LEMMA DrainTyped ==
    ASSUME TypeOK, NEW d \in Drainer, NEW row \in DrainCall,
           drain' = [drain EXCEPT ![d] = row],
           UNCHANGED <<stream, chunk, clock, append>>,
           cursor' \in Cursor, handed' \in [Place -> 0 .. 2]
    PROVE  TypeOK'
  BY DEF TypeOK

\* Every step keeps the types of the tables and the calls.
LEMMA TypeStep == BusInv /\ [Next]_vars => TypeOK'
<1> SUFFICES ASSUME BusInv, [Next]_vars PROVE TypeOK'
  OBVIOUS
<1> USE DEF BusInv
<1>1. ASSUME NEW s \in Stream, OpenStream(s) \/ CloseStream(s) PROVE TypeOK'
  BY <1>1 DEF TypeOK, OpenStream, CloseStream
<1>2. ASSUME NEW p \in Sender, NEW s \in Stream, NEW f \in BOOLEAN, BeginAppend(p, s, f)
      PROVE  TypeOK'
  BY <1>2, InboxAssumption DEF TypeOK, BeginAppend, AppendCall, Cursor
<1>3. ASSUME NEW p \in Sender, NumberChunk(p) PROVE TypeOK'
  <2>1. PICK k \in 0 .. MaxChunks :
           append' = [append EXCEPT ![p].pc = "numbered", ![p].seq = k + 1]
    BY <1>3 DEF NumberChunk
  <2>2. append[p] \in AppendCall /\ append \in [Sender -> AppendCall]
    BY DEF TypeOK
  <2>3. k + 1 \in Nat
    BY InboxAssumption
  <2>4. [append[p] EXCEPT !.pc = "numbered", !.seq = k + 1] \in AppendCall
    BY <2>2, <2>3 DEF AppendCall
  <2>5. append' = [append EXCEPT ![p] = [append[p] EXCEPT !.pc = "numbered", !.seq = k + 1]]
    BY <2>1, <2>2 DEF AppendCall
  <2> QED
    BY <1>3, <2>2, <2>4, <2>5 DEF TypeOK, NumberChunk
<1>4. ASSUME NEW p \in Sender, CommitChunk(p) PROVE TypeOK'
  <2>1. append[p].stream \in Stream /\ append[p].seq \in Nat \ {0} /\ append[p].at \in Place
    BY <1>4 DEF CommitChunk, PlacesOwned, NumberFollows
  <2>2. NoAppend \in AppendCall
    BY InboxAssumption DEF NoAppend, AppendCall, Cursor
  <2>3. stream' \in [Stream -> {"new", "open", "closed"}]
    BY <1>4, <2>1 DEF CommitChunk, StreamAfter, TypeOK
  <2>4. chunk' \in [Place -> Row \cup {None}]
    BY <1>4, <2>1 DEF CommitChunk, TypeOK, Row
  <2> QED
    BY <1>4, <2>2, <2>3, <2>4 DEF CommitChunk, TypeOK
<1>5. ASSUME NEW p \in Sender, FailAppend(p) PROVE TypeOK'
  BY <1>5, InboxAssumption DEF TypeOK, FailAppend, NoAppend, AppendCall, Cursor
<1>6. ASSUME NEW d \in Drainer, NEW from \in Cursor, NEW k \in Limits, NEW c \in BOOLEAN,
             StartDrain(d, from, k, c)
      PROVE  TypeOK'
  BY <1>6, DrainTyped DEF StartDrain, TypeOK, DrainCall
<1>7. ASSUME NEW d \in Drainer,
             ReadInbox(d) \/ CheckCursor(d) \/ SetCursor(d) \/ FailDrain(d)
      PROVE  TypeOK'
  <2>1. NoDrain \in DrainCall
    BY InboxAssumption DEF NoDrain, DrainCall, Cursor
  <2>2. CASE ReadInbox(d)
    <3> DEFINE batch == Page({n \in Sent : n > drain[d].from}, drain[d].limit) \cap Addressed
    <3>1. batch \in SUBSET Place
      BY DEF Addressed, Sent
    <3>2. [drain[d] EXCEPT !.pc = "read", !.batch = batch] \in DrainCall
      BY <3>1 DEF TypeOK, DrainCall
    <3> QED
      BY <2>1, <2>2, <3>2, DrainTyped DEF ReadInbox, TypeOK
  <2>3. CASE CheckCursor(d)
    <3>1. [drain[d] EXCEPT !.pc = "checked"] \in DrainCall
      BY DEF TypeOK, DrainCall
    <3> QED
      BY <2>1, <2>3, <3>1, DrainTyped DEF CheckCursor, TypeOK
  <2>4. CASE SetCursor(d)
    <3>1. drain[d].batch \subseteq Place
      BY DEF TypeOK, DrainCall
    <3>2. cursor' \in Cursor
      BY <2>4, <3>1, InboxAssumption DEF SetCursor, Place, Cursor
    <3>3. handed' \in [Place -> 0 .. 2]
      BY <2>4 DEF SetCursor, TypeOK
    <3> QED
      BY <2>1, <2>4, <3>2, <3>3, DrainTyped DEF SetCursor
  <2>5. CASE FailDrain(d)
    BY <2>1, <2>5, DrainTyped DEF FailDrain, TypeOK
  <2> QED
    BY <1>7, <2>2, <2>3, <2>4, <2>5
<1>8. CASE UNCHANGED vars
  BY <1>8 DEF vars, TypeOK
<1> QED
  BY <1>1, <1>2, <1>3, <1>4, <1>5, <1>6, <1>7, <1>8 DEF Next

\* A committed chunk stays as it is; a commit adds the one row of its sender.
LEMMA ChunksStay ==
    ASSUME BusInv, [Next]_vars
    PROVE  \/ chunk' = chunk
           \/ \E p \in Sender :
                 /\ CommitChunk(p)
                 /\ append[p].at \in Place \ Sent
                 /\ chunk'[append[p].at] = [stream |-> append[p].stream, seq |-> append[p].seq]
                 /\ \A n \in Sent : chunk'[n] = chunk[n] /\ n # append[p].at
                 /\ Sent' = Sent \cup {append[p].at}
<1>1. CASE \E p \in Sender : CommitChunk(p)
  <2>1. PICK p \in Sender : CommitChunk(p)
    BY <1>1
  <2> DEFINE row == [stream |-> append[p].stream, seq |-> append[p].seq]
  <2>2. append[p].at \in Place \ Sent /\ row # None
    BY <2>1, InboxAssumption DEF CommitChunk, BusInv, PlacesOwned, NumberFollows, Sent
  <2>3. chunk' = [chunk EXCEPT ![append[p].at] = row] /\ chunk \in [Place -> Row \cup {None}]
    BY <2>1 DEF CommitChunk, BusInv, TypeOK
  <2>4. Sent' = Sent \cup {append[p].at}
    BY <2>2, <2>3 DEF Sent
  <2> QED
    BY <2>1, <2>2, <2>3, <2>4 DEF Sent
<1>2. CASE ~\E p \in Sender : CommitChunk(p)
  BY <1>2 DEF Next, vars, OpenStream, CloseStream, BeginAppend, NumberChunk, FailAppend,
     StartDrain, ReadInbox, CheckCursor, SetCursor, FailDrain
<1> QED
  BY <1>1, <1>2

-----------------------------------------------------------------------------
\* The state of one append after a step: as it was, given up, begun or numbered.
LEMMA AppendStep ==
    ASSUME BusInv, [Next]_vars, NEW q \in Sender, append'[q] # append[q],
           append'[q].pc # "idle"
    PROVE  /\ chunk' = chunk
           /\ \A r \in Sender \ {q} : append'[r] = append[r]
           /\ \/ /\ append'[q].pc = "begun"
                 /\ clock \in Nat /\ clock' = clock + 1 /\ clock' \in Place
                 /\ append'[q].at = clock'
                 /\ append'[q].stream \in Stream
              \/ /\ append[q].pc = "begun"
                 /\ append'[q].pc = "numbered"
                 /\ clock' = clock
                 /\ append'[q].at = append[q].at
                 /\ append'[q].stream = append[q].stream
                 /\ append'[q].seq \in Nat \ {0}
                 /\ append'[q].seq > 1 =>
                       \E m \in Sent : /\ chunk[m].stream = append[q].stream
                                       /\ chunk[m].seq = append'[q].seq - 1
<1> USE DEF BusInv
<1>0. append \in [Sender -> AppendCall] /\ clock \in Nat /\ MaxChunks \in Nat
  BY InboxAssumption DEF TypeOK, Cursor
<1>1. ASSUME NEW p \in Sender, NEW s \in Stream, NEW f \in BOOLEAN, BeginAppend(p, s, f)
      PROVE  /\ chunk' = chunk
             /\ \A r \in Sender \ {q} : append'[r] = append[r]
             /\ append'[q].pc = "begun"
             /\ clock' = clock + 1 /\ clock' \in Place
             /\ append'[q].at = clock'
             /\ append'[q].stream \in Stream
  BY <1>0, <1>1 DEF BeginAppend, Place
<1>2. ASSUME NEW p \in Sender, NumberChunk(p)
      PROVE  /\ chunk' = chunk /\ clock' = clock
             /\ \A r \in Sender \ {q} : append'[r] = append[r]
             /\ append[q].pc = "begun"
             /\ append'[q].pc = "numbered"
             /\ append'[q].at = append[q].at
             /\ append'[q].stream = append[q].stream
             /\ append'[q].seq \in Nat \ {0}
             /\ append'[q].seq > 1 =>
                   \E m \in Sent : /\ chunk[m].stream = append[q].stream
                                   /\ chunk[m].seq = append'[q].seq - 1
  <2>1. PICK k \in 0 .. MaxChunks :
           /\ IsLastSequence(append[p].stream, k)
           /\ append' = [append EXCEPT ![p].pc = "numbered", ![p].seq = k + 1]
    BY <1>2 DEF NumberChunk
  <2>2. append' = [append EXCEPT ![p] = [append[p] EXCEPT !.pc = "numbered", !.seq = k + 1]]
    BY <1>0, <2>1 DEF AppendCall
  <2>3. p = q
    BY <1>0, <2>2
  <2>4. append'[q] = [append[q] EXCEPT !.pc = "numbered", !.seq = k + 1]
    BY <1>0, <2>2, <2>3
  <2>5. append'[q].seq = k + 1 /\ append'[q].pc = "numbered"
        /\ append'[q].at = append[q].at /\ append'[q].stream = append[q].stream
    BY <1>0, <2>4 DEF AppendCall
  <2>6. k \in Nat /\ (k # 0 => \E m \in Sent : /\ chunk[m].stream = append[q].stream
                                               /\ chunk[m].seq = k)
    BY <1>0, <2>1, <2>3 DEF IsLastSequence
  <2>7. append'[q].seq > 1 => \E m \in Sent : /\ chunk[m].stream = append[q].stream
                                              /\ chunk[m].seq = append'[q].seq - 1
    BY <2>5, <2>6
  <2>8. \A r \in Sender \ {q} : append'[r] = append[r]
    BY <1>0, <2>2, <2>3
  <2>9. append[p].pc = "begun" /\ chunk' = chunk /\ clock' = clock
    BY <1>2 DEF NumberChunk
  <2> QED
    BY <2>3, <2>5, <2>6, <2>7, <2>8, <2>9
<1>3. \A p \in Sender : ~CommitChunk(p) /\ ~FailAppend(p)
  BY <1>0 DEF CommitChunk, FailAppend, NoAppend
<1>4. append' # append
  OBVIOUS
<1> QED
  BY <1>0, <1>1, <1>2, <1>3, <1>4 DEF Next, vars, OpenStream, CloseStream, StartDrain, ReadInbox,
     CheckCursor, SetCursor, FailDrain

\* Places are given out once.
LEMMA PlacesStep == BusInv /\ [Next]_vars => PlacesOwned'
<1> SUFFICES ASSUME BusInv, [Next]_vars PROVE PlacesOwned'
  OBVIOUS
<1>0. TypeOK' /\ TypeOK /\ PlacesOwned
  BY TypeStep DEF BusInv
<1>1. clock \in Nat /\ clock' \in Nat /\ clock <= clock'
  <2>1. clock \in Nat /\ clock' \in Nat
    BY <1>0, InboxAssumption DEF TypeOK, Cursor
  <2>2. \A q \in Sender, t \in Stream, f \in BOOLEAN : BeginAppend(q, t, f) => clock' = clock + 1
    BY DEF BeginAppend
  <2>3. clock' = clock \/ \E q \in Sender, t \in Stream, f \in BOOLEAN : BeginAppend(q, t, f)
    BY DEF Next, vars, OpenStream, CloseStream, NumberChunk, CommitChunk,
       FailAppend, StartDrain, ReadInbox, CheckCursor, SetCursor, FailDrain
  <2> QED
    BY <2>1, <2>2, <2>3
<1>2. \A n \in Sent' : n <= clock'
  <2>1. \A n \in Sent : n \in Nat /\ n <= clock'
    BY <1>0, <1>1 DEF PlacesOwned, Sent, Place
  <2>2. CASE chunk' = chunk
    BY <2>1, <2>2 DEF Sent
  <2>3. CASE ~(chunk' = chunk)
    <3>1. PICK p \in Sender : CommitChunk(p) /\ Sent' = Sent \cup {append[p].at}
      BY <2>3, ChunksStay
    <3>2. append[p].at \in 1 .. clock
      BY <1>0, <3>1 DEF CommitChunk, PlacesOwned
    <3> QED
      BY <1>1, <2>1, <3>1, <3>2
  <2> QED
    BY <2>2, <2>3
<1>3. ASSUME NEW q \in Sender, append'[q].pc # "idle"
      PROVE  /\ append'[q].at \in 1 .. clock'
             /\ append'[q].at \in Place
             /\ chunk'[append'[q].at] = None
             /\ append'[q].stream \in Stream
  <2>1. CASE append'[q] = append[q]
    <3>1. /\ append[q].at \in 1 .. clock /\ append[q].at \in Place
          /\ chunk[append[q].at] = None /\ append[q].stream \in Stream
      BY <1>0, <1>3, <2>1 DEF PlacesOwned
    <3>2. chunk'[append[q].at] = None
      <4>1. CASE chunk' = chunk
        BY <3>1, <4>1
      <4>2. CASE ~(chunk' = chunk)
        <5>1. PICK p \in Sender : CommitChunk(p)
          BY <4>2, ChunksStay
        <5>2. p # q
          BY <1>0, <1>3, <5>1 DEF CommitChunk, NoAppend, TypeOK
        <5>3. append[p].at # append[q].at
          BY <1>0, <1>3, <2>1, <5>1, <5>2 DEF CommitChunk, PlacesOwned
        <5> QED
          BY <1>0, <3>1, <5>1, <5>3 DEF CommitChunk, TypeOK
      <4> QED
        BY <4>1, <4>2
    <3> QED
      BY <1>1, <2>1, <3>1, <3>2
  <2>2. CASE append'[q] # append[q]
    <3>1. CASE append'[q].pc = "begun" /\ clock' = clock + 1 /\ clock' \in Place
               /\ append'[q].at = clock' /\ append'[q].stream \in Stream
      <4>1. clock' \notin Sent
        BY <1>0, <1>1, <3>1 DEF PlacesOwned
      <4>2. chunk' = chunk
        BY <1>3, <2>2, AppendStep
      <4> QED
        BY <1>1, <3>1, <4>1, <4>2 DEF Sent
    <3>2. CASE append[q].pc = "begun" /\ clock' = clock /\ append'[q].at = append[q].at
               /\ append'[q].stream = append[q].stream
      <4>1. chunk' = chunk
        BY <1>3, <2>2, AppendStep
      <4> QED
        BY <1>0, <3>2, <4>1 DEF PlacesOwned
    <3> QED
      BY <1>3, <2>2, <3>1, <3>2, AppendStep
  <2> QED
    BY <2>1, <2>2
<1>4. ASSUME NEW p \in Sender, NEW q \in Sender, append'[p].pc # "idle",
             append'[q].pc # "idle", append'[p].at = append'[q].at, p # q
      PROVE  FALSE
  <2>1. ASSUME NEW a \in Sender, NEW b \in Sender, a # b, append'[a].pc # "idle",
               append'[b].pc # "idle", append'[a].at = append'[b].at,
               append'[a] # append[a]
        PROVE  FALSE
    <3>1. append'[b] = append[b] /\ append[b].at \in 1 .. clock
      <4>1. append'[b] = append[b]
        BY <2>1, AppendStep
      <4> QED
        BY <1>0, <2>1, <4>1 DEF PlacesOwned
    <3>2. append[a].pc = "begun" /\ append'[a].at = append[a].at
      BY <1>1, <2>1, <3>1, AppendStep
    <3> QED
      BY <1>0, <2>1, <3>1, <3>2 DEF PlacesOwned
  <2> QED
    BY <1>0, <1>4, <2>1 DEF PlacesOwned
<1> QED
  BY <1>2, <1>3, <1>4 DEF PlacesOwned

\* The number an append holds still follows a committed chunk after every step.
LEMMA NumberStep == BusInv /\ [Next]_vars => NumberFollows'
<1> SUFFICES ASSUME BusInv, [Next]_vars, NEW p \in Sender, append'[p].pc = "numbered"
             PROVE  /\ append'[p].seq \in Nat \ {0}
                    /\ append'[p].seq > 1 =>
                          \E m \in Sent' : /\ chunk'[m].stream = append'[p].stream
                                           /\ chunk'[m].seq = append'[p].seq - 1
  BY DEF NumberFollows
<1>1. \A m \in Sent : m \in Sent' /\ chunk'[m] = chunk[m]
  BY ChunksStay DEF Sent
<1>2. CASE append'[p] = append[p]
  BY <1>1, <1>2 DEF BusInv, NumberFollows
<1>3. CASE append'[p] # append[p]
  <2>1. /\ append'[p].stream = append[p].stream
        /\ append'[p].seq \in Nat \ {0}
        /\ append'[p].seq > 1 => \E m \in Sent : /\ chunk[m].stream = append[p].stream
                                                 /\ chunk[m].seq = append'[p].seq - 1
    BY <1>3, AppendStep
  <2> QED
    BY <1>1, <2>1
<1> QED
  BY <1>2, <1>3

\* The invariant of the bus, whatever the senders and the sessions do.
LEMMA BusInvStep == BusInv /\ [Next]_vars => BusInv'
  BY TypeStep, PlacesStep, NumberStep DEF BusInv

LEMMA BusInvHolds == Spec => []BusInv
  BY BusInvInit, BusInvStep, PTL DEF Spec

\* The bus tables and the calls in progress keep their types (agentbus_service.py).
THEOREM BusTyped == Spec => []TypeOK
<1>1. BusInv => TypeOK
  BY DEF BusInv
<1> QED
  BY <1>1, BusInvHolds, PTL

-----------------------------------------------------------------------------
\* The chunks of a stream stay numbered without gap or repetition through every
\* interleaving of append_chunk: MAX(sequence) + 1 is read outside any lock, and
\* UNIQUE(stream_id, sequence) turns the race into a failed append.
THEOREM Dense == Spec => []SequencesDense
<1>1. Init => SequencesDense
  BY DEF Init, SequencesDense, Sent
<1>2. BusInv /\ SequencesDense /\ [Next]_vars => SequencesDense'
  <2> SUFFICES ASSUME BusInv, SequencesDense, [Next]_vars PROVE SequencesDense'
    OBVIOUS
  <2>1. CASE chunk' = chunk
    BY <2>1 DEF SequencesDense, Sent
  <2>2. CASE ~(chunk' = chunk)
    <3>1. PICK p \in Sender :
             /\ CommitChunk(p)
             /\ append[p].at \in Place \ Sent
             /\ chunk'[append[p].at] = [stream |-> append[p].stream, seq |-> append[p].seq]
             /\ \A n \in Sent : chunk'[n] = chunk[n] /\ n # append[p].at
             /\ Sent' = Sent \cup {append[p].at}
      BY <2>2, ChunksStay
    <3> DEFINE row == [stream |-> append[p].stream, seq |-> append[p].seq]
    <3>2. \A n \in Sent : chunk'[n] # row
      BY <3>1 DEF CommitChunk, Sent
    <3>3. ASSUME NEW n \in Sent', NEW m \in Sent', chunk'[m] = chunk'[n] PROVE m = n
      <4>1. CASE n \in Sent /\ m \in Sent
        BY <3>1, <3>3, <4>1 DEF SequencesDense
      <4> QED
        BY <3>1, <3>2, <3>3, <4>1
    <3>4. ASSUME NEW n \in Sent', chunk'[n].seq > 1
          PROVE  \E m \in Sent' : /\ chunk'[m].stream = chunk'[n].stream
                                  /\ chunk'[m].seq = chunk'[n].seq - 1
      <4>1. CASE n \in Sent
        <5>1. \E m \in Sent : /\ chunk[m].stream = chunk[n].stream
                              /\ chunk[m].seq = chunk[n].seq - 1
          BY <3>1, <3>4, <4>1 DEF SequencesDense
        <5> QED
          BY <3>1, <4>1, <5>1
      <4>2. CASE n = append[p].at
        <5>1. append[p].pc = "numbered" /\ append[p].seq > 1
              /\ chunk'[n].stream = append[p].stream /\ chunk'[n].seq = append[p].seq
          BY <3>1, <3>4, <4>2 DEF CommitChunk
        <5>2. \E m \in Sent : /\ chunk[m].stream = append[p].stream
                              /\ chunk[m].seq = append[p].seq - 1
          BY <5>1 DEF BusInv, NumberFollows
        <5> QED
          BY <3>1, <5>1, <5>2
      <4> QED
        BY <3>1, <4>1, <4>2
    <3> QED
      BY <3>3, <3>4 DEF SequencesDense
  <2> QED
    BY <2>1, <2>2
<1> QED
  BY <1>1, <1>2, BusInvHolds, PTL DEF Spec

-----------------------------------------------------------------------------
\* What a transaction around the compare and the set would give drain_inbox: no
\* two drains are between the two.
CompareAndSetAtomic ==
    \A d, e \in Drainer : drain[d].pc = "checked" /\ drain[e].pc = "checked" => d = e

\* Chunks are handed out once and lie behind the position; a batch lies before it.
BatchAhead ==
    /\ \A n \in Place : handed[n] < 2 /\ (handed[n] > 0 => n <= cursor)
    /\ \A d \in Drainer : drain[d].pc \in {"read", "checked"} =>
          \A n \in drain[d].batch : n > drain[d].from
    /\ \A d \in Drainer : drain[d].pc = "checked" => drain[d].from = cursor

\* What SetCursor does to the position, the drains and the chunks handed out.
LEMMA SetCursorStep ==
    ASSUME BusInv, NEW d \in Drainer, SetCursor(d)
    PROVE  /\ drain[d].pc = "checked"
           /\ cursor' \in drain[d].batch /\ drain[d].batch \subseteq Place
           /\ \A n \in drain[d].batch : n <= cursor'
           /\ \A n \in Place : handed'[n] = IF n \in drain[d].batch /\ handed[n] < 2
                                            THEN handed[n] + 1 ELSE handed[n]
           /\ drain'[d].pc = "idle"
           /\ \A e \in Drainer \ {d} : drain'[e] = drain[e]
  BY DEF SetCursor, BusInv, TypeOK, DrainCall, NoDrain

LEMMA BatchAheadStep == BusInv /\ CompareAndSetAtomic /\ BatchAhead /\ [Next]_vars
                           => BatchAhead' /\ [cursor' >= cursor]_vars
<1> SUFFICES ASSUME BusInv, CompareAndSetAtomic, BatchAhead, [Next]_vars
             PROVE  BatchAhead' /\ cursor' >= cursor
  OBVIOUS
<1>0. /\ drain \in [Drainer -> DrainCall] /\ cursor \in Nat
      /\ handed \in [Place -> 0 .. 2] /\ Place \subseteq Nat
  BY InboxAssumption DEF BusInv, TypeOK, Cursor, Place
<1>1. ASSUME UNCHANGED <<cursor, handed>>,
             \A e \in Drainer : \/ drain'[e] = drain[e]
                                \/ drain'[e].pc \in {"idle", "started"}
                                \/ /\ drain'[e].pc = "read"
                                   /\ \A n \in drain'[e].batch : n > drain'[e].from
                                \/ /\ drain[e].pc = "read" /\ drain'[e].pc = "checked"
                                   /\ drain'[e].from = cursor
                                   /\ drain'[e].from = drain[e].from
                                   /\ drain'[e].batch = drain[e].batch
      PROVE  BatchAhead' /\ cursor' >= cursor
  BY <1>0, <1>1 DEF BatchAhead
<1>2. ASSUME NEW d \in Drainer, NEW from \in Cursor, NEW k \in Limits, NEW c \in BOOLEAN,
             StartDrain(d, from, k, c)
      PROVE  BatchAhead' /\ cursor' >= cursor
  BY <1>0, <1>1, <1>2 DEF StartDrain
<1>3. ASSUME NEW d \in Drainer, ReadInbox(d) PROVE BatchAhead' /\ cursor' >= cursor
  <2> DEFINE page == Page({n \in Sent : n > drain[d].from}, drain[d].limit)
             batch == page \cap Addressed
  <2>1. \A n \in batch : n > drain[d].from
    BY DEF Page
  <2>2. drain'[d] = IF batch # {} /\ drain[d].commit
                    THEN [drain[d] EXCEPT !.pc = "read", !.batch = batch] ELSE NoDrain
    BY <1>0, <1>3 DEF ReadInbox
  <2>3. \/ drain'[d].pc = "idle"
        \/ drain'[d].pc = "read" /\ drain'[d].batch = batch /\ drain'[d].from = drain[d].from
    BY <1>0, <2>2 DEF DrainCall, NoDrain
  <2>4. \A e \in Drainer \ {d} : drain'[e] = drain[e]
    BY <1>0, <1>3 DEF ReadInbox
  <2>5. UNCHANGED <<cursor, handed>>
    BY <1>3 DEF ReadInbox
  <2> HIDE DEF batch
  <2> QED
    BY <1>1, <2>1, <2>3, <2>4, <2>5
<1>4. ASSUME NEW d \in Drainer, CheckCursor(d) PROVE BatchAhead' /\ cursor' >= cursor
  <2>1. \/ drain'[d].pc = "idle"
        \/ /\ drain[d].pc = "read" /\ drain'[d].pc = "checked"
           /\ drain'[d].from = cursor /\ drain'[d].from = drain[d].from
           /\ drain'[d].batch = drain[d].batch
    BY <1>0, <1>4 DEF CheckCursor, DrainCall, NoDrain
  <2>2. \A e \in Drainer \ {d} : drain'[e] = drain[e]
    BY <1>0, <1>4 DEF CheckCursor
  <2>3. UNCHANGED <<cursor, handed>>
    BY <1>4 DEF CheckCursor
  <2> QED
    BY <1>1, <2>1, <2>2, <2>3
<1>5. ASSUME NEW d \in Drainer, SetCursor(d) PROVE BatchAhead' /\ cursor' >= cursor
  <2>1. drain[d].from = cursor /\ \A n \in drain[d].batch : n > cursor
    BY <1>5, SetCursorStep DEF BatchAhead
  <2>2. cursor' > cursor /\ cursor' \in Nat
    BY <1>0, <1>5, <2>1, SetCursorStep
  <2>3. ASSUME NEW n \in Place PROVE handed'[n] < 2 /\ (handed'[n] > 0 => n <= cursor')
    <3>1. CASE n \in drain[d].batch
      <4>1. handed[n] = 0
        BY <1>0, <2>1, <3>1 DEF BatchAhead
      <4>2. handed'[n] = 1
        BY <1>5, <3>1, <4>1, SetCursorStep
      <4> QED
        BY <1>5, <3>1, <4>2, SetCursorStep
    <3>2. CASE n \notin drain[d].batch
      <4>1. handed'[n] = handed[n]
        BY <1>5, <3>2, SetCursorStep
      <4> QED
        BY <1>0, <2>2, <4>1 DEF BatchAhead
    <3> QED
      BY <3>1, <3>2
  <2>4. \A e \in Drainer : drain'[e].pc # "checked"
    BY <1>5, SetCursorStep DEF CompareAndSetAtomic
  <2>5. \A e \in Drainer : drain'[e].pc = "read" => \A n \in drain'[e].batch : n > drain'[e].from
    BY <1>5, SetCursorStep DEF BatchAhead
  <2>6. \A e \in Drainer : drain'[e].pc \in {"read", "checked"} =>
           \A n \in drain'[e].batch : n > drain'[e].from
    BY <2>4, <2>5
  <2> QED
    BY <1>0, <2>2, <2>3, <2>4, <2>6 DEF BatchAhead
<1>6. ASSUME NEW d \in Drainer, FailDrain(d) PROVE BatchAhead' /\ cursor' >= cursor
  BY <1>0, <1>1, <1>6 DEF FailDrain, NoDrain
<1>7. CASE UNCHANGED <<drain, cursor, handed>>
  BY <1>1, <1>7
<1>8. \/ UNCHANGED <<drain, cursor, handed>>
      \/ \E d \in Drainer, from \in Cursor, k \in Limits, c \in BOOLEAN : StartDrain(d, from, k, c)
      \/ \E d \in Drainer : ReadInbox(d) \/ CheckCursor(d) \/ SetCursor(d) \/ FailDrain(d)
  BY DEF Next, vars, OpenStream, CloseStream, BeginAppend, NumberChunk, CommitChunk, FailAppend
<1> QED
  BY <1>2, <1>3, <1>4, <1>5, <1>6, <1>7, <1>8

\* Were the compare-and-set of drain_inbox atomic, it would hand a chunk out at most
\* once. It is not (the run inbox_two_drains): this is a step towards OneSession.
LEMMA Once == Spec /\ []CompareAndSetAtomic => []HandedOnce
<1>1. Init => BatchAhead
  BY DEF Init, BatchAhead, NoDrain
<1>2. BatchAhead => HandedOnce
  BY DEF BatchAhead, HandedOnce
<1> QED
  BY <1>1, <1>2, BatchAheadStep, BusInvHolds, PTL DEF Spec

\* Under the same condition the durable position never moves back (drain_inbox):
\* again a step towards OneSession.
LEMMA Forward == Spec /\ []CompareAndSetAtomic => CursorNeverBack
<1>1. Init => BatchAhead
  BY DEF Init, BatchAhead, NoDrain
<1> QED
  BY <1>1, BatchAheadStep, BusInvHolds, PTL DEF Spec, CursorNeverBack

\* With one session at a time drain_inbox needs no transaction: whatever bookmarks
\* and limits it is called with, and wherever it dies, no chunk is handed out twice
\* and the durable position never moves back.
THEOREM OneSession ==
    ASSUME \A d, e \in Drainer : d = e
    PROVE  Spec => []HandedOnce /\ CursorNeverBack
<1>1. CompareAndSetAtomic
  BY DEF CompareAndSetAtomic
<1> QED
  BY <1>1, Once, Forward, PTL

-----------------------------------------------------------------------------
\* What a stamp taken under the lock of the commit would give append_chunk: an
\* append in progress is stamped later than everything that is committed.
StampsInOrder ==
    \A p \in Sender : append[p].pc # "idle" => \A n \in Sent : n < append[p].at

\* A page holds, with a chunk, every earlier one of the set it is taken from.
LEMMA PageClosed ==
    ASSUME NEW S \in SUBSET Place, NEW k \in Nat, NEW b \in Page(S, k), NEW n \in S, n <= b
    PROVE  n \in Page(S, k)
<1> DEFINE before(x) == {m \in S : m < x}
<1>1. IsFiniteSet(Place)
  <2>1. 1 \in Int /\ MaxChunks \in Int
    BY InboxAssumption
  <2> QED
    BY <2>1, FS_Interval DEF Place
<1>2. IsFiniteSet(before(b))
  <2>1. before(b) \subseteq Place
    OBVIOUS
  <2> HIDE DEF before
  <2> QED
    BY <1>1, <2>1, FS_Subset
<1>3. Place \subseteq Nat
  BY InboxAssumption DEF Place
<1>4. before(n) \subseteq before(b)
  <2>1. b \in S /\ n \in Nat /\ b \in Nat
    BY <1>3 DEF Page
  <2>2. \A m \in S : m \in Nat /\ (m < n => m < b)
    BY <1>3, <2>1
  <2> QED
    BY <2>2
<1>5. Cardinality(before(n)) <= Cardinality(before(b))
      /\ IsFiniteSet(before(n))
  <2> HIDE DEF before
  <2> QED
    BY <1>2, <1>4, FS_Subset
<1>6. Cardinality(before(n)) \in Nat /\ Cardinality(before(b)) \in Nat
  BY <1>2, <1>5, FS_CardinalityType
<1>7. Cardinality(before(b)) < k
  BY DEF Page
<1> QED
  BY <1>5, <1>6, <1>7 DEF Page

\* Everything addressed to the agent up to the position was handed out; a batch
\* holds everything between the cursor it was read from and its last chunk.
NoGap ==
    /\ NothingSkipped
    /\ cursor \in {0} \cup Sent
    /\ \A d \in Drainer : drain[d].pc # "idle" => drain[d].from \in {0} \cup Sent
    /\ \A d \in Drainer : drain[d].pc \in {"read", "checked"} =>
          /\ drain[d].batch \subseteq Sent
          /\ \A n \in Addressed : \A b \in drain[d].batch :
                n > drain[d].from /\ n <= b => n \in drain[d].batch
    /\ \A d \in Drainer : drain[d].pc = "checked" =>
          \A n \in Addressed : n <= drain[d].from => handed[n] > 0

\* A commit adds a chunk behind every position and every batch.
LEMMA NoGapCommit ==
    ASSUME BusInv, StampsInOrder, NoGap, [Next]_vars, NEW p \in Sender, CommitChunk(p)
    PROVE  NoGap'
<1> DEFINE at == append[p].at
<1>1. UNCHANGED <<cursor, drain, handed>> /\ append[p].pc # "idle"
  BY DEF CommitChunk
<1>2. Place \subseteq Nat /\ Sent \subseteq Place /\ Addressed \subseteq Sent
  BY InboxAssumption DEF Place, Sent, Addressed
<1>3. \A n \in Sent : n < at
  BY <1>1 DEF StampsInOrder
<1>4. at \in Place \ Sent
  BY <1>1 DEF BusInv, PlacesOwned, Sent
<1>5. chunk' = [chunk EXCEPT ![at] = chunk'[at]] /\ chunk \in [Place -> Row \cup {None}]
  BY <1>4 DEF CommitChunk, BusInv, TypeOK
<1>6. Sent \subseteq Sent' /\ Addressed' \subseteq Addressed \cup {at}
  BY <1>4, <1>5 DEF Sent, Addressed
<1>7. \A n \in {0} \cup Sent : n < at
  BY <1>2, <1>3, <1>4, InboxAssumption DEF Place
<1>8. ASSUME NEW n \in Addressed', NEW x \in {0} \cup Sent, n <= x PROVE n \in Addressed
  BY <1>2, <1>4, <1>6, <1>7, <1>8
<1>9. NothingSkipped'
  BY <1>1, <1>8 DEF NoGap, NothingSkipped
<1>10. cursor' \in {0} \cup Sent'
       /\ \A d \in Drainer : drain'[d].pc # "idle" => drain'[d].from \in {0} \cup Sent'
  BY <1>1, <1>6 DEF NoGap
<1>11. ASSUME NEW d \in Drainer, drain'[d].pc \in {"read", "checked"}
       PROVE  /\ drain'[d].batch \subseteq Sent'
              /\ \A n \in Addressed' : \A b \in drain'[d].batch :
                    n > drain'[d].from /\ n <= b => n \in drain'[d].batch
  BY <1>1, <1>6, <1>8, <1>11 DEF NoGap
<1>12. ASSUME NEW d \in Drainer, drain'[d].pc = "checked"
       PROVE  \A n \in Addressed' : n <= drain'[d].from => handed'[n] > 0
  BY <1>1, <1>8, <1>12 DEF NoGap
<1> QED
  BY <1>9, <1>10, <1>11, <1>12 DEF NoGap

\* A step of a drain keeps what it has read without a gap.
LEMMA NoGapDrain ==
    ASSUME BusInv, NoGap, chunk' = chunk, NEW d \in Drainer,
           \A e \in Drainer \ {d} : drain'[e] = drain[e],
           \/ \E from \in Cursor, k \in Limits, c \in BOOLEAN : StartDrain(d, from, k, c)
           \/ ReadInbox(d) \/ CheckCursor(d) \/ SetCursor(d) \/ FailDrain(d)
    PROVE  NoGap'
<1>0. /\ drain \in [Drainer -> DrainCall] /\ cursor \in Nat
      /\ handed \in [Place -> 0 .. 2] /\ Place \subseteq Nat
      /\ Sent \subseteq Place /\ Addressed \subseteq Sent
      /\ Sent' = Sent /\ Addressed' = Addressed
  BY InboxAssumption DEF BusInv, TypeOK, Cursor, Place, Sent, Addressed
<1>1. ASSUME UNCHANGED <<cursor, handed>>,
             drain'[d].pc # "idle" => drain'[d].from \in {0} \cup Sent,
             drain'[d].pc \in {"read", "checked"} =>
                /\ drain'[d].batch \subseteq Sent
                /\ \A n \in Addressed : \A b \in drain'[d].batch :
                      n > drain'[d].from /\ n <= b => n \in drain'[d].batch,
             drain'[d].pc = "checked" => drain'[d].from = cursor
      PROVE  NoGap'
  BY <1>0, <1>1 DEF NoGap, NothingSkipped
<1>2. ASSUME NEW from \in Cursor, NEW k \in Limits, NEW c \in BOOLEAN, StartDrain(d, from, k, c)
      PROVE  NoGap'
  BY <1>0, <1>1, <1>2 DEF StartDrain, NoGap
<1>3. ASSUME ReadInbox(d) PROVE NoGap'
  <2> DEFINE new == {n \in Sent : n > drain[d].from}
             batch == Page(new, drain[d].limit) \cap Addressed
  <2>1. drain[d].limit \in Nat /\ drain[d].from \in {0} \cup Sent
    BY <1>0, <1>3, InboxAssumption DEF DrainCall, ReadInbox, NoGap
  <2>2. ASSUME NEW n \in Addressed, NEW b \in batch, n > drain[d].from, n <= b
        PROVE  n \in batch
    <3>1. n \in new /\ new \in SUBSET Place
      BY <1>0, <2>2
    <3>2. b \in Page(new, drain[d].limit)
      OBVIOUS
    <3>3. n \in Page(new, drain[d].limit)
      <4> HIDE DEF new
      <4> QED
        BY <2>1, <2>2, <3>1, <3>2, PageClosed
    <3> QED
      BY <3>3
  <2>3. batch \subseteq Sent
    BY <1>0
  <2>4. drain'[d] = IF batch # {} /\ drain[d].commit
                    THEN [drain[d] EXCEPT !.pc = "read", !.batch = batch] ELSE NoDrain
    BY <1>0, <1>3 DEF ReadInbox
  <2>5. \/ drain'[d].pc = "idle"
        \/ drain'[d].pc = "read" /\ drain'[d].batch = batch /\ drain'[d].from = drain[d].from
    BY <1>0, <2>4 DEF DrainCall, NoDrain
  <2>6. UNCHANGED <<cursor, handed>>
    BY <1>3 DEF ReadInbox
  <2> HIDE DEF batch
  <2> QED
    BY <1>1, <2>1, <2>2, <2>3, <2>5, <2>6
<1>4. ASSUME CheckCursor(d) PROVE NoGap'
  <2>1. \/ drain'[d].pc = "idle"
        \/ /\ drain[d].pc = "read" /\ drain'[d].pc = "checked"
           /\ drain'[d].from = cursor /\ drain'[d].from = drain[d].from
           /\ drain'[d].batch = drain[d].batch
    BY <1>0, <1>4 DEF CheckCursor, DrainCall, NoDrain
  <2>2. UNCHANGED <<cursor, handed>>
    BY <1>4 DEF CheckCursor
  <2> QED
    BY <1>1, <2>1, <2>2 DEF NoGap
<1>5. ASSUME SetCursor(d) PROVE NoGap'
  <2>1. \A n \in Place : handed[n] > 0 => handed'[n] > 0
    BY <1>0, <1>5, SetCursorStep
  <2>2. \A n \in drain[d].batch : handed'[n] > 0
    <3> SUFFICES ASSUME NEW n \in drain[d].batch PROVE handed'[n] > 0
      OBVIOUS
    <3>1. n \in Place /\ handed[n] \in 0 .. 2
      BY <1>0, <1>5, SetCursorStep
    <3>2. handed'[n] = IF handed[n] < 2 THEN handed[n] + 1 ELSE handed[n]
      BY <1>5, <3>1, SetCursorStep
    <3> QED
      BY <3>1, <3>2
  <2>3. /\ drain[d].pc = "checked" /\ drain[d].from \in Nat
        /\ drain[d].batch \subseteq Sent
        /\ cursor' \in drain[d].batch /\ cursor' \in Sent /\ cursor' \in Nat
    <3>1. drain[d].from \in Nat
      BY <1>0, InboxAssumption DEF DrainCall, Cursor
    <3>2. drain[d].pc = "checked" /\ cursor' \in drain[d].batch
      BY <1>5, SetCursorStep
    <3>3. drain[d].batch \subseteq Sent
      BY <3>2 DEF NoGap
    <3> QED
      BY <1>0, <3>1, <3>2, <3>3
  <2>4. ASSUME NEW n \in Addressed, n <= cursor' PROVE handed'[n] > 0
    <3>1. CASE n <= drain[d].from
      BY <1>0, <2>1, <2>3, <3>1 DEF NoGap
    <3>2. CASE n > drain[d].from
      BY <2>2, <2>3, <2>4, <3>2 DEF NoGap
    <3> QED
      BY <1>0, <2>3, <3>1, <3>2
  <2>5. NothingSkipped' /\ cursor' \in {0} \cup Sent'
    BY <1>0, <2>3, <2>4 DEF NothingSkipped
  <2>6. drain'[d].pc = "idle"
    BY <1>5, SetCursorStep
  <2>7. \A e \in Drainer : drain'[e].pc # "idle" => drain'[e] = drain[e]
    BY <2>6
  <2>8. \A e \in Drainer : drain'[e].pc # "idle" => drain'[e].from \in {0} \cup Sent'
    BY <1>0, <2>7 DEF NoGap
  <2>9. \A e \in Drainer : drain'[e].pc \in {"read", "checked"} =>
           /\ drain'[e].batch \subseteq Sent'
           /\ \A n \in Addressed' : \A b \in drain'[e].batch :
                 n > drain'[e].from /\ n <= b => n \in drain'[e].batch
    BY <1>0, <2>7 DEF NoGap
  <2>10. \A e \in Drainer : drain'[e].pc = "checked" =>
            \A n \in Addressed' : n <= drain'[e].from => handed'[n] > 0
    BY <1>0, <2>1, <2>7 DEF NoGap
  <2> QED
    BY <2>5, <2>8, <2>9, <2>10 DEF NoGap
<1>6. ASSUME FailDrain(d) PROVE NoGap'
  BY <1>0, <1>1, <1>6 DEF FailDrain, NoDrain
<1> QED
  BY <1>2, <1>3, <1>4, <1>5, <1>6

\* Did created_at follow the order of the commits, the durable position would skip no
\* message. It does not (the run inbox_late_commit): this is a step towards OneSender.
LEMMA Complete == Spec /\ []StampsInOrder => []NothingSkipped
<1>1. Init => NoGap
  BY DEF Init, NoGap, NothingSkipped, NoDrain, Addressed, Sent
<1>2. BusInv /\ StampsInOrder /\ NoGap /\ [Next]_vars => NoGap'
  <2> SUFFICES ASSUME BusInv, StampsInOrder, NoGap, [Next]_vars PROVE NoGap'
    OBVIOUS
  <2>1. CASE \E p \in Sender : CommitChunk(p)
    BY <2>1, NoGapCommit
  <2>2. CASE UNCHANGED <<chunk, drain, cursor, handed>>
    BY <2>2 DEF NoGap, NothingSkipped, Sent, Addressed
  <2>3. ASSUME NEW d \in Drainer,
               \/ \E from \in Cursor, k \in Limits, c \in BOOLEAN : StartDrain(d, from, k, c)
               \/ ReadInbox(d) \/ CheckCursor(d) \/ SetCursor(d) \/ FailDrain(d)
        PROVE  NoGap'
    <3>1. drain \in [Drainer -> DrainCall]
      BY DEF BusInv, TypeOK
    <3>2. chunk' = chunk /\ \A e \in Drainer \ {d} : drain'[e] = drain[e]
      BY <2>3, <3>1 DEF StartDrain, ReadInbox, CheckCursor, SetCursor, FailDrain
    <3> QED
      BY <2>3, <3>2, NoGapDrain
  <2>4. \/ \E p \in Sender : CommitChunk(p)
        \/ UNCHANGED <<chunk, drain, cursor, handed>>
        \/ \E d \in Drainer :
              \/ \E from \in Cursor, k \in Limits, c \in BOOLEAN : StartDrain(d, from, k, c)
              \/ ReadInbox(d) \/ CheckCursor(d) \/ SetCursor(d) \/ FailDrain(d)
    BY DEF Next, vars, OpenStream, CloseStream, BeginAppend, NumberChunk, FailAppend
  <2> QED
    BY <2>1, <2>2, <2>3, <2>4
<1>3. NoGap => NothingSkipped
  BY DEF NoGap
<1> QED
  BY <1>1, <1>2, <1>3, BusInvHolds, PTL DEF Spec

\* A sender alone stamps and commits its chunks in the same order.
LEMMA OneSenderInOrder ==
    ASSUME \A p, q \in Sender : p = q, BusInv, StampsInOrder, [Next]_vars
    PROVE  StampsInOrder'
<1> SUFFICES ASSUME NEW p \in Sender, append'[p].pc # "idle", NEW n \in Sent'
             PROVE  n < append'[p].at
  BY DEF StampsInOrder
<1>1. CASE append'[p] # append[p]
  <2>1. n \in Sent
    BY <1>1, AppendStep DEF Sent
  <2>2. \/ append'[p].at = clock + 1 /\ clock \in Nat /\ n \in Nat /\ n <= clock
        \/ append[p].pc # "idle" /\ append'[p].at = append[p].at
    BY <1>1, <2>1, AppendStep, InboxAssumption DEF BusInv, PlacesOwned, Sent, Place
  <2> QED
    BY <2>1, <2>2 DEF StampsInOrder
<1>2. CASE append'[p] = append[p]
  <2>1. chunk' = chunk
    <3>1. ASSUME NEW q \in Sender, CommitChunk(q)
          PROVE  FALSE
      <4>1. append'[p].pc = "idle"
        BY <3>1 DEF CommitChunk, NoAppend, BusInv, TypeOK
      <4> QED
        BY <4>1
    <3> QED
      BY <3>1, ChunksStay
  <2> QED
    BY <1>2, <2>1 DEF StampsInOrder, Sent
<1> QED
  BY <1>1, <1>2

\* If one thread does all the appends, nothing it wrote is skipped, for any number of
\* sessions that drain (append_chunk, read_inbox): what skips chunks is the overlap
\* of appends.
THEOREM OneSender ==
    ASSUME \A p, q \in Sender : p = q
    PROVE  Spec => []NothingSkipped
<1>1. Init => StampsInOrder
  BY DEF Init, StampsInOrder, NoAppend
<1>2. BusInv /\ StampsInOrder /\ [Next]_vars => StampsInOrder'
  BY OneSenderInOrder
<1> QED
  BY <1>1, <1>2, Complete, BusInvHolds, PTL DEF Spec
=============================================================================
