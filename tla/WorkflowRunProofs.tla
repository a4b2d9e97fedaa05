------------------------ MODULE WorkflowRunProofs ------------------------
(***************************************************************************)
(* What a workflow run keeps for every workflow, any number of tasks and   *)
(* threads, and any number of crashes: its rows are typed, an unreserved   *)
(* run is at the node of its task, and the run implements WorkflowPath.    *)
(*                                                                         *)
(* The hard part is max_attempts: a thread counts the history, and appends *)
(* to it three transactions later.  The count still holds while the row    *)
(* has the updated_at the thread reserved it with or read again, also when *)
(* somebody else's reservation came and was given back in between          *)
(* (StampInv).                                                             *)
(***************************************************************************)
EXTENDS WorkflowRun, FiniteSetTheorems, SequenceTheorems, TLAPS

Exists(t) == task[t].state # "absent"

\* Tasks that exist have a node, and the outbox speaks of tasks that exist.
LedgerInv ==
    /\ \A t \in Task : Exists(t) => task[t].node \in Node
    /\ \A e \in events : Exists(e.task)

\* The run is at the last node its history took.
RunInv ==
    /\ run.state = "none" => history = <<>>
    /\ run.task # None => Exists(run.task)
    /\ Running =>
        /\ Reserved \/ (run.at \in Node /\ run.task # None /\ task[run.task].node = run.at)
        /\ IF run.task = None THEN history = <<>>
           ELSE history # <<>> /\ history[Len(history)].to = task[run.task].node

\* The run took node n.
Took(n) == \E i \in DOMAIN history : history[i].to = n

\* The row thread h has read while the run was running and not reserved.
RowInv(h) ==
    LET row == handler[h].row IN
    /\ row.at \in Node /\ row.task # None
    /\ Exists(row.task) /\ task[row.task].node = row.at

\* The move of thread h goes to the first node, or along an edge of one taken.
MoveInv(h) ==
    LET me == handler[h] IN
    \/ me.from = Start /\ me.target = First
    \/ Took(me.from) /\ \E c \in Condition : me.target = NextNode(me.from, c)

\* What thread h will finalize is the row it read again when it took a
\* reservation over, or the reservation it made of a row it had read.
HeldInv(h) ==
    LET me == handler[h] IN
    \/ me.held = me.row.at /\ me.mark = me.row.stamp
    \/ me.held = me.new /\ RowInv(h)

\* What thread h knows at each point.
HandlerInv(h) ==
    LET me == handler[h] IN
    /\ me.source # None => Exists(me.source)
    /\ me.pc \in {"merge", "enter"} =>
         /\ ~me.start /\ me.new = None
         /\ IF me.source = None THEN me.from = Start /\ me.cond = "success"
            ELSE me.from = task[me.source].node
    /\ me.pc \in {"reread", "choose"} =>
         /\ ~me.start /\ me.source = None
         /\ Took(me.from) \/ (me.from = Start /\ me.cond = "success")
    /\ me.pc = "reread" => me.new # None
    /\ me.pc = "choose" /\ me.new = None => RowInv(h)
    /\ me.pc \in {"spawn", "finalize"} =>
         me.new \in Task /\ me.target \in Node /\ MoveInv(h)
    /\ me.pc = "spawn" /\ ~me.start => HeldInv(h)
    /\ me.pc = "finalize" => Exists(me.new) /\ task[me.new].node = me.target
    /\ me.pc = "check" => me.new \in Task
    /\ me.pc = "expire" => me.source \in Task

\* Thread h will compare the row with one it has read, with what it holds.
HasRow(h) == handler[h].pc \in {"choose", "spawn"} /\ ~handler[h].start
HasMark(h) == handler[h].pc \in {"spawn", "finalize"} /\ ~handler[h].start

\* What updated_at tells a thread about the row: one value never stands for a
\* reserved and an unreserved row ...
RowTells(h) ==
    HasRow(h) /\ handler[h].row.stamp = run.stamp
        => (Reserved <=> handler[h].row.at \in Task)

RowsAgree(h, k) ==
    HasRow(h) =>
        /\ HasRow(k) /\ handler[h].row.stamp = handler[k].row.stamp
              => (handler[h].row.at \in Task <=> handler[k].row.at \in Task)
        /\ HasMark(k) /\ handler[h].row.stamp = handler[k].mark
              => (handler[h].row.at \in Task <=> handler[k].held \in Task)

\* ... while the row has the value h holds, the attempts h counted are still
\* all there are ...
MarkTells(h) ==
    HasMark(h) /\ handler[h].mark = run.stamp =>
        /\ Reserved <=> handler[h].held \in Task
        /\ Visits(handler[h].target) < MaxAttempts[handler[h].target]

\* ... and they will be if h gives the row back with the value k holds.
GivesBack(h, k) ==
    /\ HasRow(h) /\ HasMark(h) /\ handler[h].mark = run.stamp
    /\ HasMark(k) /\ handler[h].row.stamp = handler[k].mark
    => Visits(handler[k].target) < MaxAttempts[handler[k].target]

StampInv ==
    /\ \A h \in Handler : RowTells(h)
    /\ \A h, k \in Handler : RowsAgree(h, k)
    /\ \A h \in Handler : MarkTells(h)
    /\ \A h, k \in Handler : GivesBack(h, k)

Inv ==
    /\ TypeOK
    /\ LedgerInv
    /\ RunInv
    /\ \A h \in Handler : HandlerInv(h)
    /\ StampInv

\* A task that exists goes on existing, at the node it was made for.
Stable ==
    \A t \in Task : Exists(t) => task'[t].state # "absent" /\ task'[t].node = task[t].node

\* The nodes taken stay taken.
Kept == \A n : Took(n) => Took(n)'

-----------------------------------------------------------------------------
(* Frame lemmas *)

LEMMA FreshUnused ==
    ASSUME NEW S, NEW U, NEW x \in Fresh(S, U)
    PROVE  x \in S /\ x \notin U
  BY DEF Fresh

LEMMA SameKept == history' = history => Kept
  BY DEF Kept, Took

\* A thread that does not move knows what it knew.
LEMMA HandlerFrame ==
    ASSUME TypeOK, Stable, Kept, NEW k \in Handler, handler'[k] = handler[k], HandlerInv(k)
    PROVE  HandlerInv(k)'
<1> DEFINE me == handler[k]
<1>1. me \in HandlerRow
  BY DEF TypeOK
<1>2. me.source \in Task \cup {None} /\ me.row.task \in Task \cup {None}
  BY <1>1 DEF HandlerRow, RunRow
<1>3. \A t \in Task : Exists(t) => Exists(t)' /\ task'[t].node = task[t].node
  BY DEF Stable, Exists
<1>4. RowInv(k) => RowInv(k)'
  BY <1>2, <1>3 DEF RowInv
<1>5. MoveInv(k) => MoveInv(k)'
  BY DEF MoveInv, NextNode, First, Kept
<1>6. HeldInv(k) => HeldInv(k)'
  BY <1>4 DEF HeldInv
<1>7. Took(me.from) => Took(me.from)'
  BY DEF Kept
<1> QED
  BY <1>2, <1>3, <1>4, <1>5, <1>6, <1>7 DEF HandlerInv

LEMMA HandlersKeep ==
    ASSUME TypeOK, Stable, Kept, NEW h \in Handler, \A k \in Handler : HandlerInv(k),
           \A k \in Handler \ {h} : handler'[k] = handler[k],
           HandlerInv(h)'
    PROVE  (\A k \in Handler : HandlerInv(k))'
  BY HandlerFrame

\* The rows and marks threads hold after a step are among those held before.
HeldBefore ==
    \A k \in Handler :
        /\ HasRow(k)' => /\ HasRow(k)
                         /\ handler'[k].row.stamp = handler[k].row.stamp
                         /\ handler'[k].row.at = handler[k].row.at
        /\ HasMark(k)' => /\ HasMark(k)
                          /\ handler'[k].mark = handler[k].mark
                          /\ handler'[k].held = handler[k].held
                          /\ handler'[k].target = handler[k].target

\* Steps that leave the row's place and updated_at alone.
LEMMA StampsQuiet ==
    ASSUME StampInv, HeldBefore, run'.stamp = run.stamp, run'.at = run.at, history' = history
    PROVE  StampInv'
<1>1. (\A h \in Handler : RowTells(h))' /\ (\A h, k \in Handler : RowsAgree(h, k))'
  BY DEF StampInv, RowTells, RowsAgree, HeldBefore, Reserved
<1>2. (\A h \in Handler : MarkTells(h))' /\ (\A h, k \in Handler : GivesBack(h, k))'
  BY DEF StampInv, MarkTells, GivesBack, HeldBefore, Reserved, Visits
<1> QED
  BY <1>1, <1>2 DEF StampInv

\* Steps that write the row with a new updated_at.
LEMMA StampsFresh ==
    ASSUME StampInv, HeldBefore, NEW s \in Fresh(Stamp, UsedStamp), run'.stamp = s
    PROVE  StampInv'
<1>1. \A k \in Handler : handler[k].row.stamp # s /\ handler[k].mark # s
  BY FreshUnused DEF UsedStamp
<1> QED
  BY <1>1 DEF StampInv, RowTells, RowsAgree, MarkTells, GivesBack, HeldBefore

\* Only None is neither a task nor a node.
LEMMA Kinds ==
    /\ None \notin Task /\ None \notin Node /\ None \notin Stamp
    /\ Start \notin Task /\ Start \notin Node /\ Start # None
    /\ \A n \in Node : n \notin Task
    /\ First \in Node
  BY WorkflowAssumption DEF First

LEMMA NextNodeType ==
    ASSUME NEW n \in Node \cup {Start}, NEW c \in Condition
    PROVE  NextNode(n, c) \in Node \cup {None}
  BY WorkflowAssumption DEF NextNode

LEMMA FirstNode == NextNode(Start, "success") = First
  BY WorkflowAssumption DEF NextNode, First

LEMMA IdleTyped == Idle \in HandlerRow /\ NoRow \in RunRow
  BY DEF Idle, NoRow, HandlerRow, RunRow, RunState, Condition, Pc

\* A thread that was idle takes up an outcome.
LEMMA IdleFrom ==
    ASSUME NEW b \in BOOLEAN, NEW n \in Node \cup {Start}, NEW c \in Condition,
           NEW t \in Task \cup {None}, NEW e \in Event \cup {None}
    PROVE  [Idle EXCEPT !.pc = IF b THEN "merge" ELSE "enter", !.from = n, !.cond = c,
                        !.source = t, !.event = e] \in HandlerRow
<1>1. ASSUME NEW p \in Pc
      PROVE  [Idle EXCEPT !.pc = p, !.from = n, !.cond = c, !.source = t, !.event = e]
                \in HandlerRow
  BY ZenonT(60), IdleTyped DEF HandlerRow
<1>2. (IF b THEN "merge" ELSE "enter") \in Pc
  BY DEF Pc
<1> QED
  BY <1>1, <1>2

LEMMA InvInit == Init => Inv
<1> SUFFICES ASSUME Init PROVE Inv
  OBVIOUS
<1>1. TypeOK
  BY IdleTyped, WorkflowAssumption DEF Init, TypeOK, TaskRow, Move, Outcome
<1>2. LedgerInv /\ RunInv
  BY DEF Init, LedgerInv, RunInv, Exists, NoRow, Running
<1>3. (\A h \in Handler : HandlerInv(h)) /\ StampInv
  BY DEF Init, HandlerInv, StampInv, RowTells, RowsAgree, MarkTells, GivesBack, HasRow,
         HasMark, Idle
<1> QED
  BY <1>1, <1>2, <1>3 DEF Inv

-----------------------------------------------------------------------------
(* The ledger *)

\* A step of the ledger that only moves the state or the verdict of a task.
LEMMA LedgerStep ==
    ASSUME Inv, NEW t \in Task, Exists(t),
           UNCHANGED <<run, history, handler>>,
           NEW row \in TaskRow, row.state # "absent", row.node = task[t].node,
           task' = [task EXCEPT ![t] = row],
           NEW e \in Event, e.task = t, events' \subseteq events \cup {e},
           incidents' \in 0..MaxIncidents
    PROVE  Inv'
<1>1. TypeOK'
  BY DEF Inv, TypeOK
<1>2. Stable
  BY DEF Inv, TypeOK, Stable, Exists
<1>3. LedgerInv'
  BY DEF Inv, TypeOK, LedgerInv, Exists, Event
<1>4. RunInv'
  BY <1>2 DEF Inv, TypeOK, RunRow, RunInv, Running, Reserved, Exists, Stable
<1>5. (\A k \in Handler : HandlerInv(k))'
  BY <1>2, SameKept, HandlerFrame DEF Inv
<1>6. StampInv'
  BY StampsQuiet DEF Inv, HeldBefore, HasRow, HasMark
<1> QED
  BY <1>1, <1>3, <1>4, <1>5, <1>6 DEF Inv

LEMMA TaskStep ==
    ASSUME Inv, NEW t \in Task,
           TaskEnds(t) \/ Decide(t) \/ ForceComplete(t) \/ LeaseExpires(t) \/ Reopen(t)
    PROVE  Inv'
<1>1. task[t] \in TaskRow /\ incidents \in 0..MaxIncidents /\ MaxIncidents \in Nat
  BY WorkflowAssumption DEF Inv, TypeOK
<1>2. [task |-> t, to |-> "failed"] \in Event
  BY DEF Event, Outcome
<1>3. CASE TaskEnds(t)
  <2>1. PICK outcome \in Ends[task[t].node] : EndsTask(t, outcome, events)
    BY <1>3 DEF TaskEnds
  <2>2. Exists(t) /\ UNCHANGED <<run, history, handler, incidents>>
    BY <1>3 DEF TaskEnds, Exists, Cancellable
  <2>3. outcome \in Outcome
    BY <2>1, <2>2, WorkflowAssumption DEF Inv, LedgerInv, Outcome
  <2>4. [task[t] EXCEPT !.state = outcome] \in TaskRow
    BY <1>1, <2>3 DEF TaskRow
  <2>5. [task |-> t, to |-> outcome] \in Event
    BY <2>3 DEF Event
  <2>6. task' = [task EXCEPT ![t] = [task[t] EXCEPT !.state = outcome]]
    BY <2>1 DEF EndsTask
  <2>7. events' = events \cup {[task |-> t, to |-> outcome]}
    BY <2>1 DEF EndsTask
  <2>8. [task[t] EXCEPT !.state = outcome].state # "absent"
        /\ [task[t] EXCEPT !.state = outcome].node = task[t].node
    BY <1>1, <2>3 DEF TaskRow, Outcome
  <2> QED
    BY <1>1, <2>2, <2>4, <2>5, <2>6, <2>7, <2>8, LedgerStep
<1>4. CASE Decide(t)
  <2>1. PICK v \in {"approved", "rejected"} : task' = [task EXCEPT ![t].verdict = v]
    BY <1>4 DEF Decide
  <2>2. Exists(t) /\ UNCHANGED <<run, history, handler, incidents, events>>
    BY <1>4 DEF Decide, Exists
  <2>3. /\ [task[t] EXCEPT !.verdict = v] \in TaskRow
        /\ [task[t] EXCEPT !.verdict = v].state # "absent"
        /\ [task[t] EXCEPT !.verdict = v].node = task[t].node
    BY <1>1, <2>1, <2>2 DEF TaskRow, Exists
  <2>4. task' = [task EXCEPT ![t] = [task[t] EXCEPT !.verdict = v]]
    BY <2>1
  <2> QED
    BY <1>1, <1>2, <2>2, <2>3, <2>4, LedgerStep
<1>5. CASE ForceComplete(t) \/ LeaseExpires(t) \/ Reopen(t)
  <2>1. PICK st \in {"live", "completed", "failed"} : task' = [task EXCEPT ![t].state = st]
    BY <1>5 DEF ForceComplete, LeaseExpires, Reopen
  <2>2. Exists(t) /\ UNCHANGED <<run, history, handler, events>>
    BY <1>5 DEF ForceComplete, LeaseExpires, Reopen, Exists
  <2>3. /\ [task[t] EXCEPT !.state = st] \in TaskRow
        /\ [task[t] EXCEPT !.state = st].state # "absent"
        /\ [task[t] EXCEPT !.state = st].node = task[t].node
    BY <1>1, <2>1 DEF TaskRow, Outcome
  <2>4. task' = [task EXCEPT ![t] = [task[t] EXCEPT !.state = st]]
    BY <2>1
  <2>5. incidents' \in 0..MaxIncidents
    BY <1>1, <1>5 DEF ForceComplete, LeaseExpires, Reopen, Incident
  <2> QED
    BY <1>2, <2>2, <2>3, <2>4, <2>5, LedgerStep
<1> QED
  BY <1>3, <1>4, <1>5

\* Cancelling a task keeps the ledger in order.
LEMMA EndsKeeps ==
    ASSUME TypeOK, LedgerInv, NEW t \in Task, task[t].state \in Cancellable,
           NEW pending \in SUBSET events, EndsTask(t, "cancelled", pending)
    PROVE  /\ task' \in [Task -> TaskRow] /\ events' \subseteq Event
           /\ Stable /\ LedgerInv'
<1>1. task' \in [Task -> TaskRow] /\ events' \subseteq Event
  <2>1. [task[t] EXCEPT !.state = "cancelled"] \in TaskRow
    BY DEF TypeOK, TaskRow, Outcome
  <2>2. task' = [task EXCEPT ![t] = [task[t] EXCEPT !.state = "cancelled"]]
    BY DEF EndsTask
  <2>3. [task |-> t, to |-> "cancelled"] \in Event
    BY DEF Event, Outcome
  <2>4. events' = pending \cup {[task |-> t, to |-> "cancelled"]}
    BY DEF EndsTask
  <2> QED
    BY <2>1, <2>2, <2>3, <2>4 DEF TypeOK
<1>2. /\ task'[t].state = "cancelled" /\ task'[t].node = task[t].node
      /\ \A x \in Task \ {t} : task'[x] = task[x]
  BY DEF TypeOK, EndsTask, TaskRow
<1>3. Stable
  BY <1>2 DEF Stable, Exists
<1>4. Exists(t)
  BY DEF Exists, Cancellable
<1>5. \A x \in Task : task'[x].state # "absent" => task'[x].node \in Node
  BY <1>2, <1>4 DEF LedgerInv, Exists
<1>6. \A e \in events' : task'[e.task].state # "absent"
  BY <1>2 DEF EndsTask, LedgerInv, Exists, TypeOK, Event
<1> QED
  BY <1>1, <1>3, <1>5, <1>6 DEF LedgerInv, Exists

LEMMA AgeStep == Inv /\ Age => Inv'
<1> SUFFICES ASSUME Inv, Age PROVE Inv'
  OBVIOUS
<1>1. TypeOK'
  BY DEF Inv, TypeOK, Age, RunRow
<1>2. run' = [run EXCEPT !.due = TRUE] /\ UNCHANGED <<task, history, events, handler>>
  BY DEF Age
<1>3. run'.state = run.state /\ run'.at = run.at /\ run'.task = run.task
      /\ run'.stamp = run.stamp
  BY <1>2 DEF Inv, TypeOK, RunRow
<1>4. LedgerInv' /\ RunInv'
  BY <1>2, <1>3 DEF Inv, LedgerInv, RunInv, Running, Reserved, Exists
<1>5. (\A k \in Handler : HandlerInv(k))'
  BY <1>2, SameKept, HandlerFrame DEF Inv, Stable, Exists
<1>6. StampInv'
  BY <1>2, <1>3, StampsQuiet DEF Inv, HeldBefore, HasRow, HasMark
<1> QED
  BY <1>1, <1>4, <1>5, <1>6 DEF Inv

\* cancel_run ends the run, so that nothing is claimed of its place.
LEMMA CancelStep == Inv /\ CancelRun => Inv'
<1> SUFFICES ASSUME Inv, CancelRun PROVE Inv'
  OBVIOUS
<1>1. PICK s \in Fresh(Stamp, UsedStamp) :
         run' = [run EXCEPT !.state = "cancelled", !.stamp = s, !.due = FALSE]
  BY DEF CancelRun
<1>2. s \in Stamp /\ run \in RunRow /\ UNCHANGED <<history, handler>>
  BY FreshUnused DEF Inv, TypeOK, CancelRun
<1>3. run' \in RunRow /\ run'.state = "cancelled" /\ run'.task = run.task /\ run'.stamp = s
  BY <1>1, <1>2 DEF RunRow, RunState
<1>4. incidents' \in 0..MaxIncidents
  BY WorkflowAssumption DEF Inv, TypeOK, CancelRun, Incident
<1>5. /\ task' \in [Task -> TaskRow] /\ events' \subseteq Event
      /\ Stable /\ LedgerInv'
      /\ run.task # None => Exists(run.task)'
  <2>1. CASE run.task # None /\ task[run.task].state \in Cancellable
    <3>1. run.task \in Task /\ EndsTask(run.task, "cancelled", events)
      BY <1>2, <2>1 DEF RunRow, CancelRun
    <3>2. Exists(run.task)
      BY <2>1 DEF Exists, Cancellable
    <3>3. events \in SUBSET events
      OBVIOUS
    <3>4. /\ task' \in [Task -> TaskRow] /\ events' \subseteq Event
          /\ Stable /\ LedgerInv'
      BY <2>1, <3>1, <3>3, EndsKeeps DEF Inv
    <3> QED
      BY <1>3, <3>1, <3>2, <3>4 DEF Stable, Exists
  <2>2. CASE ~(run.task # None /\ task[run.task].state \in Cancellable)
    BY <1>3, <2>2 DEF CancelRun, Inv, TypeOK, LedgerInv, RunInv, Stable, Exists
  <2> QED
    BY <2>1, <2>2
<1>6. TypeOK'
  BY <1>2, <1>3, <1>4, <1>5 DEF Inv, TypeOK
<1>7. RunInv'
  BY <1>3, <1>5 DEF RunInv, Running
<1>8. (\A k \in Handler : HandlerInv(k))'
  BY <1>2, <1>5, SameKept, HandlerFrame DEF Inv
<1>9. StampInv'
  BY <1>2, <1>3, StampsFresh DEF Inv, HeldBefore, HasRow, HasMark
<1> QED
  BY <1>5, <1>6, <1>7, <1>8, <1>9 DEF Inv

-----------------------------------------------------------------------------
(* The threads *)

\* A step of thread h that leaves the row's place, the tasks and the history alone.
LEMMA PlaceStep ==
    ASSUME Inv, NEW h \in Handler, NEW row \in HandlerRow,
           handler' = [handler EXCEPT ![h] = row],
           run' \in RunRow, run'.state = run.state, run'.at = run.at,
           run'.task = run.task, run'.stamp = run.stamp,
           task' = task, history' = history, events' \subseteq events,
           incidents' \in 0..MaxIncidents,
           HandlerInv(h)', HeldBefore
    PROVE  Inv'
<1>1. TypeOK'
  BY DEF Inv, TypeOK
<1>2. LedgerInv' /\ RunInv'
  BY DEF Inv, LedgerInv, RunInv, Exists, Running, Reserved
<1>3. (\A k \in Handler : HandlerInv(k))'
  BY SameKept, HandlersKeep DEF Inv, TypeOK, Stable, Exists
<1>4. StampInv'
  BY StampsQuiet DEF Inv
<1> QED
  BY <1>1, <1>2, <1>3, <1>4 DEF Inv

LEMMA QuietStep ==
    ASSUME Inv, NEW h \in Handler, NEW row \in HandlerRow,
           handler' = [handler EXCEPT ![h] = row],
           run' = run, task' = task, history' = history, events' \subseteq events,
           incidents' \in 0..MaxIncidents,
           HandlerInv(h)', HeldBefore
    PROVE  Inv'
<1>1. run' \in RunRow
  BY DEF Inv, TypeOK
<1> QED
  BY <1>1, PlaceStep

\* A thread that ends knows nothing.
LEMMA IdleInv ==
    ASSUME NEW h \in Handler, handler'[h] = Idle
    PROVE  HandlerInv(h)' /\ ~HasRow(h)' /\ ~HasMark(h)'
  BY DEF HandlerInv, HasRow, HasMark, Idle

\* Threads other than h hold what they held.
LEMMA HeldByOthers ==
    ASSUME NEW h \in Handler, \A k \in Handler \ {h} : handler'[k] = handler[k],
           HasRow(h)' => /\ HasRow(h) /\ handler'[h].row.stamp = handler[h].row.stamp
                         /\ handler'[h].row.at = handler[h].row.at,
           HasMark(h)' => /\ HasMark(h) /\ handler'[h].mark = handler[h].mark
                          /\ handler'[h].held = handler[h].held
                          /\ handler'[h].target = handler[h].target
    PROVE  HeldBefore
  BY DEF HeldBefore, HasRow, HasMark

LEMMA DoneQuiet ==
    ASSUME Inv, NEW h \in Handler, handler' = [handler EXCEPT ![h] = Idle],
           events' \subseteq events,
           run' = run, task' = task, history' = history, incidents' \in 0..MaxIncidents
    PROVE  Inv'
<1>1. handler'[h] = Idle /\ \A k \in Handler \ {h} : handler'[k] = handler[k]
  BY DEF Inv, TypeOK
<1>2. HandlerInv(h)' /\ HeldBefore
  BY <1>1, IdleInv, HeldByOthers
<1> QED
  BY <1>2, IdleTyped, QuietStep

LEMMA CrashStep ==
    ASSUME Inv, NEW h \in Handler, Crash(h)
    PROVE  Inv'
<1>1. incidents' \in 0..MaxIncidents
  BY WorkflowAssumption DEF Inv, TypeOK, Crash, Incident
<1> QED
  BY <1>1, DoneQuiet DEF Crash, Goto

\* The row a thread gets with the outcome of a task.
LEMMA ConditionType ==
    ASSUME TypeOK, NEW t \in Task, NEW st \in Outcome \cup {"live", "absent"}
    PROVE  ConditionOf(t, st) \in Condition
<1>1. task[t].verdict \in {"none", "approved", "rejected"}
  BY DEF TypeOK, TaskRow
<1> QED
  BY <1>1 DEF ConditionOf, Condition

LEMMA DeliverStep ==
    ASSUME Inv, NEW h \in Handler, NEW e \in events, Deliver(h, e)
    PROVE  Inv'
<1>1. /\ Completed(h, e.task, e.to, e) /\ UNCHANGED <<run, task, history, incidents>>
      /\ handler[h] = Idle
  BY DEF Deliver
<1>2. e \in Event /\ e.task \in Task /\ e.to \in Outcome /\ Exists(e.task)
      /\ task[e.task].node \in Node
  BY DEF Inv, TypeOK, LedgerInv, Event
<1>3. CASE ~Running
  <2>1. handler' = handler /\ events' \subseteq events
    BY <1>1, <1>3 DEF Completed
  <2>2. handler' = [handler EXCEPT ![h] = Idle]
    BY <1>1, <2>1 DEF Inv, TypeOK
  <2> QED
    BY <1>1, <2>1, <2>2, DoneQuiet DEF Inv, TypeOK
<1>4. CASE Running
  <2> DEFINE row == [Idle EXCEPT !.pc = IF e.to = "completed" /\ task[e.task].node \in Plan
                                        THEN "merge" ELSE "enter",
                                 !.from = task[e.task].node,
                                 !.cond = ConditionOf(e.task, e.to),
                                 !.source = e.task, !.event = e]
  <2>1. handler' = [handler EXCEPT ![h] = row] /\ events' = events
    BY <1>1, <1>4 DEF Completed
  <2>2. row \in HandlerRow
    <3>1. ConditionOf(e.task, e.to) \in Condition
      BY <1>2, ConditionType DEF Inv
    <3>2. e \in Event \cup {None} /\ e.task \in Task \cup {None}
          /\ task[e.task].node \in Node \cup {Start}
      BY <1>2
    <3> QED
      BY ZenonT(60), <3>1, <3>2, IdleFrom
  <2>3. handler'[h] = row /\ \A k \in Handler \ {h} : handler'[k] = handler[k]
    BY <2>1 DEF Inv, TypeOK
  <2>4. HandlerInv(h)' /\ ~HasRow(h)' /\ ~HasMark(h)'
    BY <1>1, <1>2, <2>3, Kinds DEF HandlerInv, HasRow, HasMark, Idle, Exists
  <2> QED
    BY <1>1, <2>1, <2>2, <2>3, <2>4, HeldByOthers, QuietStep DEF Inv, TypeOK
<1> QED
  BY <1>3, <1>4

\* A step of thread h that may change tasks, but not the run's place.
LEMMA TasksStep ==
    ASSUME Inv, NEW h \in Handler, NEW row \in HandlerRow,
           handler' = [handler EXCEPT ![h] = row],
           run' = run, history' = history, incidents' = incidents,
           task' \in [Task -> TaskRow], events' \subseteq Event, Stable, LedgerInv',
           HandlerInv(h)', HeldBefore
    PROVE  Inv'
<1>1. TypeOK'
  BY DEF Inv, TypeOK
<1>2. RunInv'
  BY DEF Inv, TypeOK, RunRow, RunInv, Stable, Exists, Running, Reserved
<1>3. \A k \in Handler \ {h} : handler'[k] = handler[k]
  BY DEF Inv, TypeOK
<1>4. (\A k \in Handler : HandlerInv(k))'
  BY <1>3, SameKept, HandlersKeep DEF Inv
<1>5. StampInv'
  BY StampsQuiet DEF Inv
<1> QED
  BY <1>1, <1>2, <1>4, <1>5 DEF Inv

LEMMA PublishStep ==
    ASSUME Inv, NEW h \in Handler, NEW t \in Task, Publish(h, t)
    PROVE  Inv'
<1>1. /\ Completed(h, t, "completed", None) /\ UNCHANGED <<run, history, incidents>>
      /\ handler[h] = Idle /\ Running /\ Exists(t)
      /\ task' = [task EXCEPT ![t].state = "completed"]
  BY DEF Publish, Exists
<1>2. task[t] \in TaskRow /\ task[t].node \in Node
  BY <1>1 DEF Inv, TypeOK, LedgerInv
<1>3. task' \in [Task -> TaskRow] /\ Stable
  BY <1>1 DEF Inv, TypeOK, TaskRow, Outcome, Stable, Exists
<1> DEFINE row == [Idle EXCEPT !.pc = IF "completed" = "completed" /\ task[t].node \in Plan
                                      THEN "merge" ELSE "enter",
                               !.from = task[t].node,
                               !.cond = ConditionOf(t, "completed"),
                               !.source = t, !.event = None]
<1>4. handler' = [handler EXCEPT ![h] = row] /\ events' = events
  BY <1>1 DEF Completed
<1>5. row \in HandlerRow
  <2>1. ConditionOf(t, "completed") \in Condition
    BY ConditionType DEF Inv, Outcome
  <2>2. task[t].node \in Node \cup {Start} /\ t \in Task \cup {None} /\ None \in Event \cup {None}
    BY <1>2
  <2> QED
    BY <2>1, <2>2, IdleFrom
<1>6. handler'[h] = row /\ \A k \in Handler \ {h} : handler'[k] = handler[k]
  BY <1>4 DEF Inv, TypeOK
<1>7. Exists(t)' /\ task'[t].node = task[t].node
  BY <1>1, <1>3 DEF Stable, Exists
<1>8. HandlerInv(h)' /\ ~HasRow(h)' /\ ~HasMark(h)'
  BY <1>2, <1>6, <1>7, Kinds DEF HandlerInv, HasRow, HasMark, Idle
<1>9. LedgerInv'
  <2>1. \A x \in Task : task'[x].node = task[x].node
                        /\ (task'[x].state # "absent" <=> task[x].state # "absent")
    BY <1>1 DEF Inv, TypeOK, TaskRow, Exists
  <2> QED
    BY <1>4, <2>1 DEF Inv, TypeOK, LedgerInv, Event, Exists
<1> QED
  BY <1>1, <1>3, <1>4, <1>5, <1>6, <1>8, <1>9, HeldByOthers, TasksStep DEF Inv, TypeOK

\* A step of thread h that writes the row with a new updated_at.
LEMMA WriteStep ==
    ASSUME Inv, NEW h \in Handler, NEW row \in HandlerRow,
           handler' = [handler EXCEPT ![h] = row],
           NEW s \in Fresh(Stamp, UsedStamp), run'.stamp = s, run' \in RunRow,
           history' \in Seq(Move), Kept, events' \subseteq events,
           incidents' \in 0..MaxIncidents,
           task' = task, RunInv', HandlerInv(h)', HeldBefore
    PROVE  Inv'
<1>1. TypeOK'
  BY DEF Inv, TypeOK
<1>2. LedgerInv'
  BY DEF Inv, LedgerInv, Exists
<1>3. (\A k \in Handler : HandlerInv(k))'
  BY HandlersKeep DEF Inv, TypeOK, Stable, Exists
<1>4. StampInv'
  BY StampsFresh DEF Inv
<1> QED
  BY <1>1, <1>2, <1>3, <1>4 DEF Inv

LEMMA MergeStep ==
    ASSUME Inv, NEW h \in Handler, MergePlan(h)
    PROVE  Inv'
<1> DEFINE me == handler[h]
           row == [me EXCEPT !.pc = "enter"]
<1>1. me \in HandlerRow /\ me.pc = "merge" /\ UNCHANGED <<task, history, incidents, events>>
      /\ handler' = [handler EXCEPT ![h] = row] /\ HandlerInv(h)
  BY DEF Inv, TypeOK, MergePlan, Goto
<1>2. row \in HandlerRow
  BY <1>1 DEF HandlerRow, Pc
<1>3. handler'[h] = row /\ \A k \in Handler \ {h} : handler'[k] = handler[k]
  BY <1>1 DEF Inv, TypeOK
<1>4. HandlerInv(h)' /\ ~HasRow(h)' /\ ~HasMark(h)'
  BY <1>1, <1>3 DEF HandlerRow, HandlerInv, HasRow, HasMark, Exists
<1>5. HeldBefore
  BY <1>3, <1>4, HeldByOthers
<1>6. CASE UNCHANGED run
  BY <1>1, <1>2, <1>4, <1>5, <1>6, QuietStep DEF Inv, TypeOK
<1>7. CASE \E s \in Fresh(Stamp, UsedStamp) :
              run' = [run EXCEPT !.stamp = s, !.due = run.due /\ ~Reserved]
  <2>1. PICK s \in Fresh(Stamp, UsedStamp) :
              run' = [run EXCEPT !.stamp = s, !.due = run.due /\ ~Reserved]
    BY <1>7
  <2>2. s \in Stamp /\ run \in RunRow /\ (run.due /\ ~Reserved) \in BOOLEAN
    BY FreshUnused DEF Inv, TypeOK
  <2>3. run' \in RunRow /\ run'.stamp = s /\ run'.state = run.state
        /\ run'.at = run.at /\ run'.task = run.task
    BY <2>1, <2>2 DEF RunRow
  <2>4. RunInv'
    BY <1>1, <2>3 DEF Inv, RunInv, Running, Reserved, Exists
  <2> QED
    BY <1>1, <1>2, <1>4, <1>5, <2>3, <2>4, SameKept, WriteStep DEF Inv, TypeOK
<1> QED
  BY <1>6, <1>7 DEF MergePlan

\* Thread h has read the row.
LEMMA ReadStamps ==
    ASSUME StampInv, NEW h \in Handler, \A k \in Handler \ {h} : handler'[k] = handler[k],
           handler'[h].row = run, ~HasMark(h)', run' = run, history' = history
    PROVE  StampInv'
<1>1. \A k \in Handler \ {h} : (HasRow(k)' <=> HasRow(k)) /\ (HasMark(k)' <=> HasMark(k))
  BY DEF HasRow, HasMark
<1>2. \A k \in Handler : RowTells(k)'
  BY <1>1 DEF StampInv, RowTells, Reserved
<1>3. \A j, k \in Handler : RowsAgree(j, k)'
  <2>1. \A k \in Handler \ {h} : RowsAgree(h, k)' /\ RowsAgree(k, h)'
    BY <1>1 DEF StampInv, RowTells, MarkTells, RowsAgree, Reserved
  <2>2. RowsAgree(h, h)'
    BY DEF RowsAgree
  <2>3. \A j, k \in Handler \ {h} : RowsAgree(j, k)'
    BY <1>1 DEF StampInv, RowsAgree
  <2> QED
    BY <2>1, <2>2, <2>3
<1>4. \A k \in Handler : MarkTells(k)'
  BY <1>1 DEF StampInv, MarkTells, Reserved, Visits
<1>5. \A j, k \in Handler : GivesBack(j, k)'
  BY <1>1 DEF StampInv, GivesBack, Visits
<1> QED
  BY <1>2, <1>3, <1>4, <1>5 DEF StampInv

\* The node of the task the run is at was taken.
LEMMA TookRun ==
    ASSUME Inv, Running, run.task # None
    PROVE  Took(task[run.task].node)
<1>1. history \in Seq(Move) /\ history # <<>> /\ history[Len(history)].to = task[run.task].node
  BY DEF Inv, TypeOK, RunInv
<1>2. Len(history) \in DOMAIN history
  BY <1>1
<1> QED
  BY <1>1, <1>2 DEF Took

\* The thread reads the row, which it will advance.
LEMMA ReadStep ==
    ASSUME Inv, NEW h \in Handler, NEW row \in HandlerRow, Goto(h, row),
           row.pc = "choose", row.row = run, row.source = None, ~row.start,
           UNCHANGED <<run, task, history, incidents>>,
           Took(row.from) \/ (row.from = Start /\ row.cond = "success"),
           row.new = None => Running /\ ~Reserved
    PROVE  Inv'
<1>1. /\ handler' = [handler EXCEPT ![h] = row] /\ handler'[h] = row /\ events' = events
      /\ \A k \in Handler \ {h} : handler'[k] = handler[k]
  BY DEF Goto, Inv, TypeOK
<1>2. TypeOK' /\ LedgerInv' /\ RunInv'
  BY <1>1 DEF Inv, TypeOK, LedgerInv, RunInv, Running, Reserved, Exists
<1>3. HandlerInv(h)' /\ ~HasMark(h)'
  <2>1. Took(row.from)' \/ (row.from = Start /\ row.cond = "success")
    BY DEF Took
  <2>2. row.new = None => RowInv(h)'
    BY <1>1 DEF RowInv, Inv, RunInv, Exists, Reserved
  <2> QED
    BY <1>1, <2>1, <2>2 DEF HandlerInv, HasMark
<1>4. (\A k \in Handler : HandlerInv(k))'
  BY <1>1, <1>3, SameKept, HandlersKeep DEF Inv, Stable, Exists
<1>5. StampInv'
  BY <1>1, <1>3, ReadStamps DEF Inv
<1> QED
  BY <1>2, <1>4, <1>5 DEF Inv

LEMMA EnterStep ==
    ASSUME Inv, NEW h \in Handler, Enter(h)
    PROVE  Inv'
<1> DEFINE me == handler[h]
<1>1. me \in HandlerRow /\ me.pc = "enter" /\ UNCHANGED <<task, history, incidents>>
      /\ HandlerInv(h) /\ run \in RunRow
  BY DEF Inv, TypeOK, Enter
<1>2. CASE Ignored(me) /\ Done(h) /\ UNCHANGED run
  BY <1>1, <1>2, DoneQuiet DEF Done, Inv, TypeOK
<1>3. ASSUME ~Ignored(me)
      PROVE  /\ Running /\ ~me.start /\ me.new = None
             /\ Took(me.from) \/ (me.from = Start /\ me.cond = "success")
  <2>1. Running /\ (me.source # None => run.task = me.source)
    BY <1>3 DEF Ignored
  <2>2. ~me.start /\ me.new = None
        /\ IF me.source = None THEN me.from = Start /\ me.cond = "success"
           ELSE me.from = task[me.source].node
    BY <1>1 DEF HandlerInv
  <2> QED
    BY <2>1, <2>2, TookRun
<1>4. CASE /\ ~Ignored(me) /\ Reserved
           /\ \E s \in Fresh(Stamp, UsedStamp) : run' = [run EXCEPT !.stamp = s, !.due = FALSE]
           /\ Goto(h, [me EXCEPT !.pc = "reread", !.source = None, !.new = run.at])
  <2> DEFINE row == [me EXCEPT !.pc = "reread", !.source = None, !.new = run.at]
  <2>1. PICK s \in Fresh(Stamp, UsedStamp) : run' = [run EXCEPT !.stamp = s, !.due = FALSE]
    BY <1>4
  <2>2. run' \in RunRow /\ run'.state = run.state /\ run'.at = run.at /\ run'.task = run.task
        /\ run'.stamp = s
    BY <1>1, <2>1, FreshUnused DEF RunRow
  <2>3. row \in HandlerRow /\ run.at \in Task
    BY <1>1, <1>4 DEF HandlerRow, Pc, Reserved
  <2>4. /\ row.pc = "reread" /\ row.source = None /\ row.new = run.at /\ row.from = me.from
        /\ row.cond = me.cond /\ row.start = me.start
    BY <1>1 DEF HandlerRow
  <2>5. /\ handler' = [handler EXCEPT ![h] = row] /\ handler'[h] = row /\ events' = events
        /\ \A k \in Handler \ {h} : handler'[k] = handler[k]
    BY <1>4 DEF Goto, Inv, TypeOK
  <2>6. HandlerInv(h)' /\ ~HasRow(h)' /\ ~HasMark(h)'
    <3>1. ~me.start /\ (Took(me.from)' \/ (me.from = Start /\ me.cond = "success"))
      BY <1>1, <1>3, <1>4, <2>4, <2>5 DEF Took
    <3> QED
      BY <2>3, <2>4, <2>5, <3>1, Kinds DEF HandlerInv, HasRow, HasMark
  <2>7. RunInv'
    BY <1>1, <2>2 DEF Inv, RunInv, Running, Reserved, Exists
  <2> QED
    BY <1>1, <2>2, <2>3, <2>5, <2>6, <2>7, SameKept, HeldByOthers, WriteStep DEF Inv, TypeOK
<1>5. CASE /\ ~Ignored(me) /\ ~Reserved /\ UNCHANGED run
           /\ Goto(h, [me EXCEPT !.pc = "choose", !.source = None, !.row = run])
  <2> DEFINE row == [me EXCEPT !.pc = "choose", !.source = None, !.row = run]
  <2>1. row \in HandlerRow
    BY <1>1 DEF HandlerRow, Pc
  <2>2. /\ row.pc = "choose" /\ row.source = None /\ row.row = run /\ row.from = me.from
        /\ row.cond = me.cond /\ row.start = me.start
    BY <1>1 DEF HandlerRow
  <2> QED
    BY <1>1, <1>3, <1>5, <2>1, <2>2, ReadStep
<1> QED
  BY <1>2, <1>4, <1>5 DEF Enter

LEMMA RereadStep ==
    ASSUME Inv, NEW h \in Handler, Reread(h)
    PROVE  Inv'
<1> DEFINE me == handler[h]
           row == [me EXCEPT !.pc = "choose", !.row = run]
<1>1. me \in HandlerRow /\ me.pc = "reread" /\ UNCHANGED <<run, task, history, incidents>>
      /\ HandlerInv(h) /\ run \in RunRow /\ Goto(h, row)
  BY DEF Inv, TypeOK, Reread
<1>2. row \in HandlerRow
  BY <1>1 DEF HandlerRow, Pc
<1>3. /\ row.pc = "choose" /\ row.source = me.source /\ row.row = run /\ row.from = me.from
      /\ row.cond = me.cond /\ row.start = me.start /\ row.new = me.new
  BY <1>1 DEF HandlerRow
<1>4. /\ me.source = None /\ ~me.start /\ me.new # None
      /\ Took(me.from) \/ (me.from = Start /\ me.cond = "success")
  BY <1>1 DEF HandlerInv
<1> QED
  BY <1>1, <1>2, <1>3, <1>4, ReadStep

\* A thread's row after the tick picked the run.
LEMMA TickStep ==
    ASSUME Inv, NEW h \in Handler, TickSelect(h) \/ TickReserved(h) \/ TickTimeout(h)
    PROVE  Inv'
<1>1. UNCHANGED <<run, task, history, incidents>> /\ handler \in [Handler -> HandlerRow]
      /\ incidents \in 0..MaxIncidents
  BY DEF TickSelect, TickReserved, TickTimeout, Inv, TypeOK
<1>2. ASSUME NEW row \in HandlerRow, Goto(h, row), row.pc \notin {"choose", "spawn", "finalize"},
             handler'[h] = row => HandlerInv(h)'
      PROVE  Inv'
  <2>1. handler' = [handler EXCEPT ![h] = row] /\ events' = events /\ handler'[h] = row
        /\ \A k \in Handler \ {h} : handler'[k] = handler[k]
    BY <1>1, <1>2 DEF Goto
  <2>2. ~HasRow(h)' /\ ~HasMark(h)'
    BY <1>2, <2>1 DEF HasRow, HasMark
  <2> QED
    BY <1>1, <1>2, <2>1, <2>2, HeldByOthers, QuietStep
<1>3. CASE TickSelect(h)
  <2> DEFINE row == [Idle EXCEPT !.pc = "tick"]
  <2>1. row \in HandlerRow /\ row.pc = "tick" /\ row.source = None /\ Goto(h, row)
    <3>1. row \in HandlerRow /\ row.pc = "tick"
      BY IdleTyped DEF HandlerRow, Pc
    <3>2. row.source = None
      BY DEF Idle
    <3> QED
      BY <1>3, <3>1, <3>2 DEF TickSelect
  <2>2. handler'[h] = row => HandlerInv(h)'
    BY <2>1 DEF HandlerInv
  <2> QED
    BY <1>2, <2>1, <2>2
<1>4. CASE TickReserved(h)
  <2>1. CASE ~run.due
    BY <1>1, <1>4, <2>1, DoneQuiet DEF TickReserved, Goto
  <2>2. CASE run.due /\ run.task = None
    <3> DEFINE row == [Idle EXCEPT !.pc = "enter"]
    <3>1. row \in HandlerRow /\ row.pc = "enter" /\ row.source = None /\ Goto(h, row)
          /\ row.from = Start /\ row.cond = "success" /\ ~row.start /\ row.new = None
      <4>1. row \in HandlerRow /\ row.pc = "enter"
        BY IdleTyped DEF HandlerRow, Pc
      <4>2. /\ row.source = None /\ row.from = Start /\ row.cond = "success" /\ ~row.start
            /\ row.new = None
        BY DEF Idle
      <4>3. Goto(h, row)
        BY <1>4, <2>2 DEF TickReserved
      <4> QED
        BY <4>1, <4>2, <4>3
    <3>2. handler'[h] = row => HandlerInv(h)'
      BY <3>1 DEF HandlerInv
    <3> QED
      BY <1>2, <3>1, <3>2
  <2>3. CASE run.due /\ run.task # None
    <3> DEFINE t == run.task
               row == [Idle EXCEPT !.pc = "enter", !.from = task[t].node,
                                   !.cond = ConditionOf(t, task[t].state), !.source = t]
    <3>1. t \in Task /\ Exists(t) /\ task[t] \in TaskRow /\ task[t].node \in Node
      BY <2>3 DEF Inv, TypeOK, RunInv, RunRow, LedgerInv
    <3>2. ConditionOf(t, task[t].state) \in Condition
      BY <3>1, ConditionType DEF Inv, TaskRow
    <3>3. row \in HandlerRow /\ row.pc = "enter" /\ row.source = t /\ Goto(h, row)
          /\ row.from = task[t].node /\ ~row.start /\ row.new = None
      <4>1. row \in HandlerRow /\ row.pc = "enter" /\ row.source = t /\ row.from = task[t].node
        BY <3>1, <3>2, IdleTyped DEF HandlerRow, Pc
      <4>2. ~row.start /\ row.new = None
        BY DEF Idle
      <4>3. Goto(h, row)
        BY <1>4, <2>3 DEF TickReserved
      <4> QED
        BY <4>1, <4>2, <4>3
    <3>4. handler'[h] = row => HandlerInv(h)'
      BY <1>1, <2>3, <3>1, <3>3 DEF HandlerInv, Exists
    <3> QED
      BY <1>2, <3>3, <3>4
  <2> QED
    BY <2>1, <2>2, <2>3
<1>5. CASE TickTimeout(h)
  <2> DEFINE row == [Idle EXCEPT !.pc = "expire", !.source = run.task]
  <2>1. run.task # None /\ run.task \in Task /\ Exists(run.task)
    BY <1>5, WorkflowAssumption DEF TickTimeout, Inv, TypeOK, RunRow, RunInv, Reserved
  <2>2. row \in HandlerRow /\ row.pc = "expire" /\ row.source = run.task /\ Goto(h, row)
    BY <1>5, <2>1, IdleTyped DEF Idle, HandlerRow, Pc, TickTimeout
  <2>3. handler'[h] = row => HandlerInv(h)'
    BY <1>1, <2>1, <2>2 DEF HandlerInv, Exists
  <2> QED
    BY <1>2, <2>2, <2>3
<1> QED
  BY <1>3, <1>4, <1>5

\* The run ends, or the row has moved and stays as it is.
LEMMA EndStep ==
    ASSUME Inv, NEW h \in Handler, NEW row \in RunRow, NEW st \in {"completed", "failed"},
           EndRun(row, st), Done(h), UNCHANGED <<task, history, incidents>>
    PROVE  Inv'
<1>1. handler' = [handler EXCEPT ![h] = Idle] /\ events' \subseteq events
      /\ handler \in [Handler -> HandlerRow] /\ incidents' \in 0..MaxIncidents
      /\ history' \in Seq(Move)
  BY DEF Done, Inv, TypeOK
<1>2. CASE run' = run
  BY <1>1, <1>2, DoneQuiet
<1>3. CASE \E s \in Fresh(Stamp, UsedStamp) :
              run' = [state |-> st, at |-> None, task |-> None, stamp |-> s, due |-> FALSE]
  <2>1. PICK s \in Fresh(Stamp, UsedStamp) :
              run' = [state |-> st, at |-> None, task |-> None, stamp |-> s, due |-> FALSE]
    BY <1>3
  <2>2. s \in Stamp
    BY <2>1, FreshUnused
  <2>3. run' \in RunRow /\ RunInv' /\ run'.stamp = s
    BY <2>1, <2>2 DEF RunRow, RunState, RunInv, Running
  <2>4. handler'[h] = Idle /\ \A k \in Handler \ {h} : handler'[k] = handler[k]
    BY <1>1
  <2>5. HandlerInv(h)' /\ HeldBefore
    BY <2>4, IdleInv, HeldByOthers
  <2> QED
    BY <1>1, <2>3, <2>5, SameKept, IdleTyped, WriteStep
<1> QED
  BY <1>2, <1>3 DEF EndRun

LEMMA ChooseStep ==
    ASSUME Inv, NEW h \in Handler, Choose(h)
    PROVE  Inv'
<1> DEFINE me == handler[h]
           target == NextNode(me.from, me.cond)
           next == [me EXCEPT !.pc = "spawn", !.target = target, !.cond = "success"]
           taken == [next EXCEPT !.held = me.row.at, !.mark = me.row.stamp]
<1>1. me \in HandlerRow /\ me.pc = "choose" /\ UNCHANGED <<task, history, incidents>>
      /\ HandlerInv(h) /\ me.row \in RunRow /\ HasRow(h)
  BY DEF Inv, TypeOK, Choose, HandlerRow, HandlerInv, HasRow
<1>2. /\ ~me.start /\ target \in Node \cup {None} /\ me.source = None
      /\ Took(me.from) \/ (me.from = Start /\ target = First)
      /\ me.new = None => RowInv(h)
  BY <1>1, NextNodeType, FirstNode DEF HandlerInv, HandlerRow
<1>3. CASE target = None /\ Done(h)
           /\ EndRun(me.row, IF me.cond \in {"success", "approved"} THEN "completed" ELSE "failed")
  BY <1>1, <1>3, EndStep
<1>4. CASE Done(h) /\ EndRun(me.row, "failed")
  BY <1>1, <1>4, EndStep
<1>5. CASE Done(h) /\ UNCHANGED run
  BY <1>1, <1>5, DoneQuiet DEF Done, Inv, TypeOK
<1>6. ASSUME target # None, NEW row \in HandlerRow,
             handler' = [handler EXCEPT ![h] = row],
             row.pc = "spawn", ~row.start, row.source = None, row.from = me.from,
             row.target = target, row.row = me.row, row.new \in Task,
             \/ row.held = me.row.at /\ row.mark = me.row.stamp
             \/ row.held = row.new /\ RowInv(h)
      PROVE  /\ HandlerInv(h)' /\ target \in Node
             /\ handler'[h] = row /\ \A k \in Handler \ {h} : handler'[k] = handler[k]
             /\ \A k \in Handler : HasRow(k)' <=> HasRow(k)
             /\ \A k \in Handler \ {h} : HasMark(k)' <=> HasMark(k)
  <2>1. target \in Node
    BY <1>2, <1>6
  <2>2. handler'[h] = row /\ \A k \in Handler \ {h} : handler'[k] = handler[k]
    BY <1>6 DEF Inv, TypeOK
  <2>3. HeldInv(h)'
    <3>1. RowInv(h) => RowInv(h)'
      BY <1>1, <1>6, <2>2 DEF RowInv, Exists
    <3> QED
      BY <1>6, <2>2, <3>1 DEF HeldInv
  <2>4. MoveInv(h)'
    <3>1. CASE me.from = Start /\ target = First
      BY <1>6, <2>2, <3>1 DEF MoveInv, First
    <3>2. CASE Took(me.from)
      <4>1. me.cond \in Condition
        BY <1>1 DEF HandlerRow
      <4>2. handler'[h].target = NextNode(handler'[h].from, me.cond)
        BY <1>6, <2>2
      <4>3. Took(handler[h].from)'
        BY <1>1, <1>6, <2>2, <3>2 DEF Took
      <4> QED
        BY <4>1, <4>2, <4>3 DEF MoveInv, NextNode
    <3> QED
      BY <1>2, <3>1, <3>2
  <2>5. HandlerInv(h)'
    BY <1>6, <2>1, <2>2, <2>3, <2>4 DEF HandlerInv
  <2>6. \A k \in Handler : HasRow(k)' <=> HasRow(k)
    BY <1>1, <1>6, <2>2 DEF HasRow
  <2>7. \A k \in Handler \ {h} : HasMark(k)' <=> HasMark(k)
    BY <2>2 DEF HasMark
  <2> QED
    BY <2>1, <2>2, <2>5, <2>6, <2>7
<1>7. CASE /\ target # None /\ Visits(target) < MaxAttempts[target]
           /\ me.new # None /\ UNCHANGED run
           /\ Goto(h, taken)
  <2> DEFINE s == me.row.stamp
  <2>1. handler' = [handler EXCEPT ![h] = taken] /\ events' = events
    BY <1>7 DEF Goto
  <2>2. taken \in HandlerRow
    <3>1. next \in HandlerRow
      <4>1. me \in HandlerRow /\ target \in Node \cup {None}
        BY <1>1, <1>2
      <4>2. "spawn" \in Pc /\ "success" \in Condition
        BY DEF Pc, Condition
      <4> HIDE DEF target, me
      <4> QED
        BY <4>1, <4>2 DEF HandlerRow
    <3>2. me.row.at \in Node \cup Task \cup {None} /\ s \in Stamp \cup {None}
      BY <1>1 DEF RunRow
    <3> QED
      BY <3>1, <3>2 DEF HandlerRow
  <2>3. /\ taken.pc = "spawn" /\ ~taken.start /\ taken.source = None /\ taken.from = me.from
        /\ taken.target = target /\ taken.row = me.row /\ taken.new = me.new
        /\ taken.held = me.row.at /\ taken.mark = s /\ me.new \in Task
    BY <1>1, <1>2, <1>7 DEF HandlerRow
  <2>4. /\ HandlerInv(h)' /\ target \in Node
        /\ handler'[h] = taken /\ \A k \in Handler \ {h} : handler'[k] = handler[k]
        /\ \A k \in Handler : HasRow(k)' <=> HasRow(k)
        /\ \A k \in Handler \ {h} : HasMark(k)' <=> HasMark(k)
    BY <1>6, <1>7, <2>1, <2>2, <2>3
  <2>5. TypeOK' /\ LedgerInv' /\ RunInv'
    BY <1>1, <1>7, <2>1, <2>2 DEF Inv, TypeOK, LedgerInv, RunInv, Running, Reserved, Exists
  <2>6. (\A k \in Handler : HandlerInv(k))'
    BY <1>1, <2>4, SameKept, HandlersKeep DEF Inv, Stable, Exists
  <2>7. /\ handler'[h].row = me.row /\ handler'[h].mark = s /\ handler'[h].held = me.row.at
        /\ handler'[h].target = target
        /\ \A k \in Handler \ {h} : handler'[k] = handler[k]
        /\ \A k \in Handler : HasRow(k)' <=> HasRow(k)
        /\ \A k \in Handler \ {h} : HasMark(k)' <=> HasMark(k)
    BY <2>3, <2>4
  <2>8. \A k \in Handler : RowTells(k)'
    BY <1>7, <2>4, <2>7 DEF Inv, StampInv, RowTells, Reserved
  <2>9. \A j, k \in Handler : RowsAgree(j, k)'
    <3> HIDE DEF taken
    <3>1. \A k \in Handler : RowsAgree(k, h)'
      BY <1>1, <2>7 DEF Inv, StampInv, RowsAgree
    <3>2. \A j \in Handler : \A k \in Handler \ {h} : RowsAgree(j, k)'
      BY <2>7 DEF Inv, StampInv, RowsAgree
    <3> QED
      BY <3>1, <3>2
  <2>10. \A k \in Handler : MarkTells(k)'
    <3>1. MarkTells(h)'
      BY <1>1, <1>7, <2>7 DEF Inv, StampInv, MarkTells, RowTells, Reserved, Visits
    <3>2. \A k \in Handler \ {h} : MarkTells(k)'
      BY <1>1, <1>7, <2>4 DEF Inv, StampInv, MarkTells, Reserved, Visits
    <3> QED
      BY <3>1, <3>2
  <2>11. \A j, k \in Handler : GivesBack(j, k)'
    <3>1. \A j \in Handler : GivesBack(j, h)'
      BY <1>1, <1>7, <2>7 DEF GivesBack, Visits
    <3>2. \A k \in Handler \ {h} : GivesBack(h, k)'
      <4> HIDE DEF taken
      <4>1. history' = history /\ run' = run
        BY <1>1, <1>7
      <4>2. \A k \in Handler \ {h} : GivesBack(h, k)' <=>
              (HasMark(h)' /\ HasRow(h) /\ s = run.stamp /\ HasMark(k) /\ s = handler[k].mark
                => Visits(handler[k].target) < MaxAttempts[handler[k].target])
        BY <2>7, <4>1 DEF GivesBack, Visits
      <4> QED
        BY <4>2 DEF Inv, StampInv, MarkTells
    <3>3. \A j, k \in Handler \ {h} : GivesBack(j, k)'
      BY <1>1, <1>7, <2>4 DEF Inv, StampInv, GivesBack, Visits
    <3> QED
      BY <3>1, <3>2, <3>3
  <2> QED
    BY <2>5, <2>6, <2>8, <2>9, <2>10, <2>11 DEF Inv, StampInv
<1>8. ASSUME target # None, Visits(target) < MaxAttempts[target],
             me.new = None, Unmoved(me.row),
             NEW t \in Fresh(Task, UsedTask), NEW s \in Fresh(Stamp, UsedStamp),
             run' = [run EXCEPT !.at = t, !.stamp = s, !.due = FALSE],
             Goto(h, [next EXCEPT !.new = t, !.held = t, !.mark = s])
      PROVE  Inv'
  <2> DEFINE row == [next EXCEPT !.new = t, !.held = t, !.mark = s]
  <2>1. /\ t \in Task /\ s \in Stamp /\ events' = events
        /\ \A k \in Handler : handler[k].row.stamp # s /\ handler[k].mark # s
        /\ handler' = [handler EXCEPT ![h] = row]
    BY <1>8, FreshUnused DEF UsedStamp, Goto
  <2>2. row \in HandlerRow
    BY <1>1, <1>2, <1>8, <2>1 DEF HandlerRow, Pc, Condition
  <2>3. /\ row.pc = "spawn" /\ ~row.start /\ row.source = None /\ row.from = me.from
        /\ row.target = target /\ row.row = me.row /\ row.new = t
        /\ row.held = t /\ row.mark = s /\ RowInv(h)
    BY <1>1, <1>2, <1>8 DEF HandlerRow
  <2>4. /\ HandlerInv(h)' /\ target \in Node
        /\ handler'[h] = row /\ \A k \in Handler \ {h} : handler'[k] = handler[k]
        /\ \A k \in Handler : HasRow(k)' <=> HasRow(k)
        /\ \A k \in Handler \ {h} : HasMark(k)' <=> HasMark(k)
    BY <1>6, <1>8, <2>1, <2>2, <2>3
  <2>5. /\ run' \in RunRow /\ run'.state = run.state /\ run'.at = t /\ run'.task = run.task
        /\ run'.stamp = s
    BY <1>8, <2>1 DEF Inv, TypeOK, RunRow
  <2>6. TypeOK' /\ LedgerInv' /\ RunInv'
    BY <1>1, <2>1, <2>2, <2>5 DEF Inv, TypeOK, LedgerInv, RunInv, Running, Reserved, Exists
  <2>7. (\A k \in Handler : HandlerInv(k))'
    BY <1>1, <2>4, SameKept, HandlersKeep DEF Inv, Stable, Exists
  <2>8. /\ handler'[h].row = me.row /\ handler'[h].mark = s /\ handler'[h].held = t
        /\ handler'[h].target = target
        /\ \A k \in Handler \ {h} : handler'[k] = handler[k]
        /\ \A k \in Handler : HasRow(k)' <=> HasRow(k)
        /\ \A k \in Handler \ {h} : HasMark(k)' <=> HasMark(k)
    BY <2>3, <2>4
  <2>9. \A k \in Handler : RowTells(k)'
    BY <2>1, <2>4, <2>5, <2>8 DEF RowTells
  <2>10. \A j, k \in Handler : RowsAgree(j, k)'
    <3>1. \A k \in Handler : RowsAgree(k, h)'
      BY <2>1, <2>4, <2>8 DEF Inv, StampInv, RowsAgree
    <3>2. \A j \in Handler : \A k \in Handler \ {h} : RowsAgree(j, k)'
      BY <2>8 DEF Inv, StampInv, RowsAgree
    <3> QED
      BY <3>1, <3>2
  <2>11. \A k \in Handler : MarkTells(k)'
    <3>1. Reserved' /\ history' = history
      BY <1>1, <2>1, <2>5 DEF Reserved
    <3>2. MarkTells(h)'
      BY <1>8, <2>1, <2>8, <3>1 DEF MarkTells, Visits
    <3>3. \A k \in Handler \ {h} : MarkTells(k)'
      BY <2>1, <2>4, <2>5 DEF MarkTells
    <3> QED
      BY <3>2, <3>3
  <2>12. \A j, k \in Handler : GivesBack(j, k)'
    <3>1. \A j \in Handler \ {h}, k \in Handler : GivesBack(j, k)'
      BY <2>1, <2>4, <2>5 DEF GivesBack
    <3>2. \A k \in Handler \ {h} : GivesBack(h, k)'
      <4>1. run.stamp = me.row.stamp
        BY <1>8 DEF Unmoved
      <4> QED
        BY <1>1, <2>4, <2>8, <4>1 DEF Inv, StampInv, MarkTells, GivesBack, Visits
    <3>3. GivesBack(h, h)'
      BY <2>1, <2>8 DEF GivesBack
    <3> QED
      BY <3>1, <3>2, <3>3
  <2> QED
    BY <2>6, <2>7, <2>9, <2>10, <2>11, <2>12 DEF Inv, StampInv
<1> QED
  BY ZenonT(60), <1>3, <1>4, <1>5, <1>7, <1>8 DEF Choose

LEMMA StartStep ==
    ASSUME Inv, NEW h \in Handler, StartRun(h)
    PROVE  Inv'
<1>1. PICK t \in Fresh(Task, UsedTask), s \in Fresh(Stamp, UsedStamp) :
         /\ run' = [state |-> "running", at |-> t, task |-> None, stamp |-> s, due |-> FALSE]
         /\ Goto(h, [Idle EXCEPT !.pc = "spawn", !.start = TRUE, !.new = t,
                                 !.target = First, !.held = t, !.mark = s])
  BY DEF StartRun
<1> DEFINE row == [Idle EXCEPT !.pc = "spawn", !.start = TRUE, !.new = t,
                               !.target = First, !.held = t, !.mark = s]
<1>2. t \in Task /\ s \in Stamp /\ UNCHANGED <<task, history, incidents>> /\ run.state = "none"
  BY FreshUnused DEF StartRun
<1>3. run' \in RunRow /\ run'.stamp = s /\ run'.task = None /\ run'.at = t
      /\ run'.state = "running"
  BY <1>1, <1>2 DEF RunRow, RunState
<1>4. RunInv'
  BY <1>2, <1>3 DEF Inv, RunInv, Running, Reserved
<1>5. row \in HandlerRow
  BY <1>2, IdleTyped, Kinds DEF Idle, HandlerRow, Pc
<1>6. row.pc = "spawn" /\ row.start /\ row.new = t /\ row.target = First /\ row.from = Start
      /\ row.source = None
  BY DEF Idle
<1>7. handler' = [handler EXCEPT ![h] = row] /\ events' = events /\ handler'[h] = row
      /\ \A k \in Handler \ {h} : handler'[k] = handler[k]
  BY <1>1 DEF Goto, Inv, TypeOK
<1>8. HandlerInv(h)'
  <2>1. MoveInv(h)' /\ handler'[h].target \in Node /\ handler'[h].new \in Task
    <3>1. /\ handler'[h].from = Start /\ handler'[h].target = First
          /\ handler'[h].new = t
      BY <1>6, <1>7
    <3> QED
      BY <1>2, <3>1, Kinds DEF MoveInv, First
  <2>2. handler'[h].pc = "spawn" /\ handler'[h].start /\ handler'[h].source = None
    BY <1>6, <1>7
  <2> QED
    BY <2>1, <2>2 DEF HandlerInv
<1>9. HeldBefore
  BY <1>6, <1>7, HeldByOthers DEF HasRow, HasMark
<1> QED
  BY <1>2, <1>3, <1>4, <1>5, <1>7, <1>8, <1>9, SameKept, WriteStep DEF Inv, TypeOK

LEMMA SpawnStep ==
    ASSUME Inv, NEW h \in Handler, Spawn(h)
    PROVE  Inv'
<1> DEFINE me == handler[h]
           t == me.new
<1>1. /\ me \in HandlerRow /\ me.pc = "spawn" /\ UNCHANGED <<run, history, incidents>>
      /\ HandlerInv(h) /\ t \in Task /\ me.target \in Node /\ MoveInv(h)
      /\ me.row.task \in Task \cup {None}
  BY DEF Inv, TypeOK, Spawn, HandlerInv, HandlerRow, RunRow
<1>2. ASSUME NEW seen \in BOOLEAN, task' \in [Task -> TaskRow], Stable, LedgerInv',
             task'[t].state # "absent", task'[t].node = me.target,
             Goto(h, [me EXCEPT !.pc = "finalize", !.row = [NoRow EXCEPT !.task = me.row.task],
                                !.seen = seen])
      PROVE  Inv'
  <2> DEFINE row == [me EXCEPT !.pc = "finalize", !.row = [NoRow EXCEPT !.task = me.row.task],
                               !.seen = seen]
  <2>1. row \in HandlerRow
    <3>1. [NoRow EXCEPT !.task = me.row.task] \in RunRow
      BY <1>1, IdleTyped DEF NoRow, RunRow
    <3> QED
      BY <1>1, <3>1 DEF HandlerRow, Pc
  <2>2. /\ row.pc = "finalize" /\ row.new = t /\ row.target = me.target /\ row.mark = me.mark
        /\ row.held = me.held /\ row.source = me.source /\ row.from = me.from
        /\ row.start = me.start
    BY <1>1 DEF HandlerRow, NoRow
  <2>3. handler' = [handler EXCEPT ![h] = row] /\ events' = events /\ handler'[h] = row
        /\ \A k \in Handler \ {h} : handler'[k] = handler[k]
    BY <1>2 DEF Goto, Inv, TypeOK
  <2>4. MoveInv(h)'
    <3>1. Kept
      BY <1>1, SameKept
    <3>2. handler'[h].from = me.from /\ handler'[h].target = me.target
      BY <2>2, <2>3
    <3>3. Took(me.from) => \E i \in DOMAIN history' : history'[i].to = me.from
      BY <3>1 DEF Kept, Took
    <3>4. \/ me.from = Start /\ me.target = First
          \/ Took(me.from) /\ \E c \in Condition : me.target = NextNode(me.from, c)
      BY <1>1 DEF MoveInv
    <3>5. CASE me.from = Start /\ me.target = First
      BY <3>2, <3>5 DEF MoveInv, First
    <3>6. CASE Took(me.from) /\ \E c \in Condition : me.target = NextNode(me.from, c)
      BY <3>2, <3>3, <3>6 DEF MoveInv, NextNode, Took
    <3> QED
      BY <3>4, <3>5, <3>6
  <2>5. me.source # None => task'[me.source].state # "absent"
    BY <1>1, <1>2 DEF HandlerInv, HandlerRow, Exists, Stable
  <2>6. HandlerInv(h)'
    <3>1. handler'[h].pc = "finalize" /\ handler'[h].new \in Task /\ handler'[h].target \in Node
      BY <1>1, <2>2, <2>3
    <3>2. handler'[h].source = me.source /\ task'[handler'[h].new].state # "absent"
          /\ task'[handler'[h].new].node = handler'[h].target
      BY <1>2, <2>2, <2>3
    <3> QED
      BY <2>4, <2>5, <3>1, <3>2 DEF HandlerInv, Exists
  <2>7. HeldBefore
    BY <1>1, <2>2, <2>3, HeldByOthers DEF HasRow, HasMark
  <2>8. events' \subseteq Event
    BY <2>3 DEF Inv, TypeOK
  <2> QED
    BY <1>1, <1>2, <2>1, <2>3, <2>6, <2>7, <2>8, TasksStep
<1>3. ASSUME ~Exists(t),
             task' = [task EXCEPT ![t] = [state |-> "live", node |-> me.target,
                                          verdict |-> "none"]],
             Goto(h, [me EXCEPT !.pc = "finalize", !.row = [NoRow EXCEPT !.task = me.row.task],
                                !.seen = TRUE])
      PROVE  Inv'
  <2>1. task' \in [Task -> TaskRow]
    BY <1>1, <1>3 DEF Inv, TypeOK, TaskRow
  <2>2. task'[t].state = "live" /\ task'[t].node = me.target
        /\ \A x \in Task \ {t} : task'[x] = task[x]
    BY <1>1, <1>3 DEF Inv, TypeOK
  <2>3. Stable
    BY <1>3, <2>2 DEF Stable, Exists
  <2>4. LedgerInv'
    <3>1. events' = events /\ events \subseteq Event
      BY <1>3 DEF Goto, Inv, TypeOK
    <3>2. \A x \in Task : task[x].state # "absent" =>
             task'[x].state # "absent" /\ task'[x].node = task[x].node
      BY <1>3, <2>2 DEF Exists
    <3>3. \A x \in Task : task'[x].state # "absent" => task'[x].node \in Node
      BY <1>1, <2>2 DEF Inv, LedgerInv, Exists
    <3>4. \A e \in events' : task'[e.task].state # "absent"
      <4>1. \A e \in events : e.task \in Task /\ task[e.task].state # "absent"
        BY <3>1 DEF Inv, LedgerInv, Exists, Event
      <4> QED
        BY <3>1, <3>2, <4>1
    <3> QED
      BY <3>3, <3>4 DEF LedgerInv, Exists
  <2> QED
    BY <1>2, <1>3, <2>1, <2>2, <2>3, <2>4
<1>4. ASSUME Exists(t), task[t].node = me.target, UNCHANGED task,
             Goto(h, [me EXCEPT !.pc = "finalize", !.row = [NoRow EXCEPT !.task = me.row.task],
                                !.seen = task[t].state \in Cancellable])
      PROVE  Inv'
  <2>1. (task[t].state \in Cancellable) \in BOOLEAN /\ Stable
        /\ task'[t].state # "absent" /\ task'[t].node = me.target /\ task' \in [Task -> TaskRow]
    BY <1>4 DEF Stable, Exists, Inv, TypeOK
  <2>2. LedgerInv'
    BY <1>4 DEF Inv, LedgerInv, Exists, Goto
  <2> QED
    BY <1>2, <1>4, <2>1, <2>2
<1>5. CASE Done(h) /\ UNCHANGED task
  BY <1>1, <1>5, DoneQuiet DEF Done, Inv, TypeOK
<1> QED
  BY <1>3, <1>4, <1>5 DEF Spawn, Exists

\* A thread that gives its reservation back puts the row where it was.
LEMMA SpawnFailsStep ==
    ASSUME Inv, NEW h \in Handler, SpawnFails(h)
    PROVE  Inv'
<1> DEFINE me == handler[h]
<1>1. /\ me \in HandlerRow /\ me.pc = "spawn" /\ UNCHANGED <<task, history>>
      /\ HandlerInv(h) /\ me.row \in RunRow
      /\ handler' = [handler EXCEPT ![h] = Idle] /\ events' \subseteq events
  BY DEF Inv, TypeOK, SpawnFails, HandlerRow, Done
<1>2. incidents' \in 0..MaxIncidents
  BY WorkflowAssumption DEF Inv, TypeOK, SpawnFails, Incident
<1>3. CASE run' = run
  BY <1>1, <1>2, <1>3, DoneQuiet
<1>4. CASE ~me.start /\ Holds(me)
           /\ run' = [run EXCEPT !.at = me.row.at, !.stamp = me.row.stamp, !.due = me.row.due]
  <2>1. /\ run' \in RunRow /\ run'.state = run.state /\ run'.at = me.row.at
        /\ run'.task = run.task /\ run'.stamp = me.row.stamp
    BY <1>1, <1>4 DEF Inv, TypeOK, RunRow
  <2>2. Running /\ run.at = me.held /\ run.task = me.row.task /\ run.stamp = me.mark
    BY <1>4 DEF Holds
  <2>3. HeldInv(h) /\ HasRow(h) /\ HasMark(h) /\ me.new \in Task
    BY <1>1, <1>4 DEF HandlerInv, HasRow, HasMark
  <2>4. handler'[h] = Idle /\ \A k \in Handler \ {h} : handler'[k] = handler[k]
    BY <1>1 DEF Inv, TypeOK
  <2>5. HandlerInv(h)' /\ ~HasRow(h)' /\ ~HasMark(h)'
    BY <2>4, IdleInv
  <2>6. CASE me.held = me.row.at /\ me.mark = me.row.stamp
    BY <1>1, <1>2, <2>1, <2>2, <2>4, <2>5, <2>6, IdleTyped, HeldByOthers, PlaceStep
  <2>7. CASE me.held = me.new /\ RowInv(h)
    <3>1. TypeOK' /\ LedgerInv'
      BY <1>1, <1>2, <2>1, IdleTyped DEF Inv, TypeOK, LedgerInv, Exists
    <3>2. me.row.at \in Node /\ me.row.at \notin Task /\ ~Reserved'
      BY <2>1, <2>7, Kinds DEF RowInv, Reserved
    <3>3. RunInv'
      BY <1>1, <2>1, <2>2, <2>7, <3>2 DEF Inv, RunInv, RowInv, Running, Reserved, Exists
    <3>4. (\A k \in Handler : HandlerInv(k))'
      BY <1>1, <2>4, <2>5, SameKept, HandlersKeep DEF Inv, Stable, Exists
    <3>5. \A k \in Handler \ {h} : /\ HasRow(k)' <=> HasRow(k)
                                   /\ HasMark(k)' <=> HasMark(k)
      BY <2>4 DEF HasRow, HasMark
    <3>6. \A j, k \in Handler : RowsAgree(j, k)'
      BY <2>4, <2>5, <3>5 DEF Inv, StampInv, RowsAgree
    <3>7. \A k \in Handler : RowTells(k)'
      BY <2>1, <2>3, <2>4, <2>5, <3>2, <3>5 DEF Inv, StampInv, RowsAgree, RowTells
    <3>8. \A k \in Handler : MarkTells(k)'
      <4> SUFFICES ASSUME NEW k \in Handler \ {h}, HasMark(k), handler[k].mark = me.row.stamp
                   PROVE  MarkTells(k)'
        BY <2>1, <2>4, <2>5, <3>5 DEF MarkTells
      <4>1. handler[k].held \notin Task
        BY <2>3, <3>2 DEF Inv, StampInv, RowsAgree
      <4>2. Visits(handler[k].target) < MaxAttempts[handler[k].target]
        BY <2>2, <2>3 DEF Inv, StampInv, GivesBack
      <4> QED
        BY <1>1, <2>4, <3>2, <4>1, <4>2 DEF MarkTells, Visits
    <3>9. \A j, k \in Handler : GivesBack(j, k)'
      <4> SUFFICES ASSUME NEW j \in Handler \ {h}, NEW k \in Handler \ {h},
                          HasRow(j), HasMark(j), handler[j].mark = me.row.stamp,
                          HasMark(k), handler[j].row.stamp = handler[k].mark
                   PROVE  GivesBack(j, k)'
        BY <2>1, <2>4, <2>5, <3>5 DEF GivesBack
      <4>1. handler[j].held \notin Task
        BY <2>3, <3>2 DEF Inv, StampInv, RowsAgree
      <4>2. HandlerInv(j) /\ handler[j].pc = "spawn" /\ ~handler[j].start
        BY DEF Inv, HasRow, HasMark
      <4>3. handler[j].mark = handler[j].row.stamp
        BY <4>1, <4>2 DEF HandlerInv, HeldInv
      <4>4. Visits(handler[k].target) < MaxAttempts[handler[k].target]
        BY <2>2, <2>3, <4>3 DEF Inv, StampInv, GivesBack
      <4> QED
        BY <1>1, <2>4, <4>4 DEF GivesBack, Visits
    <3> QED
      BY <3>1, <3>3, <3>4, <3>6, <3>7, <3>8, <3>9 DEF Inv, StampInv
  <2> QED
    BY <2>3, <2>6, <2>7 DEF HeldInv
<1> QED
  BY <1>3, <1>4 DEF SpawnFails

LEMMA FinalizeStep ==
    ASSUME Inv, NEW h \in Handler, Finalize(h)
    PROVE  Inv'
<1> DEFINE me == handler[h]
           row == IF me.start THEN Idle
                  ELSE [Idle EXCEPT !.pc = "check", !.event = me.event, !.new = me.new,
                                    !.seen = me.seen]
<1>1. /\ me \in HandlerRow /\ me.pc = "finalize" /\ UNCHANGED <<task, incidents>>
      /\ HandlerInv(h) /\ me.new \in Task /\ me.target \in Node /\ MoveInv(h)
      /\ task[me.new].state # "absent" /\ task[me.new].node = me.target
  BY DEF Inv, TypeOK, Finalize, HandlerInv, Exists
<1>2. /\ handler' = [handler EXCEPT ![h] = row] /\ events' \subseteq events
      /\ handler'[h] = row /\ \A k \in Handler \ {h} : handler'[k] = handler[k]
  BY DEF Finalize, Done, Goto, Inv, TypeOK
<1>3. row \in HandlerRow
  <2>1. CASE me.start
    BY <2>1, IdleTyped
  <2>2. CASE ~me.start
    BY <1>1, <2>2, IdleTyped DEF HandlerRow, Pc
  <2> QED
    BY <2>1, <2>2
<1>4. row.pc \in {"idle", "check"} /\ row.source = None /\ (row.pc = "check" => row.new = me.new)
  BY DEF Idle
<1>5. HandlerInv(h)' /\ ~HasRow(h)' /\ ~HasMark(h)'
  <2>1. handler'[h].pc \in {"idle", "check"} /\ handler'[h].source = None
        /\ (handler'[h].pc = "check" => handler'[h].new \in Task)
    BY ZenonT(60), <1>1, <1>2, <1>4
  <2> QED
    BY <2>1 DEF HandlerInv, HasRow, HasMark
<1>6. HeldBefore
  BY <1>2, <1>5, HeldByOthers
<1>7. CASE UNCHANGED <<run, history>>
  BY <1>1, <1>2, <1>3, <1>5, <1>6, <1>7, QuietStep DEF Inv, TypeOK
<1>8. CASE /\ Holds(me) /\ \E s \in Fresh(Stamp, UsedStamp) : run' = Taken(me, s)
           /\ history' = Append(history, [from |-> me.from, to |-> me.target,
                                          task |-> me.new])
  <2>1. PICK s \in Fresh(Stamp, UsedStamp) : run' = Taken(me, s)
    BY <1>8
  <2>2. s \in Stamp
    BY FreshUnused
  <2>3. /\ run' \in RunRow /\ run'.state = run.state /\ run'.at = me.target
        /\ run'.task = me.new /\ run'.stamp = s
    BY <1>1, <2>1, <2>2 DEF Inv, TypeOK, RunRow, Taken
  <2> DEFINE mv == [from |-> me.from, to |-> me.target, task |-> me.new]
  <2>4. mv \in Move /\ history \in Seq(Move) /\ Running
    BY <1>1, <1>8 DEF HandlerRow, Move, Inv, TypeOK, Holds
  <2>5. history' \in Seq(Move) /\ history' # <<>> /\ history'[Len(history')].to = me.target
        /\ \A i \in DOMAIN history : i \in DOMAIN history' /\ history'[i] = history[i]
    BY <1>8, <2>4
  <2>6. RunInv'
    BY <1>1, <2>3, <2>4, <2>5, Kinds DEF RunInv, Running, Reserved, Exists
  <2>7. Kept
    BY <2>5 DEF Kept, Took
  <2> QED
    BY <1>1, <1>2, <1>3, <1>5, <1>6, <2>3, <2>5, <2>6, <2>7, WriteStep DEF Inv, TypeOK
<1> QED
  BY <1>7, <1>8 DEF Finalize

\* _advance's last look at the run, and the tick's at an overdue task.
LEMMA CheckStep ==
    ASSUME Inv, NEW h \in Handler, Check(h) \/ Expire(h)
    PROVE  Inv'
<1> DEFINE me == handler[h]
<1>1. /\ me \in HandlerRow /\ UNCHANGED <<run, history, incidents>>
      /\ handler' = [handler EXCEPT ![h] = Idle] /\ HandlerInv(h)
      /\ handler'[h] = Idle /\ \A k \in Handler \ {h} : handler'[k] = handler[k]
  BY DEF Check, Expire, Inv, TypeOK
<1>2. HandlerInv(h)' /\ HeldBefore
  BY <1>1, IdleInv, HeldByOthers
<1>3. ASSUME NEW t \in Task, task[t].state \in Cancellable, NEW pending \in SUBSET events,
             EndsTask(t, "cancelled", pending)
      PROVE  Inv'
  <2>1. /\ task' \in [Task -> TaskRow] /\ events' \subseteq Event /\ Stable /\ LedgerInv'
    BY <1>3, EndsKeeps DEF Inv
  <2> QED
    BY <1>1, <1>2, <2>1, IdleTyped, TasksStep
<1>4. CASE task' = task /\ events' \subseteq events
  BY <1>1, <1>4, DoneQuiet DEF Inv, TypeOK
<1>5. CASE Check(h)
  <2>1. me.new \in Task
    BY <1>1, <1>5 DEF Check, HandlerInv
  <2>2. events \ {me.event} \in SUBSET events
    OBVIOUS
  <2> QED
    BY <1>3, <1>4, <1>5, <2>1, <2>2 DEF Check
<1>6. CASE Expire(h)
  <2>1. me.source \in Task
    BY <1>1, <1>6 DEF Expire, HandlerInv
  <2>2. events \in SUBSET events
    OBVIOUS
  <2> QED
    BY <1>3, <1>4, <1>6, <2>1, <2>2 DEF Expire
<1> QED
  BY <1>5, <1>6

-----------------------------------------------------------------------------
(* The theorems *)

LEMMA InvStep == Inv /\ [Next]_vars => Inv'
<1> SUFFICES ASSUME Inv, [Next]_vars PROVE Inv'
  OBVIOUS
<1>1. ASSUME NEW h \in Handler, HandlerStep(h) PROVE Inv'
  BY <1>1, MergeStep, EnterStep, RereadStep, ChooseStep, SpawnStep, FinalizeStep, CheckStep, TickStep
     DEF HandlerStep
<1>2. ASSUME NEW h \in Handler,
             \/ StartRun(h) \/ (\E e \in events : Deliver(h, e)) \/ SpawnFails(h)
             \/ TickSelect(h) \/ TickTimeout(h) \/ Crash(h) \/ \E t \in Task : Publish(h, t)
      PROVE Inv'
  BY <1>2, StartStep, DeliverStep, SpawnFailsStep, TickStep, CrashStep, PublishStep
<1>3. ASSUME NEW t \in Task,
             TaskEnds(t) \/ Decide(t) \/ ForceComplete(t) \/ LeaseExpires(t) \/ Reopen(t)
      PROVE Inv'
  BY <1>3, TaskStep
<1>4. CASE CancelRun \/ Age
  BY <1>4, CancelStep, AgeStep
<1>5. CASE UNCHANGED vars
  <2>1. UNCHANGED <<run, task, history, events, handler, incidents>>
    BY <1>5 DEF vars
  <2>2. TypeOK' /\ LedgerInv' /\ RunInv'
    BY <2>1 DEF Inv, TypeOK, LedgerInv, RunInv, Running, Reserved, Exists
  <2>3. (\A k \in Handler : HandlerInv(k))'
    BY <2>1, SameKept, HandlerFrame DEF Inv, Stable, Exists
  <2>4. StampInv'
    BY <2>1, StampsQuiet DEF Inv, HeldBefore, HasRow, HasMark
  <2> QED
    BY <2>2, <2>3, <2>4 DEF Inv
<1> QED
  BY <1>1, <1>2, <1>3, <1>4, <1>5 DEF Next

THEOREM RunInvariant == Spec => []Inv
<1>1. Init => Inv
  BY InvInit
<1>2. Inv /\ [Next]_vars => Inv'
  BY InvStep
<1> QED
  BY <1>1, <1>2, PTL DEF Spec

\* The rows of the run, its tasks and the outbox are what the schema says,
\* whatever threads, crashes and operators do (workflow_runtime.py).
THEOREM RunTyped == Spec => []TypeOK
<1>1. Inv => TypeOK
  BY DEF Inv
<1> QED
  BY <1>1, RunInvariant, PTL

\* A running run that holds no reservation is at the node of the task it names,
\* the one its history took last (_advance's finalize writes them together).
THEOREM RunAtItsTask == Spec => []CurrentTaskAtNode
<1>1. Inv => CurrentTaskAtNode
  BY Kinds DEF Inv, RunInv, CurrentTaskAtNode, Exists
<1> QED
  BY <1>1, RunInvariant, PTL

-----------------------------------------------------------------------------
(* The refinement *)

\* Steps that leave the history and the state of the run alone do not show.
LEMMA PathQuiet ==
    ASSUME run'.state = run.state, history' = history
    PROVE  UNCHANGED Path!vars
  BY DEF Path!vars

\* A move appended to the history is a move of the path.
LEMMA PathAppend ==
    ASSUME NEW mv \in Move, history \in Seq(Move), history' = Append(history, mv),
           Running, run'.state = run.state,
           Visits(mv.to) < MaxAttempts[mv.to],
           mv.to = First \/ \E i \in DOMAIN history :
                               \E c \in Condition : mv.to = NextNode(history[i].to, c)
    PROVE  Path!Move(mv.to)
<1> DEFINE path == [i \in DOMAIN history |-> history[i].to]
           succ == [n \in Node |-> {NextNode(n, c) : c \in Condition} \ {None}]
<1>1. mv.to \in Node /\ DOMAIN history = 1..Len(history) /\ Len(history) \in Nat
  BY DEF Move
<1>0. path \in Seq(Node) /\ Len(path) = Len(history)
  <2>1. \A i \in 1..Len(history) : history[i].to \in Node
    <3>1. history \in [1..Len(history) -> Move]
      BY LenProperties
    <3> QED
      BY <3>1 DEF Move
  <2>2. path \in [1..Len(history) -> Node]
    BY <1>1, <2>1
  <2>3. path \in Seq(Node)
    BY <1>1, <2>2, SeqDef
  <2> QED
    BY <1>1, <2>2, <2>3, LenProperties
<1>2. {i \in DOMAIN path : path[i] = mv.to} = {i \in DOMAIN history : history[i].to = mv.to}
  OBVIOUS
<1>3. Path!Taken(mv.to) < MaxAttempts[mv.to]
  <2>1. Path!Taken(mv.to) = Visits(mv.to)
    <3>1. Path!Taken(mv.to) = Cardinality({i \in DOMAIN path : path[i] = mv.to})
      BY Zenon DEF Path!Taken, Path!Cardinality, Cardinality
    <3> QED
      BY <1>2, <3>1 DEF Visits
  <2> QED
    BY <2>1
<1>4. mv.to = First \/ \E i \in DOMAIN path : mv.to \in succ[path[i]]
  <2> SUFFICES ASSUME NEW i \in DOMAIN history, NEW c \in Condition,
                      mv.to = NextNode(history[i].to, c)
               PROVE  mv.to \in succ[path[i]]
    OBVIOUS
  <2>1. path[i] = history[i].to /\ path[i] \in Node
    BY <1>0, <1>1
  <2> QED
    BY <1>1, <2>1, Kinds
<1>5. [i \in DOMAIN history' |-> history'[i].to] = Append(path, mv.to)
  <2>1. path \in Seq(Node) /\ Len(path) = Len(history)
    BY <1>0
  <2>2. Len(history') = Len(history) + 1 /\ DOMAIN history' = 1..(Len(history) + 1)
    BY <1>1
  <2>3. \A i \in 1..(Len(history) + 1) :
           history'[i] = IF i = Len(history) + 1 THEN mv ELSE history[i]
    BY <1>1
  <2> QED
    BY <1>1, <2>1, <2>2, <2>3
<1> QED
  BY <1>3, <1>4, <1>5 DEF Path!Move, Running

\* Before the first move no attempt has been used.
LEMMA NoVisits ==
    ASSUME history = <<>>, NEW n \in Node
    PROVE  Visits(n) = 0 /\ Visits(n) < MaxAttempts[n]
<1>1. {i \in DOMAIN history : history[i].to = n} = {}
  OBVIOUS
<1>2. Visits(n) = 0
  BY <1>1, FS_EmptySet DEF Visits
<1> QED
  BY <1>2, WorkflowAssumption

\* A thread that still holds its reservation has an attempt left to record.
LEMMA RoomAtTarget ==
    ASSUME Inv, NEW h \in Handler, handler[h].pc = "finalize", handler[h].target \in Node,
           Holds(handler[h])
    PROVE  Visits(handler[h].target) < MaxAttempts[handler[h].target]
<1>1. CASE handler[h].start
  <2>1. history = <<>>
    BY <1>1 DEF Holds, Inv, RunInv
  <2> QED
    BY <2>1, NoVisits
<1>2. CASE ~handler[h].start
  BY <1>2 DEF Holds, Inv, StampInv, MarkTells, HasMark
<1> QED
  BY <1>1, <1>2

\* The only moves are the finalized ones, each along an edge of a node taken and
\* within the attempts of its node.
LEMMA PathMove ==
    ASSUME Inv, NEW h \in Handler, Finalize(h), ~UNCHANGED <<run, history>>
    PROVE  \E n \in Node : Path!Move(n)
<1> DEFINE me == handler[h]
           mv == [from |-> me.from, to |-> me.target, task |-> me.new]
<1>1. /\ me \in HandlerRow /\ me.pc = "finalize" /\ me.new \in Task
      /\ me.target \in Node /\ MoveInv(h) /\ me.from \in Node \cup {Start}
  BY DEF Inv, TypeOK, Finalize, HandlerInv, HandlerRow
<1>2. /\ Holds(me) /\ history' = Append(history, mv)
      /\ \E s \in Fresh(Stamp, UsedStamp) : run' = Taken(me, s)
  BY DEF Finalize
<1>3. Running /\ run'.state = run.state /\ mv \in Move /\ history \in Seq(Move)
  BY <1>1, <1>2 DEF Holds, Taken, Inv, TypeOK, RunRow, Move
<1>4. Visits(me.target) < MaxAttempts[me.target]
  BY <1>1, <1>2, RoomAtTarget
<1>5. me.target = First \/ \E i \in DOMAIN history :
                               \E c \in Condition : me.target = NextNode(history[i].to, c)
  BY <1>1 DEF MoveInv, Took
<1> QED
  BY <1>1, <1>2, <1>3, <1>4, <1>5, PathAppend

\* Ending the run is the path's end, whichever thread does it.
LEMMA PathEnd ==
    ASSUME Inv, Running, run'.state \in {"completed", "failed", "cancelled"}, history' = history
    PROVE  Path!End
  BY DEF Path!End, Running

LEMMA PathStep ==
    ASSUME Inv, [Next]_vars
    PROVE  [Path!Next]_(Path!vars)
<1> USE DEF Path!Next
<1>1. ASSUME NEW h \in Handler, StartRun(h) PROVE Path!Next
  BY <1>1 DEF StartRun, Path!Begin
<1>2. ASSUME NEW h \in Handler, Finalize(h) PROVE [Path!Next]_(Path!vars)
  <2>1. CASE UNCHANGED <<run, history>>
    BY <2>1, PathQuiet
  <2>2. CASE ~UNCHANGED <<run, history>>
    BY <1>2, <2>2, PathMove
  <2> QED
    BY <2>1, <2>2
<1>3. ASSUME NEW h \in Handler, Choose(h) PROVE [Path!Next]_(Path!vars)
  <2>1. history' = history /\ run \in RunRow
    BY ZenonT(60), <1>3 DEF Choose, Inv, TypeOK
  <2>2. \/ run' = run
        \/ \E t \in Task, s \in Stamp : run' = [run EXCEPT !.at = t, !.stamp = s, !.due = FALSE]
        \/ EndRun(handler[h].row, "completed") \/ EndRun(handler[h].row, "failed")
    BY <1>3, FreshUnused DEF Choose
  <2>3. \/ run'.state = run.state
        \/ Running /\ run'.state \in {"completed", "failed"}
    <3>1. ASSUME NEW t, NEW s, run' = [run EXCEPT !.at = t, !.stamp = s, !.due = FALSE]
          PROVE  run'.state = run.state
      BY <2>1, <3>1 DEF RunRow
    <3>2. ASSUME NEW st \in {"completed", "failed"}, EndRun(handler[h].row, st)
          PROVE  run' = run \/ (Running /\ run'.state = st)
      BY <3>2 DEF EndRun, Unmoved
    <3> QED
      BY <2>2, <3>1, <3>2
  <2> QED
    BY <2>1, <2>3, PathQuiet, PathEnd
<1>4. CASE CancelRun
  <2>1. Running /\ run'.state = "cancelled" /\ history' = history
    BY <1>4 DEF CancelRun, Inv, TypeOK, RunRow
  <2> QED
    BY <2>1, PathEnd
<1>5. ASSUME NEW h \in Handler,
             \/ (\E e \in events : Deliver(h, e)) \/ MergePlan(h) \/ Enter(h) \/ Reread(h) \/ Spawn(h)
             \/ Check(h) \/ TickReserved(h) \/ Expire(h) \/ SpawnFails(h) \/ TickSelect(h)
             \/ TickTimeout(h) \/ Crash(h) \/ \E t \in Task : Publish(h, t)
      PROVE  UNCHANGED Path!vars
  <2>1. history' = history /\ run \in RunRow
    BY ZenonT(60), <1>5 DEF Deliver, MergePlan, Enter, Reread, Spawn, Check, TickReserved, Expire,
                SpawnFails, TickSelect, TickTimeout, Crash, Publish, Inv, TypeOK
  <2>2. run'.state = run.state
    BY <1>5, <2>1 DEF Deliver, MergePlan, Enter, Reread, Spawn, Check, TickReserved, Expire,
                      SpawnFails, TickSelect, TickTimeout, Crash, Publish, RunRow
  <2> QED
    BY <2>1, <2>2, PathQuiet
<1>6. ASSUME NEW t \in Task,
             TaskEnds(t) \/ Decide(t) \/ ForceComplete(t) \/ LeaseExpires(t) \/ Reopen(t)
      PROVE  UNCHANGED Path!vars
  BY <1>6, PathQuiet DEF TaskEnds, Decide, ForceComplete, LeaseExpires, Reopen
<1>7. CASE Age
  BY <1>7, PathQuiet DEF Age, Inv, TypeOK, RunRow
<1>8. CASE UNCHANGED vars
  BY <1>8, PathQuiet DEF vars
<1> QED
  BY <1>1, <1>2, <1>3, <1>4, <1>5, <1>6, <1>7, <1>8 DEF Next, HandlerStep

LEMMA PathInit == Init => Path!Init
  BY DEF Init, NoRow, Path!Init

\* Every move of the run's history goes to the first node or along an edge of a
\* node taken before, no node is taken more often than its max_attempts, and
\* nothing moves once the run has ended, however threads, late takeovers,
\* crashes, rollbacks and operators interleave (_advance).
THEOREM PathRefined == Spec => PathSpec
<1>1. Inv /\ [Next]_vars => [Path!Next]_(Path!vars)
  BY PathStep
<1> QED
  BY PathInit, RunInvariant, <1>1, PTL DEF Spec, PathSpec, Path!Spec
=============================================================================
