----------------------- MODULE WorkflowBudgetProofs -----------------------
(***************************************************************************)
(* As long as a run takes no task twice, no more tasks are created for a   *)
(* node than its max_attempts, for every workflow and any number of tasks, *)
(* threads and crashes.                                                    *)
(*                                                                         *)
(* The history counts moves, and a task is created a transaction before    *)
(* its move, by a thread that may have lost its reservation meanwhile, or  *)
(* after the run has ended.  What bounds the tasks is that all threads     *)
(* that may still create one would create the same one, that one of them   *)
(* counted an attempt left for it, and that no move is recorded until it   *)
(* is there: at most one task is ahead of the history.                     *)
(***************************************************************************)
EXTENDS WorkflowRunProofs

\* The tasks created for node n.
TasksOf(n) == {t \in Task : task[t].node = n}

\* Thread h has a task that it reserved, or took over, and will finalize.
Carries(h) ==
    handler[h].pc \in {"reread", "choose", "spawn", "finalize"} /\ handler[h].new \in Task

\* Thread h may create that task.
MayCreate(h) == Carries(h) /\ handler[h].pc # "finalize" /\ ~Exists(handler[h].new)

InHistory(t) == \E i \in DOMAIN history : history[i].task = t

\* A reservation is not lost: the row has it until the history has its task.
CarryInv(h) ==
    Carries(h) =>
        run.state # "none" /\ (Running => run.at = handler[h].new \/ InHistory(handler[h].new))

\* A task of node n that the history does not tell of is the last one anybody
\* creates until its move is recorded.
Ahead(n) ==
    /\ Cardinality(TasksOf(n)) = Visits(n) + 1
    /\ Visits(n) < MaxAttempts[n]
    /\ run.state # "none"
    /\ \A h \in Handler : ~MayCreate(h)
    /\ Running => Reserved /\ Exists(run.at) /\ task[run.at].node = n

NodeBudget(n) ==
    /\ IsFiniteSet(TasksOf(n))
    /\ Visits(n) <= MaxAttempts[n]
    /\ Cardinality(TasksOf(n)) <= Visits(n) \/ Ahead(n)

\* A thread that may create a task counted an attempt left for it, and all of
\* them would create the one the run has reserved, if it is still running.
CreateInv(h) ==
    MayCreate(h) =>
        /\ handler[h].pc = "spawn" =>
              Visits(handler[h].target) < MaxAttempts[handler[h].target]
        /\ \A k \in Handler : MayCreate(k) => handler[k].new = handler[h].new

\* A thread that reserved the task itself, and would give it back.
Reserver(h) ==
    /\ handler[h].pc = "spawn" /\ ~handler[h].start
    /\ handler[h].held = handler[h].new /\ handler[h].row.at \notin Task

\* While the row has the updated_at of its reservation nobody took it over, so
\* that giving it back leaves no thread that would create its task.
SoleOwner(h) ==
    Reserver(h) /\ handler[h].mark = run.stamp =>
        \A k \in Handler \ {h} : MayCreate(k) => handler[k].new # handler[h].new

\* Only tasks that exist have a node, or are in the history.
TasksInv ==
    /\ \A t \in Task : ~Exists(t) => task[t].node = None
    /\ \A i \in DOMAIN history : Exists(history[i].task)

BudgetInv ==
    /\ TasksInv
    /\ \A n \in Node : NodeBudget(n)
    /\ \A h \in Handler : CarryInv(h)
    /\ \A h \in Handler : CreateInv(h)
    /\ \A h \in Handler : SoleOwner(h)

-----------------------------------------------------------------------------
(* Frame lemmas *)

\* No task is created, and none changes its node.
SameTasks ==
    \A t \in Task :
        task'[t].node = task[t].node /\ (task'[t].state = "absent" <=> task[t].state = "absent")

\* No thread gets a task to create that it did not have, or a reservation.
Calm ==
    \A k \in Handler :
        /\ Carries(k)' => Carries(k) /\ handler'[k].new = handler[k].new
        /\ MayCreate(k)' =>
             /\ MayCreate(k)
             /\ handler'[k].pc = "spawn" =>
                  Visits(handler'[k].target) < MaxAttempts[handler'[k].target]
        /\ Reserver(k)' =>
             /\ Reserver(k)
             /\ handler'[k].mark = handler[k].mark /\ handler'[k].new = handler[k].new

LEMMA VisitsType ==
    ASSUME TypeOK, NEW n
    PROVE  IsFiniteSet({i \in DOMAIN history : history[i].to = n}) /\ Visits(n) \in Nat
<1>1. DOMAIN history = 1..Len(history) /\ Len(history) \in Nat
  BY DEF TypeOK
<1>2. IsFiniteSet(1..Len(history))
  BY <1>1, FS_Interval
<1>3. {i \in DOMAIN history : history[i].to = n} \in SUBSET (1..Len(history))
  BY <1>1
<1>4. IsFiniteSet({i \in DOMAIN history : history[i].to = n})
  BY <1>2, <1>3, FS_Subset
<1> QED
  BY <1>4, FS_CardinalityType DEF Visits

\* A move recorded is one more visit of its node.
LEMMA VisitsAppend ==
    ASSUME TypeOK, NEW mv \in Move, history' = Append(history, mv), NEW n
    PROVE  Visits(n)' = IF mv.to = n THEN Visits(n) + 1 ELSE Visits(n)
<1> DEFINE old == {i \in DOMAIN history : history[i].to = n}
           new == {i \in DOMAIN history' : history'[i].to = n}
           last == Len(history) + 1
<1>1. /\ DOMAIN history = 1..Len(history) /\ Len(history) \in Nat
      /\ DOMAIN history' = 1..last
      /\ \A i \in 1..Len(history) : history'[i] = history[i]
      /\ history'[last] = mv
  BY DEF TypeOK
<1>2. last \notin old /\ IsFiniteSet(old)
  <2>1. IsFiniteSet(old)
    BY VisitsType
  <2>2. last \notin 1..Len(history)
    BY <1>1
  <2> QED
    BY <1>1, <2>1, <2>2
<1>3. CASE mv.to = n
  <2>1. new = old \cup {last}
    BY <1>1, <1>3
  <2>2. Cardinality(new) = Cardinality(old) + 1
    BY <1>2, <2>1, FS_AddElement
  <2> QED
    BY <1>3, <2>2 DEF Visits
<1>4. CASE mv.to # n
  <2>1. new = old
    BY <1>1, <1>4
  <2> QED
    BY <1>4, <2>1 DEF Visits
<1> QED
  BY <1>3, <1>4

\* Steps that leave the tasks and the history alone count what was counted.
LEMMA CountsKeep ==
    ASSUME SameTasks, history' = history, NEW n
    PROVE  TasksOf(n)' = TasksOf(n) /\ Visits(n)' = Visits(n)
  BY DEF SameTasks, TasksOf, Visits

LEMMA HistoryTask ==
    ASSUME Inv, NEW i \in DOMAIN history
    PROVE  history[i].task \in Task
<1>1. history \in Seq(Move)
  BY DEF Inv, TypeOK
<1>2. history[i] \in Move
  BY <1>1
<1> QED
  BY <1>2 DEF Move

LEMMA TasksKeep ==
    ASSUME Inv, TasksInv, SameTasks, history' = history
    PROVE  TasksInv'
<1>1. \A i \in DOMAIN history : history[i].task \in Task
  BY HistoryTask
<1> QED
  BY <1>1 DEF TasksInv, SameTasks, Exists

\* Steps that give no thread a task to create.
LEMMA CalmStep ==
    ASSUME Inv, BudgetInv, SameTasks, Calm, history' = history,
           run'.state = "none" => run.state = "none",
           Running' => Running /\ run'.at = run.at,
           run'.stamp = run.stamp \/ run'.stamp \in Fresh(Stamp, UsedStamp)
    PROVE  BudgetInv'
<1>1. TasksInv'
  BY TasksKeep DEF BudgetInv
<1>2. ASSUME NEW n \in Node PROVE NodeBudget(n)'
  <2>1. TasksOf(n)' = TasksOf(n) /\ Visits(n)' = Visits(n)
    BY CountsKeep
  <2>2. Ahead(n) => Ahead(n)'
    <3> SUFFICES ASSUME Ahead(n) PROVE Ahead(n)'
      OBVIOUS
    <3>1. \A k \in Handler : ~MayCreate(k)'
      BY DEF Ahead, Calm
    <3>2. Running' => Reserved' /\ Exists(run.at)' /\ task'[run'.at].node = n
      BY DEF Ahead, Reserved, SameTasks, Exists
    <3>3. Cardinality(TasksOf(n)') = Visits(n)' + 1 /\ Visits(n)' < MaxAttempts[n]
      BY <2>1 DEF Ahead
    <3> QED
      BY <3>1, <3>2, <3>3 DEF Ahead
  <2> QED
    BY <2>1, <2>2 DEF BudgetInv, NodeBudget
<1>3. ASSUME NEW k \in Handler PROVE CreateInv(k)'
  <2>1. \A n : Visits(n)' = Visits(n)
    BY DEF Visits
  <2>2. Calm /\ CreateInv(k) /\ \A j \in Handler : CreateInv(j)
    BY DEF BudgetInv
  <2>3. SUFFICES ASSUME MayCreate(k)' PROVE CreateInv(k)'
    BY DEF CreateInv
  <2>4. \A j \in Handler : MayCreate(j)' => MayCreate(j) /\ handler'[j].new = handler[j].new
    BY <2>2 DEF Calm, MayCreate
  <2>5. \A j \in Handler : MayCreate(j)' => handler'[j].new = handler'[k].new
    BY <2>2, <2>3, <2>4 DEF CreateInv
  <2>6. handler'[k].pc = "spawn" => Visits(handler'[k].target) < MaxAttempts[handler'[k].target]
    BY <2>2, <2>3 DEF Calm
  <2> QED
    BY <2>1, <2>5, <2>6 DEF CreateInv
<1>4. ASSUME NEW k \in Handler PROVE SoleOwner(k)'
  <2>1. run'.stamp \in Fresh(Stamp, UsedStamp) => handler[k].mark # run'.stamp
    BY FreshUnused DEF UsedStamp
  <2>2. \A j \in Handler : MayCreate(j)' => MayCreate(j) /\ handler'[j].new = handler[j].new
    BY DEF Calm, MayCreate
  <2> QED
    BY <2>1, <2>2 DEF BudgetInv, SoleOwner, Calm
<1>5. ASSUME NEW k \in Handler PROVE CarryInv(k)'
  <2>1. SUFFICES ASSUME Carries(k)' PROVE CarryInv(k)'
    BY DEF CarryInv
  <2>2. CarryInv(k) /\ Carries(k) /\ handler'[k].new = handler[k].new
    BY <2>1 DEF BudgetInv, Calm
  <2> QED
    BY <2>2 DEF CarryInv, InHistory
<1> QED
  BY <1>1, <1>2, <1>3, <1>4, <1>5 DEF BudgetInv

\* Steps after which no thread has a task to create.
LEMMA NoneCreates ==
    ASSUME TasksInv', \A n \in Node : NodeBudget(n)',
           \A k \in Handler : CarryInv(k)',
           \A k \in Handler : ~MayCreate(k)'
    PROVE  BudgetInv'
  BY DEF BudgetInv, CreateInv, SoleOwner

\* Threads that do not move stay calm.
LEMMA OthersCalm ==
    ASSUME NEW k \in Handler, handler'[k] = handler[k], SameTasks, history' = history,
           CreateInv(k)
    PROVE  /\ MayCreate(k)' <=> MayCreate(k)
           /\ Carries(k)' <=> Carries(k)
           /\ Reserver(k)' <=> Reserver(k)
           /\ MayCreate(k) /\ handler'[k].pc = "spawn" =>
                 Visits(handler'[k].target) < MaxAttempts[handler'[k].target]
<1>1. (Carries(k)' <=> Carries(k)) /\ (Reserver(k)' <=> Reserver(k))
  BY DEF Carries, Reserver
<1>2. MayCreate(k)' <=> MayCreate(k)
  BY <1>1 DEF MayCreate, Carries, SameTasks, Exists
<1> QED
  BY <1>1, <1>2 DEF CreateInv

\* A step of thread h that gives it no task, and lets it spawn none.
LEMMA ThreadCalm ==
    ASSUME Inv, BudgetInv, NEW h \in Handler, NEW row,
           handler' = [handler EXCEPT ![h] = row],
           \/ row.pc \notin {"reread", "choose", "spawn", "finalize"}
           \/ row.pc = "choose" /\ row.new = None
           \/ row.pc = "choose" /\ handler[h].pc = "reread" /\ row.new = handler[h].new
           \/ row.pc = "finalize" /\ handler[h].pc = "spawn" /\ row.new = handler[h].new,
           SameTasks, history' = history
    PROVE  Calm
<1>1. handler'[h] = row /\ \A k \in Handler \ {h} : handler'[k] = handler[k]
  BY DEF Inv, TypeOK
<1>2. Carries(h)' => Carries(h) /\ row.new = handler[h].new
  BY <1>1, Kinds DEF Carries
<1>3. MayCreate(h)' => MayCreate(h) /\ row.pc # "spawn"
  BY <1>1, <1>2, Kinds DEF MayCreate, Carries, SameTasks, Exists
<1>4. ~Reserver(h)'
  BY <1>1 DEF Reserver
<1> QED
  BY <1>1, <1>2, <1>3, <1>4, OthersCalm DEF BudgetInv, Calm, Reserver

\* Steps of the ledger, of operators and of time.
LEMMA RestCalm ==
    ASSUME BudgetInv, UNCHANGED <<handler, history>>, SameTasks
    PROVE  Calm
  BY OthersCalm DEF BudgetInv, Calm, Reserver

\* Steps of the ledger that do not touch the row of the run.
LEMMA CalmRest ==
    ASSUME Inv, BudgetInv, UNCHANGED <<run, history, handler>>, SameTasks
    PROVE  BudgetInv'
  BY RestCalm, CalmStep DEF Running

\* The tasks a transition leaves as they are, but for one state or verdict.
LEMMA SameTasksBy ==
    ASSUME TypeOK, NEW t \in Task, NEW row \in TaskRow, task' = [task EXCEPT ![t] = row],
           row.state # "absent", Exists(t), row.node = task[t].node
    PROVE  SameTasks
  BY DEF TypeOK, SameTasks, Exists

LEMMA EndsSameTasks ==
    ASSUME TypeOK, NEW t \in Task, Exists(t), NEW outcome \in Outcome, NEW pending,
           EndsTask(t, outcome, pending)
    PROVE  SameTasks
<1>1. [task[t] EXCEPT !.state = outcome] \in TaskRow
  BY DEF TypeOK, TaskRow
<1>2. /\ [task[t] EXCEPT !.state = outcome].state # "absent"
      /\ [task[t] EXCEPT !.state = outcome].node = task[t].node
  BY DEF TypeOK, TaskRow, Outcome
<1>3. task' = [task EXCEPT ![t] = [task[t] EXCEPT !.state = outcome]]
  BY DEF EndsTask
<1> QED
  BY <1>1, <1>2, <1>3, SameTasksBy

LEMMA BudgetInit == Init => BudgetInv
<1> SUFFICES ASSUME Init PROVE BudgetInv
  OBVIOUS
<1>1. \A t \in Task : ~Exists(t) /\ task[t].node = None
  BY DEF Init, Exists
<1>2. \A k \in Handler : ~MayCreate(k) /\ ~Carries(k)
  BY DEF Init, MayCreate, Carries, Idle
<1>3. ASSUME NEW n \in Node PROVE NodeBudget(n)
  <2>1. TasksOf(n) = {}
    BY <1>1, Kinds DEF TasksOf
  <2>2. Visits(n) = 0 /\ Visits(n) < MaxAttempts[n] /\ MaxAttempts[n] \in Nat
    BY NoVisits, WorkflowAssumption DEF Init
  <2> QED
    BY <2>1, <2>2, FS_EmptySet DEF NodeBudget
<1> QED
  BY <1>1, <1>2, <1>3 DEF Init, BudgetInv, TasksInv, CarryInv, CreateInv, SoleOwner

-----------------------------------------------------------------------------
(* The ledger and the run's end *)

LEMMA TaskBudget ==
    ASSUME Inv, BudgetInv, NEW t \in Task,
           TaskEnds(t) \/ Decide(t) \/ ForceComplete(t) \/ LeaseExpires(t) \/ Reopen(t)
    PROVE  BudgetInv'
<1>1. UNCHANGED <<run, history, handler>> /\ Exists(t)
  BY DEF TaskEnds, Decide, ForceComplete, LeaseExpires, Reopen, Exists, Cancellable
<1>2. CASE TaskEnds(t)
  <2>1. PICK outcome \in Ends[task[t].node] : EndsTask(t, outcome, events)
    BY <1>2 DEF TaskEnds
  <2>2. outcome \in Outcome
    BY <1>1, <2>1, WorkflowAssumption DEF Inv, LedgerInv, Outcome
  <2> QED
    BY <1>1, <2>1, <2>2, EndsSameTasks, CalmRest DEF Inv
<1>3. CASE Decide(t)
  <2>1. PICK v \in {"approved", "rejected"} : task' = [task EXCEPT ![t].verdict = v]
    BY <1>3 DEF Decide
  <2>2. SameTasks
    BY <1>1, <2>1 DEF Inv, TypeOK, TaskRow, SameTasks
  <2> QED
    BY <1>1, <2>2, CalmRest
<1>4. CASE ForceComplete(t) \/ LeaseExpires(t) \/ Reopen(t)
  <2>1. PICK st \in {"live", "completed", "failed"} : task' = [task EXCEPT ![t].state = st]
    BY <1>4 DEF ForceComplete, LeaseExpires, Reopen
  <2>2. SameTasks
    BY <1>1, <2>1 DEF Inv, TypeOK, TaskRow, SameTasks, Exists
  <2> QED
    BY <1>1, <2>2, CalmRest
<1> QED
  BY <1>2, <1>3, <1>4

LEMMA AgeBudget == Inv /\ BudgetInv /\ Age => BudgetInv'
<1> SUFFICES ASSUME Inv, BudgetInv, Age PROVE BudgetInv'
  OBVIOUS
<1>1. UNCHANGED <<task, history, handler>> /\ run' = [run EXCEPT !.due = TRUE]
  BY DEF Age
<1>2. run'.state = run.state /\ run'.at = run.at /\ run'.stamp = run.stamp
  BY <1>1 DEF Inv, TypeOK, RunRow
<1>3. SameTasks
  BY <1>1 DEF SameTasks
<1> QED
  BY <1>1, <1>2, <1>3, RestCalm, CalmStep DEF Running

\* A cancelled run creates no more tasks than it was about to.
LEMMA CancelBudget == Inv /\ BudgetInv /\ CancelRun => BudgetInv'
<1> SUFFICES ASSUME Inv, BudgetInv, CancelRun PROVE BudgetInv'
  OBVIOUS
<1>1. PICK s \in Fresh(Stamp, UsedStamp) :
         run' = [run EXCEPT !.state = "cancelled", !.stamp = s, !.due = FALSE]
  BY DEF CancelRun
<1>2. run'.state = "cancelled" /\ run'.stamp = s
  BY <1>1 DEF Inv, TypeOK, RunRow
<1>3. UNCHANGED <<history, handler>>
  BY DEF CancelRun
<1>4. SameTasks
  <2>1. CASE run.task # None /\ task[run.task].state \in Cancellable
    <3>1. run.task \in Task /\ EndsTask(run.task, "cancelled", events)
      BY <2>1 DEF Inv, TypeOK, RunRow, CancelRun
    <3>2. Exists(run.task) /\ "cancelled" \in Outcome
      BY <2>1 DEF Exists, Cancellable, Outcome
    <3> QED
      BY <3>1, <3>2, EndsSameTasks DEF Inv
  <2>2. CASE ~(run.task # None /\ task[run.task].state \in Cancellable)
    BY <2>2 DEF CancelRun, SameTasks
  <2> QED
    BY <2>1, <2>2
<1> QED
  BY <1>1, <1>2, <1>3, <1>4, RestCalm, CalmStep DEF Running

-----------------------------------------------------------------------------
(* Steps of threads that create no task *)

\* A thread that ends leaves nothing to create.
LEMMA DoneBudget ==
    ASSUME Inv, BudgetInv, NEW h \in Handler, handler' = [handler EXCEPT ![h] = Idle],
           run' = run, SameTasks, history' = history
    PROVE  BudgetInv'
<1>1. Idle.pc = "idle"
  BY DEF Idle
<1>2. Calm
  BY <1>1, ThreadCalm
<1> QED
  BY <1>2, CalmStep DEF Running

LEMMA OutcomeBudget ==
    ASSUME Inv, BudgetInv, NEW h \in Handler,
           (\E e \in events : Deliver(h, e)) \/ (\E t \in Task : Publish(h, t))
    PROVE  BudgetInv'
<1>1. UNCHANGED <<run, history>> /\ handler[h] = Idle /\ handler \in [Handler -> HandlerRow]
  BY DEF Deliver, Publish, Inv, TypeOK
<1>2. SameTasks
  <2>1. ASSUME NEW e \in events, Deliver(h, e) PROVE SameTasks
    BY <2>1 DEF Deliver, SameTasks
  <2>2. ASSUME NEW t \in Task, Publish(h, t) PROVE SameTasks
    BY <2>2 DEF Publish, Inv, TypeOK, TaskRow, SameTasks
  <2> QED
    BY <2>1, <2>2
<1>3. ASSUME NEW t, NEW outcome, NEW e, Completed(h, t, outcome, e)
      PROVE  BudgetInv'
  <2>1. CASE ~Running
    <3>1. handler' = [handler EXCEPT ![h] = Idle]
      BY <1>1, <1>3, <2>1 DEF Completed
    <3> QED
      BY <1>1, <1>2, <3>1, DoneBudget
  <2>2. CASE Running
    <3> DEFINE row == [Idle EXCEPT !.pc = IF outcome = "completed" /\ task[t].node \in Plan
                                          THEN "merge" ELSE "enter",
                                   !.from = task[t].node,
                                   !.cond = ConditionOf(t, outcome),
                                   !.source = t, !.event = e]
    <3>1. handler' = [handler EXCEPT ![h] = row]
      BY <1>3, <2>2 DEF Completed
    <3>2. row.pc \in {"merge", "enter"}
      BY DEF Idle
    <3>3. Calm
      BY <1>1, <1>2, <3>1, <3>2, ThreadCalm
    <3> QED
      BY <1>1, <1>2, <3>3, CalmStep DEF Running
  <2> QED
    BY <2>1, <2>2
<1> QED
  BY <1>3 DEF Deliver, Publish

LEMMA MergeBudget ==
    ASSUME Inv, BudgetInv, NEW h \in Handler, MergePlan(h)
    PROVE  BudgetInv'
<1> DEFINE row == [handler[h] EXCEPT !.pc = "enter"]
<1>1. UNCHANGED <<task, history>> /\ handler' = [handler EXCEPT ![h] = row] /\ SameTasks
  BY DEF MergePlan, Goto, SameTasks
<1>2. row.pc = "enter"
  BY DEF Inv, TypeOK, HandlerRow
<1>3. Calm
  BY <1>1, <1>2, ThreadCalm
<1>4. /\ run'.state = run.state /\ run'.at = run.at
      /\ run'.stamp = run.stamp \/ run'.stamp \in Fresh(Stamp, UsedStamp)
  BY DEF MergePlan, Inv, TypeOK, RunRow
<1> QED
  BY <1>1, <1>3, <1>4, CalmStep DEF Running

LEMMA TickBudget ==
    ASSUME Inv, BudgetInv, NEW h \in Handler,
           TickSelect(h) \/ TickReserved(h) \/ TickTimeout(h)
    PROVE  BudgetInv'
<1>1. UNCHANGED <<run, task, history>>
  BY DEF TickSelect, TickReserved, TickTimeout
<1>2. SameTasks
  BY <1>1 DEF SameTasks
<1>3. ASSUME NEW row, Goto(h, row), row.pc \in {"idle", "tick", "enter", "expire"}
      PROVE  BudgetInv'
  <2>1. Calm
    BY <1>1, <1>2, <1>3, ThreadCalm DEF Goto
  <2> QED
    BY <1>1, <1>2, <2>1, CalmStep DEF Running
<1>4. CASE TickSelect(h)
  <2>1. [Idle EXCEPT !.pc = "tick"].pc = "tick"
    BY DEF Idle
  <2> QED
    BY <1>3, <1>4, <2>1 DEF TickSelect
<1>5. CASE TickReserved(h)
  <2> DEFINE row == [Idle EXCEPT !.pc = "enter", !.from = task[run.task].node,
                                 !.cond = ConditionOf(run.task, task[run.task].state),
                                 !.source = run.task]
  <2>1. /\ Idle.pc = "idle" /\ [Idle EXCEPT !.pc = "enter"].pc = "enter"
        /\ row.pc = "enter"
    BY DEF Idle
  <2>2. Goto(h, Idle) \/ Goto(h, [Idle EXCEPT !.pc = "enter"]) \/ Goto(h, row)
    BY Zenon, <1>5 DEF TickReserved
  <2> QED
    BY <1>3, <2>1, <2>2
<1>6. CASE TickTimeout(h)
  <2>1. [Idle EXCEPT !.pc = "expire", !.source = run.task].pc = "expire"
    BY DEF Idle
  <2> QED
    BY <1>3, <1>6, <2>1 DEF TickTimeout
<1> QED
  BY <1>4, <1>5, <1>6

LEMMA CheckBudget ==
    ASSUME Inv, BudgetInv, NEW h \in Handler, Check(h) \/ Expire(h)
    PROVE  BudgetInv'
<1>1. UNCHANGED <<run, history>> /\ handler' = [handler EXCEPT ![h] = Idle] /\ HandlerInv(h)
  BY DEF Check, Expire, Inv
<1>2. SameTasks
  <2>1. ASSUME NEW t \in Task, NEW pending, task[t].state \in Cancellable,
               EndsTask(t, "cancelled", pending)
        PROVE  SameTasks
    <3>1. Exists(t) /\ "cancelled" \in Outcome
      BY <2>1 DEF Exists, Cancellable, Outcome
    <3> QED
      BY <2>1, <3>1, EndsSameTasks DEF Inv
  <2>2. CASE UNCHANGED task
    BY <2>2 DEF SameTasks
  <2>3. CASE Check(h)
    BY <1>1, <2>1, <2>2, <2>3 DEF Check, HandlerInv
  <2>4. CASE Expire(h)
    BY <1>1, <2>1, <2>2, <2>4 DEF Expire, HandlerInv
  <2> QED
    BY <2>3, <2>4
<1> QED
  BY <1>1, <1>2, DoneBudget

LEMMA CrashBudget ==
    ASSUME Inv, BudgetInv, NEW h \in Handler, Crash(h)
    PROVE  BudgetInv'
<1>1. SameTasks
  BY DEF Crash, SameTasks
<1> QED
  BY <1>1, DoneBudget DEF Crash, Goto

\* The run ends, or the row has moved and stays as it is.
LEMMA EndBudget ==
    ASSUME Inv, BudgetInv, NEW h \in Handler, NEW row, NEW st \in {"completed", "failed"},
           EndRun(row, st), Done(h), UNCHANGED <<task, history>>
    PROVE  BudgetInv'
<1>1. handler' = [handler EXCEPT ![h] = Idle] /\ Idle.pc = "idle"
  BY DEF Done, Idle
<1>2. SameTasks
  BY DEF SameTasks
<1>3. Calm
  BY <1>1, <1>2, ThreadCalm
<1>4. CASE run' = run
  BY <1>2, <1>3, <1>4, CalmStep DEF Running
<1>5. CASE \E s \in Fresh(Stamp, UsedStamp) :
              run' = [state |-> st, at |-> None, task |-> None, stamp |-> s, due |-> FALSE]
  BY <1>2, <1>3, <1>5, CalmStep DEF Running
<1> QED
  BY <1>4, <1>5 DEF EndRun

-----------------------------------------------------------------------------
(* Steps that reserve, create and record *)

\* Threads other than h keep what they may create, if no task changes.
LEMMA OthersKeep ==
    ASSUME Inv, NEW h \in Handler, NEW row, handler' = [handler EXCEPT ![h] = row],
           task' = task
    PROVE  /\ handler'[h] = row
           /\ \A k \in Handler \ {h} :
                /\ handler'[k] = handler[k]
                /\ MayCreate(k)' <=> MayCreate(k)
                /\ Carries(k)' <=> Carries(k)
                /\ Reserver(k)' <=> Reserver(k)
<1>1. handler'[h] = row /\ \A k \in Handler \ {h} : handler'[k] = handler[k]
  BY DEF Inv, TypeOK
<1> QED
  BY <1>1 DEF MayCreate, Carries, Exists, Reserver

\* What a thread may create is what the run has reserved, if it is running.
LEMMA CreatesReserved ==
    ASSUME BudgetInv, NEW h \in Handler, MayCreate(h)
    PROVE  run.state # "none" /\ (Running => run.at = handler[h].new /\ Reserved)
<1>1. CarryInv(h) /\ Carries(h) /\ ~Exists(handler[h].new) /\ handler[h].new \in Task
  BY DEF BudgetInv, MayCreate, Carries
<1>2. ~InHistory(handler[h].new)
  BY <1>1 DEF BudgetInv, TasksInv, InHistory
<1> QED
  BY <1>1, <1>2 DEF CarryInv, Reserved

\* A thread takes over the reservation of the run: it may create the task the
\* others may, and its updated_at is of no thread's reservation.
LEMMA TakeOverBudget ==
    ASSUME Inv, BudgetInv, NEW h \in Handler, NEW row,
           handler' = [handler EXCEPT ![h] = row], row.pc = "reread", row.new = run.at,
           NEW s \in Fresh(Stamp, UsedStamp), run'.stamp = s,
           Running, Reserved, run'.state = run.state, run'.at = run.at,
           task' = task, history' = history
    PROVE  BudgetInv'
<1>1. /\ handler'[h] = row
      /\ \A k \in Handler \ {h} : /\ handler'[k] = handler[k]
                                  /\ MayCreate(k)' <=> MayCreate(k)
                                  /\ Carries(k)' <=> Carries(k)
                                  /\ Reserver(k)' <=> Reserver(k)
  BY OthersKeep
<1>2. handler'[h].new = run.at /\ ~Reserver(h)'
  BY <1>1 DEF Reserver
<1>3. MayCreate(h)' => ~Exists(run.at)
  BY <1>2 DEF MayCreate, Exists
<1>4. \A n : TasksOf(n)' = TasksOf(n) /\ Visits(n)' = Visits(n)
  BY DEF TasksOf, Visits
<1>5. TasksInv' /\ \A t : InHistory(t)' <=> InHistory(t)
  BY DEF BudgetInv, TasksInv, InHistory, Exists
<1>6. ASSUME NEW n \in Node PROVE NodeBudget(n)'
  <2>1. Ahead(n) => \A k \in Handler : ~MayCreate(k)'
    BY <1>1, <1>3 DEF Ahead
  <2>2. Ahead(n) => Ahead(n)'
    BY <1>4, <2>1 DEF Ahead, Running, Reserved, Exists
  <2> QED
    BY <1>4, <2>2 DEF BudgetInv, NodeBudget
<1>7. ASSUME NEW k \in Handler, MayCreate(k)' PROVE handler'[k].new = run.at
  <2>1. CASE k = h
    BY <1>2, <2>1
  <2>2. CASE k # h
    <3>1. MayCreate(k) /\ handler'[k].new = handler[k].new
      BY <1>1, <1>7, <2>2
    <3> QED
      BY <3>1, CreatesReserved
  <2> QED
    BY <2>1, <2>2
<1>8. ASSUME NEW k \in Handler PROVE CreateInv(k)'
  <2>1. MayCreate(k)' /\ handler'[k].pc = "spawn" =>
           Visits(handler'[k].target) < MaxAttempts[handler'[k].target]
    BY <1>1 DEF BudgetInv, CreateInv
  <2> QED
    BY <1>4, <1>7, <2>1 DEF CreateInv
<1>9. ASSUME NEW k \in Handler PROVE CarryInv(k)'
  <2>1. run'.state # "none"
    BY DEF Running
  <2> QED
    BY <1>1, <1>2, <1>5, <2>1 DEF BudgetInv, CarryInv, Running
<1>10. ASSUME NEW k \in Handler PROVE SoleOwner(k)'
  <2>1. handler[k].mark # s
    BY FreshUnused DEF UsedStamp
  <2> QED
    BY <1>1, <1>2, <2>1 DEF SoleOwner
<1> QED
  BY <1>5, <1>6, <1>8, <1>9, <1>10 DEF BudgetInv

LEMMA EnterBudget ==
    ASSUME Inv, BudgetInv, NEW h \in Handler, Enter(h)
    PROVE  BudgetInv'
<1> DEFINE me == handler[h]
<1>1. task' = task /\ history' = history /\ SameTasks /\ me \in HandlerRow /\ me.pc = "enter"
      /\ me.new = None
  BY DEF Enter, SameTasks, Inv, TypeOK, HandlerInv
<1>2. CASE Done(h) /\ UNCHANGED run
  BY <1>1, <1>2, DoneBudget DEF Done
<1>3. CASE /\ ~Ignored(me) /\ Reserved
           /\ \E s \in Fresh(Stamp, UsedStamp) : run' = [run EXCEPT !.stamp = s, !.due = FALSE]
           /\ Goto(h, [me EXCEPT !.pc = "reread", !.source = None, !.new = run.at])
  <2> DEFINE row == [me EXCEPT !.pc = "reread", !.source = None, !.new = run.at]
  <2>1. PICK s \in Fresh(Stamp, UsedStamp) : run' = [run EXCEPT !.stamp = s, !.due = FALSE]
    BY <1>3
  <2>2. run'.stamp = s /\ run'.state = run.state /\ run'.at = run.at
    BY <2>1 DEF Inv, TypeOK, RunRow
  <2>3. Running /\ Reserved /\ handler' = [handler EXCEPT ![h] = row]
    BY <1>3 DEF Ignored, Goto
  <2>4. row.pc = "reread" /\ row.new = run.at
    BY <1>1 DEF HandlerRow
  <2> QED
    BY <1>1, <2>2, <2>3, <2>4, TakeOverBudget
<1>4. CASE UNCHANGED run /\ Goto(h, [me EXCEPT !.pc = "choose", !.source = None, !.row = run])
  <2> DEFINE row == [me EXCEPT !.pc = "choose", !.source = None, !.row = run]
  <2>1. handler' = [handler EXCEPT ![h] = row]
    BY <1>4 DEF Goto
  <2>2. row.pc = "choose" /\ row.new = None
    BY <1>1 DEF HandlerRow
  <2>3. Calm
    BY <1>1, <2>1, <2>2, ThreadCalm
  <2> QED
    BY <1>1, <1>4, <2>3, CalmStep DEF Running
<1> QED
  BY <1>2, <1>3, <1>4 DEF Enter

LEMMA RereadBudget ==
    ASSUME Inv, BudgetInv, NEW h \in Handler, Reread(h)
    PROVE  BudgetInv'
<1> DEFINE me == handler[h]
           row == [me EXCEPT !.pc = "choose", !.row = run]
<1>1. /\ UNCHANGED <<run, task, history>> /\ SameTasks /\ me \in HandlerRow
      /\ me.pc = "reread" /\ handler' = [handler EXCEPT ![h] = row]
  BY DEF Reread, Goto, SameTasks, Inv, TypeOK
<1>2. row.pc = "choose" /\ row.new = me.new
  BY <1>1 DEF HandlerRow
<1>3. Calm
  BY <1>1, <1>2, ThreadCalm
<1> QED
  BY <1>1, <1>3, CalmStep DEF Running

\* A thread reserves a task nobody may create, for a node with an attempt left.
LEMMA ReserveBudget ==
    ASSUME Inv, BudgetInv, NEW h \in Handler, NEW row,
           handler' = [handler EXCEPT ![h] = row], row.pc = "spawn",
           NEW t \in Fresh(Task, UsedTask), row.new = t, run'.at = t,
           run'.state = "running", ~Running \/ ~Reserved, run.state \in {"none", "running"},
           Visits(row.target) < MaxAttempts[row.target],
           task' = task, history' = history
    PROVE  BudgetInv'
<1>1. /\ handler'[h] = row
      /\ \A k \in Handler \ {h} : /\ handler'[k] = handler[k]
                                  /\ MayCreate(k)' <=> MayCreate(k)
                                  /\ Carries(k)' <=> Carries(k)
                                  /\ Reserver(k)' <=> Reserver(k)
  BY OthersKeep
<1>2. t \in Task /\ ~Exists(t) /\ \A k \in Handler : handler[k].new # t
  BY FreshUnused DEF UsedTask, Exists
<1>3. \A k \in Handler : ~MayCreate(k)
  BY CreatesReserved DEF Running
<1>4. \A k \in Handler \ {h} : ~MayCreate(k)'
  BY <1>1, <1>3
<1>5. handler'[h].new = t
  BY <1>1
<1>6. \A n : TasksOf(n)' = TasksOf(n) /\ Visits(n)' = Visits(n)
  BY DEF TasksOf, Visits
<1>7. TasksInv' /\ \A x : InHistory(x)' <=> InHistory(x)
  BY DEF BudgetInv, TasksInv, InHistory, Exists
<1>8. ASSUME NEW n \in Node PROVE NodeBudget(n)'
  <2>1. ~Ahead(n)
    BY DEF Ahead, Running
  <2> QED
    BY <1>6, <2>1 DEF BudgetInv, NodeBudget
<1>9. ASSUME NEW k \in Handler PROVE CreateInv(k)'
  <2>1. CASE k = h
    <3>1. handler'[h].target = row.target /\ Visits(row.target)' < MaxAttempts[row.target]
      BY <1>1, <1>6
    <3> QED
      BY <1>4, <2>1, <3>1 DEF CreateInv, Visits
  <2>2. CASE k # h
    BY <1>4, <2>2 DEF CreateInv
  <2> QED
    BY <2>1, <2>2
<1>10. ASSUME NEW k \in Handler PROVE SoleOwner(k)'
  <2>1. CASE k = h
    BY <1>4, <2>1 DEF SoleOwner
  <2>2. CASE k # h
    BY <1>1, <1>2, <1>4, <1>5, <2>2 DEF SoleOwner
  <2> QED
    BY <2>1, <2>2
<1>11. ASSUME NEW k \in Handler PROVE CarryInv(k)'
  <2>1. CASE k = h
    BY <1>5, <2>1 DEF CarryInv
  <2>2. ASSUME k # h, Carries(k) PROVE InHistory(handler[k].new)
    <3>1. run.state # "none" /\ (Running => run.at = handler[k].new \/ InHistory(handler[k].new))
      BY <2>2 DEF BudgetInv, CarryInv
    <3>2. Running /\ ~Reserved /\ handler[k].new \in Task
      BY <2>2, <3>1 DEF Running, Carries
    <3> QED
      BY <3>1, <3>2 DEF Reserved
  <2>3. CASE k # h
    BY <1>1, <1>7, <2>2, <2>3 DEF CarryInv
  <2> QED
    BY <2>1, <2>3
<1> QED
  BY <1>7, <1>8, <1>9, <1>10, <1>11 DEF BudgetInv

LEMMA StartBudget ==
    ASSUME Inv, BudgetInv, NEW h \in Handler, StartRun(h)
    PROVE  BudgetInv'
<1>1. PICK t \in Fresh(Task, UsedTask), s \in Fresh(Stamp, UsedStamp) :
         /\ run' = [state |-> "running", at |-> t, task |-> None, stamp |-> s, due |-> FALSE]
         /\ Goto(h, [Idle EXCEPT !.pc = "spawn", !.start = TRUE, !.new = t,
                                 !.target = First, !.held = t, !.mark = s])
  BY DEF StartRun
<1> DEFINE row == [Idle EXCEPT !.pc = "spawn", !.start = TRUE, !.new = t,
                               !.target = First, !.held = t, !.mark = s]
<1>2. task' = task /\ history' = history /\ run.state = "none"
      /\ handler' = [handler EXCEPT ![h] = row]
  BY <1>1 DEF StartRun, Goto
<1>3. row.pc = "spawn" /\ row.new = t /\ row.target = First
  BY DEF Idle
<1>4. Visits(First) < MaxAttempts[First]
  BY <1>2, Kinds, NoVisits DEF Inv, RunInv
<1> QED
  BY <1>1, <1>2, <1>3, <1>4, ReserveBudget DEF Running

\* A thread that took a reservation over counts the attempts anew.
LEMMA TakenBudget ==
    ASSUME Inv, BudgetInv, NEW h \in Handler, NEW row,
           handler' = [handler EXCEPT ![h] = row], row.pc = "spawn",
           handler[h].pc = "choose", row.new = handler[h].new,
           row.row = handler[h].row, row.held = row.row.at,
           row.new \in Task, Visits(row.target) < MaxAttempts[row.target],
           run' = run, task' = task, history' = history
    PROVE  BudgetInv'
<1>1. /\ handler'[h] = row
      /\ \A k \in Handler \ {h} : /\ handler'[k] = handler[k]
                                  /\ MayCreate(k)' <=> MayCreate(k)
                                  /\ Carries(k)' <=> Carries(k)
                                  /\ Reserver(k)' <=> Reserver(k)
  BY OthersKeep
<1>2. /\ MayCreate(h)' => MayCreate(h)
      /\ Carries(h)' => Carries(h) /\ handler'[h].new = handler[h].new
  BY <1>1 DEF MayCreate, Carries, Exists
<1>3. ASSUME NEW k \in Handler \ {h}, MayCreate(k), handler'[k].pc = "spawn"
      PROVE  Visits(handler'[k].target) < MaxAttempts[handler'[k].target]
  BY <1>1, <1>3 DEF BudgetInv, CreateInv
<1>4. Calm
  <2>1. \A k \in Handler \ {h} :
           Reserver(k)' => /\ Reserver(k)
                           /\ handler'[k].mark = handler[k].mark
                           /\ handler'[k].new = handler[k].new
    BY <1>1
  <2>2. \A k \in Handler \ {h} :
           MayCreate(k)' =>
             /\ MayCreate(k)
             /\ handler'[k].pc = "spawn" =>
                  Visits(handler'[k].target) < MaxAttempts[handler'[k].target]
    BY <1>1, <1>3
  <2>3. ~Reserver(h)'
    BY <1>1 DEF Reserver
  <2> QED
    BY <1>1, <1>2, <2>1, <2>2, <2>3 DEF Calm
<1>5. SameTasks
  BY DEF SameTasks
<1> QED
  BY <1>4, <1>5, CalmStep DEF Running

LEMMA ChooseBudget ==
    ASSUME Inv, BudgetInv, NEW h \in Handler, Choose(h)
    PROVE  BudgetInv'
<1> DEFINE me == handler[h]
           target == NextNode(me.from, me.cond)
           next == [me EXCEPT !.pc = "spawn", !.target = target, !.cond = "success"]
<1>1. /\ me \in HandlerRow /\ me.pc = "choose" /\ UNCHANGED <<task, history>>
      /\ run \in RunRow
  BY DEF Inv, TypeOK, Choose
<1>2. ASSUME NEW st \in {"completed", "failed"}, EndRun(me.row, st), Done(h)
      PROVE  BudgetInv'
  BY <1>1, <1>2, EndBudget
<1>3. ASSUME Done(h), UNCHANGED run PROVE BudgetInv'
  <2>1. SameTasks
    BY <1>1 DEF SameTasks
  <2> QED
    BY <1>1, <1>3, <2>1, DoneBudget DEF Done
<1>4. ASSUME Visits(target) < MaxAttempts[target], me.new # None, UNCHANGED run,
             Goto(h, [next EXCEPT !.held = me.row.at, !.mark = me.row.stamp])
      PROVE  BudgetInv'
  <2> DEFINE row == [next EXCEPT !.held = me.row.at, !.mark = me.row.stamp]
  <2>1. /\ row.pc = "spawn" /\ row.new = me.new /\ row.target = target /\ row.row = me.row
        /\ row.held = me.row.at /\ me.new \in Task
    BY <1>1, <1>4 DEF HandlerRow
  <2>2. handler' = [handler EXCEPT ![h] = row]
    BY <1>4 DEF Goto
  <2> QED
    BY <1>1, <1>4, <2>1, <2>2, TakenBudget
<1>5. ASSUME Visits(target) < MaxAttempts[target], me.new = None, Unmoved(me.row),
             NEW t \in Fresh(Task, UsedTask), NEW s \in Fresh(Stamp, UsedStamp),
             run' = [run EXCEPT !.at = t, !.stamp = s, !.due = FALSE],
             Goto(h, [next EXCEPT !.new = t, !.held = t, !.mark = s])
      PROVE  BudgetInv'
  <2> DEFINE row == [next EXCEPT !.new = t, !.held = t, !.mark = s]
  <2>1. row.pc = "spawn" /\ row.new = t /\ row.target = target
    BY <1>1 DEF HandlerRow
  <2>2. handler' = [handler EXCEPT ![h] = row]
    BY <1>5 DEF Goto
  <2>3. RowInv(h)
    BY <1>1, <1>5 DEF Inv, HandlerInv
  <2>4. run.state = "running" /\ run.at = me.row.at /\ ~Reserved
    BY <1>5, <2>3, Kinds DEF Unmoved, Running, Reserved, RowInv
  <2>5. run'.at = t /\ run'.state = "running"
    BY <1>1, <1>5, <2>4 DEF RunRow
  <2> QED
    BY <1>1, <1>5, <2>1, <2>2, <2>4, <2>5, ReserveBudget
<1> QED
  BY ZenonT(60), <1>2, <1>3, <1>4, <1>5 DEF Choose

\* The task is created: the only one anybody may create.
LEMMA CreateBudget ==
    ASSUME Inv, BudgetInv, NEW h \in Handler, NEW row,
           handler[h].pc = "spawn", ~Exists(handler[h].new), handler[h].new \in Task,
           handler[h].target \in Node,
           handler' = [handler EXCEPT ![h] = row], row.pc = "finalize", row.new = handler[h].new,
           task' = [task EXCEPT ![handler[h].new] =
                      [state |-> "live", node |-> handler[h].target, verdict |-> "none"]],
           run' = run, history' = history
    PROVE  BudgetInv'
<1> DEFINE t == handler[h].new
           target == handler[h].target
<1>1. MayCreate(h)
  BY DEF MayCreate, Carries
<1>2. /\ handler'[h] = row /\ \A k \in Handler \ {h} : handler'[k] = handler[k]
      /\ task'[t].node = target /\ task'[t].state = "live"
      /\ \A x \in Task \ {t} : task'[x] = task[x]
      /\ task[t].node = None
  BY DEF Inv, TypeOK, BudgetInv, TasksInv
<1>3. \A k \in Handler : ~MayCreate(k)'
  <2> SUFFICES ASSUME NEW k \in Handler, MayCreate(k)' PROVE FALSE
    OBVIOUS
  <2>1. k # h
    BY <1>2 DEF MayCreate
  <2>2. handler'[k] = handler[k]
    BY <1>2, <2>1
  <2>3. handler[k].new \in Task /\ handler[k].new # t /\ ~Exists(handler[k].new)
    BY <1>2, <2>2 DEF MayCreate, Carries, Exists
  <2>4. MayCreate(k)
    BY <2>2, <2>3 DEF MayCreate, Carries
  <2> QED
    BY <1>1, <2>3, <2>4 DEF BudgetInv, CreateInv
<1>4. TasksInv'
  <2>1. \A i \in DOMAIN history : history[i].task \in Task
    BY HistoryTask
  <2> QED
    BY <1>2, <2>1 DEF BudgetInv, TasksInv, Exists
<1>5. \A n \in Node : Visits(n)' = Visits(n) /\ ~Ahead(n)
  BY <1>1 DEF Visits, Ahead
<1>6. ASSUME NEW n \in Node PROVE NodeBudget(n)'
  <2>1. IsFiniteSet(TasksOf(n)) /\ Cardinality(TasksOf(n)) <= Visits(n)
        /\ Visits(n) <= MaxAttempts[n]
    BY <1>5 DEF BudgetInv, NodeBudget
  <2>2. CASE n = target
    <3>1. TasksOf(n)' = TasksOf(n) \cup {t}
      BY <1>2, <2>2 DEF TasksOf
    <3>2. t \notin TasksOf(n)
      BY <1>2, <2>2, Kinds DEF TasksOf
    <3>3. IsFiniteSet(TasksOf(n)') /\ Cardinality(TasksOf(n)') = Cardinality(TasksOf(n)) + 1
      BY <2>1, <3>1, <3>2, FS_AddElement
    <3>4. /\ Visits(n) < MaxAttempts[n] /\ run.state # "none"
          /\ Running => run.at = t
      BY <1>1, <2>2, CreatesReserved DEF BudgetInv, CreateInv
    <3>5. Running' => Reserved' /\ Exists(run.at)' /\ task'[run'.at].node = n
      BY <1>2, <2>2, <3>4 DEF Running, Reserved, Exists
    <3>6. Cardinality(TasksOf(n)) \in Nat /\ Visits(n) \in Nat
      BY <2>1, FS_CardinalityType, VisitsType DEF Inv
    <3>7. Cardinality(TasksOf(n)') <= Visits(n) \/ Cardinality(TasksOf(n)') = Visits(n) + 1
      BY <2>1, <3>3, <3>6
    <3>8. Cardinality(TasksOf(n)') = Visits(n) + 1 => Ahead(n)'
      BY <1>3, <1>5, <3>4, <3>5 DEF Ahead
    <3> QED
      BY <1>5, <2>1, <3>3, <3>7, <3>8 DEF NodeBudget
  <2>3. CASE n # target
    <3>1. TasksOf(n)' = TasksOf(n)
      BY <1>2, <2>3, Kinds DEF TasksOf
    <3> QED
      BY <1>5, <2>1, <3>1 DEF NodeBudget
  <2> QED
    BY <2>2, <2>3
<1>7. ASSUME NEW k \in Handler PROVE CarryInv(k)'
  <2>1. Carries(k)' => Carries(k) /\ handler'[k].new = handler[k].new
    BY <1>2 DEF Carries
  <2> QED
    BY <2>1 DEF BudgetInv, CarryInv, Running, InHistory
<1> QED
  BY <1>3, <1>4, <1>6, <1>7, NoneCreates

LEMMA SpawnBudget ==
    ASSUME Inv, BudgetInv, NEW h \in Handler, Spawn(h)
    PROVE  BudgetInv'
<1> DEFINE me == handler[h]
           next == [me EXCEPT !.pc = "finalize", !.row = [NoRow EXCEPT !.task = me.row.task]]
<1>1. /\ me \in HandlerRow /\ me.pc = "spawn" /\ UNCHANGED <<run, history>>
      /\ me.new \in Task /\ me.target \in Node
  BY DEF Spawn, Inv, TypeOK, HandlerInv
<1>2. \A b : [next EXCEPT !.seen = b].pc = "finalize" /\ [next EXCEPT !.seen = b].new = me.new
  BY <1>1 DEF HandlerRow
<1>3. CASE /\ task[me.new].state = "absent"
           /\ task' = [task EXCEPT ![me.new] = [state |-> "live", node |-> me.target,
                                                verdict |-> "none"]]
           /\ Goto(h, [next EXCEPT !.seen = TRUE])
  <2>1. handler' = [handler EXCEPT ![h] = [next EXCEPT !.seen = TRUE]] /\ ~Exists(me.new)
    BY <1>3 DEF Goto, Exists
  <2> QED
    BY <1>1, <1>2, <1>3, <2>1, CreateBudget
<1>4. ASSUME NEW row, handler' = [handler EXCEPT ![h] = row], UNCHANGED task,
             row.pc = "idle" \/ (row.pc = "finalize" /\ row.new = me.new)
      PROVE  BudgetInv'
  <2>1. SameTasks
    BY <1>4 DEF SameTasks
  <2>2. Calm
    BY <1>1, <1>4, <2>1, ThreadCalm
  <2> QED
    BY <1>1, <2>1, <2>2, CalmStep DEF Running
<1>5. CASE Goto(h, [next EXCEPT !.seen = task[me.new].state \in Cancellable]) /\ UNCHANGED task
  BY <1>2, <1>4, <1>5 DEF Goto
<1>6. CASE Done(h) /\ UNCHANGED task
  <2>1. Idle.pc = "idle"
    BY DEF Idle
  <2> QED
    BY <1>4, <1>6, <2>1 DEF Done
<1> QED
  BY Zenon, <1>3, <1>5, <1>6 DEF Spawn

\* A row put back leaves nobody with the task of the reservation.
LEMMA SpawnFailsBudget ==
    ASSUME Inv, BudgetInv, NEW h \in Handler, SpawnFails(h)
    PROVE  BudgetInv'
<1> DEFINE me == handler[h]
<1>1. /\ me.pc = "spawn" /\ UNCHANGED <<task, history>> /\ HandlerInv(h)
      /\ handler' = [handler EXCEPT ![h] = Idle] /\ Idle.pc = "idle"
      /\ me.new \in Task /\ ~Exists(me.new) /\ run \in RunRow
  BY DEF SpawnFails, Done, Inv, TypeOK, HandlerInv, Exists, Idle
<1>2. SameTasks
  BY <1>1 DEF SameTasks
<1>3. Calm
  BY <1>1, <1>2, ThreadCalm
<1>4. CASE run' = run
  BY <1>1, <1>2, <1>3, <1>4, CalmStep DEF Running
<1>5. CASE /\ ~me.start /\ Holds(me)
           /\ run' = [run EXCEPT !.at = me.row.at, !.stamp = me.row.stamp, !.due = me.row.due]
  <2>1. /\ Running /\ run.at = me.held /\ run.stamp = me.mark
        /\ run'.state = run.state /\ run'.at = me.row.at /\ run'.stamp = me.row.stamp
    BY <1>1, <1>5 DEF Holds, RunRow
  <2>2. CASE me.held = me.row.at /\ me.mark = me.row.stamp
    BY <1>1, <1>2, <1>3, <2>1, <2>2, CalmStep DEF Running
  <2>3. CASE me.held = me.new /\ RowInv(h)
    <3>1. MayCreate(h) /\ Reserver(h)
      BY <1>1, <1>5, <2>3, Kinds DEF MayCreate, Carries, Reserver, RowInv
    <3>2. \A k \in Handler \ {h} : ~MayCreate(k)
      BY <2>1, <3>1 DEF BudgetInv, CreateInv, SoleOwner
    <3>3. /\ handler'[h] = Idle
          /\ \A k \in Handler \ {h} : /\ handler'[k] = handler[k]
                                      /\ MayCreate(k)' <=> MayCreate(k)
                                      /\ Carries(k)' <=> Carries(k)
      BY <1>1, OthersKeep
    <3>4. ~MayCreate(h)' /\ ~Carries(h)'
      BY <1>1, <3>3 DEF MayCreate, Carries
    <3>5. \A n \in Node : NodeBudget(n)'
      <4>1. \A n \in Node : TasksOf(n)' = TasksOf(n) /\ Visits(n)' = Visits(n)
        BY <1>1, <1>2, CountsKeep
      <4>2. \A n \in Node : ~Ahead(n)
        BY <3>1 DEF Ahead
      <4> QED
        BY <4>1, <4>2 DEF BudgetInv, NodeBudget
    <3>6. TasksInv'
      BY <1>2, <1>1, TasksKeep DEF BudgetInv
    <3>7. ASSUME NEW k \in Handler \ {h} PROVE CarryInv(k)'
      <4>1. ASSUME Carries(k), handler[k].new = me.new PROVE FALSE
        <5>1. handler[k].pc = "finalize"
          BY <1>1, <3>2, <4>1 DEF MayCreate
        <5> QED
          BY <1>1, <4>1, <5>1 DEF Inv, HandlerInv
      <4>2. Carries(k) => InHistory(handler[k].new)
        BY <2>1, <2>3, <4>1 DEF BudgetInv, CarryInv
      <4> QED
        BY <1>1, <2>1, <3>3, <4>2 DEF CarryInv, InHistory, Running
    <3>8. CarryInv(h)'
      BY <3>4 DEF CarryInv
    <3> QED
      BY <3>2, <3>3, <3>4, <3>5, <3>6, <3>7, <3>8, NoneCreates
  <2> QED
    BY <1>1, <1>5, <2>2, <2>3 DEF HandlerInv, HeldInv
<1> QED
  BY <1>4, <1>5 DEF SpawnFails

\* The move of a task that was ahead of the history is recorded.
LEMMA RecordBudget ==
    ASSUME Inv, BudgetInv, TakenOnce', NEW h \in Handler, Finalize(h), Holds(handler[h])
    PROVE  BudgetInv'
<1> DEFINE me == handler[h]
           target == me.target
           mv == [from |-> me.from, to |-> target, task |-> me.new]
<1>1. /\ me \in HandlerRow /\ me.pc = "finalize" /\ task' = task
      /\ me.new \in Task /\ target \in Node /\ Exists(me.new) /\ task[me.new].node = target
      /\ history' = Append(history, mv)
  BY DEF Finalize, Inv, TypeOK, HandlerInv
<1>2. Running /\ TypeOK /\ mv \in Move
  BY <1>1 DEF Holds, Inv, HandlerRow, Move
<1>a. /\ DOMAIN history = 1..Len(history) /\ Len(history) \in Nat
      /\ DOMAIN history' = 1..(Len(history) + 1)
      /\ \A i \in DOMAIN history : history'[i] = history[i]
      /\ history'[Len(history) + 1] = mv
  BY <1>1, <1>2 DEF TypeOK
<1>b. ~InHistory(me.new)
  <2> SUFFICES ASSUME NEW i \in DOMAIN history, history[i].task = me.new PROVE FALSE
    BY DEF InHistory
  <2>1. /\ i \in DOMAIN history' /\ Len(history) + 1 \in DOMAIN history'
        /\ history'[i].task = history'[Len(history) + 1].task
    BY <1>a
  <2>2. i = Len(history) + 1
    BY <2>1 DEF TakenOnce
  <2> QED
    BY <1>a, <2>2
<1>c. run.at = me.new
  <2>1. Carries(h) /\ CarryInv(h)
    BY <1>1 DEF Carries, BudgetInv
  <2> QED
    BY <1>2, <1>b, <2>1 DEF CarryInv
<1>d. \A t : InHistory(t)' <=> (InHistory(t) \/ t = me.new)
  BY <1>a DEF InHistory
<1>3. PICK row : handler' = [handler EXCEPT ![h] = row] /\ row.pc \in {"idle", "check"}
  <2>1. CASE me.start
    <3>1. Idle.pc = "idle"
      BY DEF Idle
    <3>2. handler' = [handler EXCEPT ![h] = Idle]
      BY <2>1 DEF Finalize, Done
    <3> QED
      BY <3>1, <3>2
  <2>2. CASE ~me.start
    <3> DEFINE next == [Idle EXCEPT !.pc = "check", !.event = me.event, !.new = me.new,
                                    !.seen = me.seen]
    <3>1. next.pc = "check"
      BY DEF Idle
    <3>2. handler' = [handler EXCEPT ![h] = next]
      BY <2>2 DEF Finalize, Goto
    <3> QED
      BY <3>1, <3>2
  <2> QED
    BY <2>1, <2>2
<1>4. \A k \in Handler : ~MayCreate(k)
  BY <1>1, <1>2, <1>c, CreatesReserved DEF MayCreate
<1>5. \A k \in Handler : ~MayCreate(k)'
  <2>1. /\ handler'[h] = row
        /\ \A k \in Handler \ {h} : MayCreate(k)' <=> MayCreate(k)
    BY <1>1, <1>3, OthersKeep
  <2>2. ~MayCreate(h)'
    BY <1>3, <2>1 DEF MayCreate, Carries
  <2> QED
    BY <1>4, <2>1, <2>2
<1>6. TasksInv'
  BY <1>1, <1>a DEF BudgetInv, TasksInv, Exists
<1>7. ASSUME NEW n \in Node PROVE NodeBudget(n)'
  <2>1. TasksOf(n)' = TasksOf(n)
    BY <1>1 DEF TasksOf
  <2>2. NodeBudget(n) /\ Visits(n) \in Nat /\ MaxAttempts[n] \in Nat
        /\ Cardinality(TasksOf(n)) \in Nat
    BY <1>2, VisitsType, FS_CardinalityType, WorkflowAssumption DEF BudgetInv, NodeBudget
  <2>3. Visits(n)' = IF target = n THEN Visits(n) + 1 ELSE Visits(n)
    BY <1>1, <1>2, VisitsAppend
  <2>4. CASE n = target
    <3>1. Visits(n) < MaxAttempts[n]
      BY <1>1, <2>4, RoomAtTarget DEF Finalize
    <3>2. Cardinality(TasksOf(n)) <= Visits(n) + 1
      BY <2>2 DEF NodeBudget, Ahead
    <3> QED
      BY <2>1, <2>2, <2>3, <2>4, <3>1, <3>2 DEF NodeBudget
  <2>5. CASE n # target
    <3>1. ~Ahead(n)
      BY <1>1, <1>2, <1>c, <2>5 DEF Ahead
    <3> QED
      BY <2>1, <2>2, <2>3, <2>5, <3>1 DEF NodeBudget
  <2> QED
    BY <2>4, <2>5
<1>8. ASSUME NEW k \in Handler PROVE CarryInv(k)'
  <2>1. Carries(k)' => Carries(k) /\ handler'[k].new = handler[k].new
    <3>1. handler'[h] = row /\ (k # h => handler'[k] = handler[k])
      BY <1>1, <1>3, OthersKeep
    <3> QED
      BY <1>3, <3>1 DEF Carries
  <2>2. Carries(k) => run.state # "none" /\ (handler[k].new = me.new \/ InHistory(handler[k].new))
    BY <1>2, <1>c DEF BudgetInv, CarryInv
  <2>3. run'.state = run.state
    <3>1. PICK s : run' = Taken(me, s)
      BY DEF Finalize
    <3> QED
      BY <3>1 DEF Taken, Inv, TypeOK, RunRow
  <2> QED
    BY <1>d, <2>1, <2>2, <2>3 DEF CarryInv
<1> QED
  BY <1>5, <1>6, <1>7, <1>8, NoneCreates

LEMMA FinalizeBudget ==
    ASSUME Inv, BudgetInv, TakenOnce', NEW h \in Handler, Finalize(h)
    PROVE  BudgetInv'
<1> DEFINE me == handler[h]
           next == [Idle EXCEPT !.pc = "check", !.event = me.event, !.new = me.new,
                                !.seen = me.seen]
<1>1. CASE Holds(me)
  BY <1>1, RecordBudget
<1>2. CASE ~Holds(me)
  <2>1. UNCHANGED <<run, task, history>> /\ SameTasks
    BY <1>2 DEF Finalize, SameTasks
  <2>2. ASSUME NEW row, handler' = [handler EXCEPT ![h] = row], row.pc \in {"idle", "check"}
        PROVE  BudgetInv'
    <3>1. Calm
      BY <2>1, <2>2, ThreadCalm
    <3> QED
      BY <2>1, <3>1, CalmStep DEF Running
  <2>3. Idle.pc = "idle" /\ next.pc = "check"
    BY DEF Idle
  <2>4. handler' = [handler EXCEPT ![h] = Idle] \/ handler' = [handler EXCEPT ![h] = next]
    BY DEF Finalize, Done, Goto
  <2> QED
    BY <2>2, <2>3, <2>4
<1> QED
  BY <1>1, <1>2

-----------------------------------------------------------------------------
(* The theorem *)

\* The history only grows.
LEMMA OnceBefore ==
    ASSUME Inv, [Next]_vars, TakenOnce'
    PROVE  TakenOnce
<1>1. CASE history' = history
  BY <1>1 DEF TakenOnce
<1>2. ASSUME NEW mv, history' = Append(history, mv) PROVE TakenOnce
  <2>1. DOMAIN history \subseteq DOMAIN history'
        /\ \A i \in DOMAIN history : history'[i] = history[i]
    BY <1>2 DEF Inv, TypeOK
  <2> QED
    BY <2>1 DEF TakenOnce
<1>3. history' = history \/ \E mv : history' = Append(history, mv)
  BY DEF Next, vars, HandlerStep, StartRun, Deliver, MergePlan, Enter, Reread, Choose, Spawn,
         SpawnFails, Finalize, Check, TickSelect, TickReserved, TickTimeout, Expire, Crash,
         Publish, TaskEnds, Decide, ForceComplete, LeaseExpires, Reopen, CancelRun, Age
<1> QED
  BY <1>1, <1>2, <1>3

LEMMA BudgetStep ==
    ASSUME Inv, BudgetInv, [Next]_vars, TakenOnce'
    PROVE  BudgetInv'
<1>1. ASSUME NEW h \in Handler, HandlerStep(h) PROVE BudgetInv'
  BY <1>1, MergeBudget, EnterBudget, RereadBudget, ChooseBudget, SpawnBudget, FinalizeBudget, CheckBudget,
     TickBudget DEF HandlerStep
<1>2. ASSUME NEW h \in Handler,
             \/ StartRun(h) \/ (\E e \in events : Deliver(h, e)) \/ SpawnFails(h)
             \/ TickSelect(h) \/ TickTimeout(h) \/ Crash(h) \/ \E t \in Task : Publish(h, t)
      PROVE BudgetInv'
  BY <1>2, StartBudget, OutcomeBudget, SpawnFailsBudget, TickBudget, CrashBudget
<1>3. ASSUME NEW t \in Task,
             TaskEnds(t) \/ Decide(t) \/ ForceComplete(t) \/ LeaseExpires(t) \/ Reopen(t)
      PROVE BudgetInv'
  BY <1>3, TaskBudget
<1>4. CASE CancelRun \/ Age
  BY <1>4, CancelBudget, AgeBudget
<1>5. CASE UNCHANGED vars
  <2>1. UNCHANGED <<run, history, handler>> /\ SameTasks
    BY <1>5 DEF vars, SameTasks
  <2> QED
    BY <2>1, CalmRest
<1> QED
  BY <1>1, <1>2, <1>3, <1>4, <1>5 DEF Next

\* As long as no task is taken twice, no more tasks are created for a node than
\* its max_attempts, although _advance counts the history two transactions
\* before the task exists, and whatever reservations are taken over, rolled back
\* or left by a crash.
THEOREM BudgetKept == Spec => []AttemptBudget
<1>1. Init => Inv /\ (TakenOnce => BudgetInv)
  BY InvInit, BudgetInit
<1>2. (Inv /\ (TakenOnce => BudgetInv)) /\ [Next]_vars => (Inv /\ (TakenOnce => BudgetInv))'
  BY InvStep, BudgetStep, OnceBefore
<1>3. Inv /\ (TakenOnce => BudgetInv) => AttemptBudget
  <2> SUFFICES ASSUME Inv, BudgetInv, NEW n \in Node
               PROVE  Cardinality(TasksOf(n)) <= MaxAttempts[n]
    BY DEF AttemptBudget, TasksOf
  <2>1. /\ NodeBudget(n) /\ Visits(n) \in Nat /\ MaxAttempts[n] \in Nat
        /\ Cardinality(TasksOf(n)) \in Nat
    BY VisitsType, FS_CardinalityType, WorkflowAssumption DEF Inv, BudgetInv, NodeBudget
  <2> QED
    BY <2>1 DEF NodeBudget, Ahead
<1> QED
  BY <1>1, <1>2, <1>3, PTL DEF Spec
=============================================================================
