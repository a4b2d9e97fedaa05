---------------------- MODULE TaskDependenciesProofs ----------------------
(***************************************************************************)
(* No task runs before the dependencies it has then satisfied its join,    *)
(* for every dependency graph, any number of threads, and any crashes.     *)
(*                                                                         *)
(* The argument: only a claim makes a task run, and it has checked the     *)
(* join; and no other step leaves a task running with other dependencies - *)
(* the rewiring of a stale read sends it back to WAITING (Kept).  What the *)
(* threads hold of rows and stacks is typed (Sound).                       *)
(***************************************************************************)
EXTENDS TaskDependencies, SequenceTheorems, TLAPS

\* A thread has what the step it is at needs.
Sound(r) ==
    /\ r \in HandlerRow
    /\ r.pc \in {"write", "note"} => r.row \in TaskRow
    /\ r.pc \in {"walk", "write", "block"} => r.stack # <<>>
    /\ r.pc \in {"enter", "write", "block", "note", "open"} => r.at \in Task

Budgeted(r, t) == r \in TaskRow /\ r.attempts <= MaxAttempts[t]

\* The history has every task that satisfies a join now.
Remembered ==
    \A t \in Task :
        /\ GoalMet(task[t]) => t \in met
        /\ Over(task[t]) => t \in settled

Inv ==
    /\ TypeOK
    /\ \A h \in Handler : Sound(handler[h])
    /\ Remembered
    /\ JoinHonored

\* Row r may follow that of t: if it runs it ran before, or t's join has been
\* checked, and its dependencies are the same.
Kept(r, t) ==
    r.state = "running" =>
        /\ r.deps = task[t].deps
        /\ task[t].state = "running" \/ Joined(t)

\* What every step does to the rows, and to the threads.
TasksKept ==
    /\ DOMAIN task' = Task /\ task' = [t \in Task |-> task'[t]]
    /\ \A t \in Task : Budgeted(task'[t], t) /\ Kept(task'[t], t)

ThreadsSound ==
    /\ handler' = [h \in Handler |-> handler'[h]]
    /\ \A h \in Handler : Sound(handler'[h])

StepKept ==
    /\ TasksKept /\ ThreadsSound
    /\ events' \subseteq Task /\ incidents' \in 0..MaxIncidents

-----------------------------------------------------------------------------
(* Rows *)

LEMMA RowUpdated ==
    ASSUME Inv, NEW t \in Task, NEW r, Budgeted(r, t), Kept(r, t),
           task' = [task EXCEPT ![t] = r]
    PROVE  TasksKept
  BY DEF Inv, TypeOK, TasksKept, Budgeted, Kept

LEMMA RowsUnchanged == Inv /\ UNCHANGED task => TasksKept
  BY DEF Inv, TypeOK, TasksKept, Budgeted, Kept

LEMMA MovedRow ==
    ASSUME NEW t \in Task, NEW r, Budgeted(r, t), NEW s \in State
    PROVE  /\ Budgeted(Moved(r, s), t)
           /\ Moved(r, s).state = s
  BY DEF Budgeted, Moved, TaskRow

LEMMA OpenedRow ==
    ASSUME NEW t \in Task, NEW r, Budgeted(r, t)
    PROVE  /\ Budgeted(Opened(r), t)
           /\ Opened(r).state = "open"
  <1> DEFINE m == Moved(r, "open")
             n == IF r.state \in {"failed", "cancelled"} THEN 0 ELSE m.attempts
  <1>1. Budgeted(m, t) /\ m.state = "open"
    BY MovedRow DEF State
  <1>2. n \in Nat /\ n <= MaxAttempts[t]
    BY <1>1, DependencyAssumption DEF Budgeted, TaskRow
  <1>3. Opened(r) = [m EXCEPT !.attempts = n]
    BY DEF Opened
  <1> HIDE DEF m, n
  <1> QED
    BY <1>1, <1>2, <1>3 DEF Budgeted, TaskRow

LEMMA EndedRow ==
    ASSUME NEW t \in Task, NEW r, Budgeted(r, t),
           NEW s \in {"completed", "failed", "cancelled"},
           NEW f \in {"kept", "met"} \cup Spare
    PROVE  /\ Budgeted(Ended(r, s, f), t)
           /\ Ended(r, s, f).state = s
  BY DEF Budgeted, Ended, Moved, TaskRow, State, Meta

-----------------------------------------------------------------------------
(* Threads *)

LEMMA IdleSound == Sound(Idle)
  <1>1. <<>> \in Seq(Frame)
    BY EmptySeq
  <1> QED
    BY <1>1 DEF Sound, Idle, HandlerRow

LEMMA ThreadUpdated ==
    ASSUME Inv, NEW h \in Handler, NEW r, Sound(r), Goto(h, r)
    PROVE  ThreadsSound
  BY DEF Inv, TypeOK, ThreadsSound, Goto, Sound

LEMMA ThreadsUnchanged == Inv /\ UNCHANGED handler => ThreadsSound
  BY DEF Inv, TypeOK, ThreadsSound

LEMMA PushTyped ==
    ASSUME NEW f \in Frame, NEW s \in Seq(Frame)
    PROVE  Push(f, s) \in Seq(Frame)
  BY DEF Push

LEMMA WithoutTyped ==
    ASSUME NEW s \in Seq(Frame), s # <<>>, NEW t
    PROVE  Without(s, t) \in Seq(Frame)
  <1>1. Head(s) \in Frame /\ Tail(s) \in Seq(Frame)
    BY HeadTailProperties
  <1>2. [Head(s) EXCEPT !.rows = @ \ {t}] \in Frame
    BY <1>1 DEF Frame
  <1> QED
    BY <1>1, <1>2, PushTyped DEF Without

LEMMA WalkingSound ==
    ASSUME NEW h \in Handler, Sound(handler[h]), NEW s \in Seq(Frame)
    PROVE  Sound(Walking(h, s))
  <1>1. handler[h].event \in Task \cup {None}
    BY DEF Sound, HandlerRow
  <1> DEFINE pc == CASE s # <<>> -> "walk"
                     [] handler[h].event # None -> "done"
                     [] OTHER -> "idle"
  <1>2. Walking(h, s) = [Idle EXCEPT !.pc = pc, !.stack = s, !.event = handler[h].event]
    BY Zenon DEF Walking
  <1>3. pc \in {"walk", "done", "idle"} /\ (pc = "walk" => s # <<>>)
    OBVIOUS
  <1> HIDE DEF pc
  <1> QED
    BY <1>1, <1>2, <1>3 DEF Sound, HandlerRow, Idle

LEMMA ProceedsSound ==
    ASSUME Inv, NEW h \in Handler, handler[h].pc \in {"write", "block"}, Proceeds(h)
    PROVE  ThreadsSound
  <1>1. Sound(handler[h]) /\ handler[h].stack \in Seq(Frame) /\ handler[h].stack # <<>>
    BY DEF Inv, Sound, HandlerRow
  <1>2. Sound(Walking(h, Without(handler[h].stack, handler[h].at)))
    BY <1>1, WithoutTyped, WalkingSound
  <1> QED
    BY <1>2, ThreadUpdated DEF Proceeds

LEMMA DescendsSound ==
    ASSUME Inv, NEW h \in Handler, handler[h].pc \in {"write", "block"}, Descends(h)
    PROVE  ThreadsSound
  <1>1. Sound(handler[h]) /\ handler[h].stack \in Seq(Frame) /\ handler[h].stack # <<>>
    BY DEF Inv, Sound, HandlerRow
  <1>2. Without(handler[h].stack, handler[h].at) \in Seq(Frame)
    BY <1>1, WithoutTyped
  <1> DEFINE r == [handler[h] EXCEPT !.pc = "enter", !.row = None,
                                     !.stack = Without(@, handler[h].at)]
  <1>3. Sound(r)
    BY <1>1, <1>2 DEF Sound, HandlerRow
  <1> QED
    BY <1>3, ThreadUpdated DEF Descends

LEMMA ResolvesSound ==
    ASSUME Inv, NEW h \in Handler, NEW t \in Task, Resolves(h, t)
    PROVE  ThreadsSound
  <1> DEFINE r == [Idle EXCEPT !.pc = "enter", !.at = t]
  <1>1. Sound(r)
    BY IdleSound DEF Sound, HandlerRow, Idle
  <1> QED
    BY <1>1, ThreadUpdated DEF Resolves, Goto

LEMMA DrainingSound ==
    ASSUME NEW t \in Task
    PROVE  Sound(Draining(t))
  BY IdleSound DEF Sound, HandlerRow, Idle, Draining

-----------------------------------------------------------------------------
(* The walk over the dependents *)

LEMMA Row ==
    ASSUME Inv, NEW t \in Task
    PROVE  Budgeted(task[t], t)
  BY DEF Inv, TypeOK, Budgeted

LEMMA Halted ==
    ASSUME Inv, NEW t \in Task, NEW r, Budgeted(r, t), r.state # "running",
           task' = [task EXCEPT ![t] = r]
    PROVE  TasksKept
  BY RowUpdated DEF Kept

\* An action that leaves the outbox and the bound alone.
LEMMA Quiet ==
    ASSUME Inv, TasksKept, ThreadsSound, UNCHANGED events,
           incidents' = incidents \/ Incident
    PROVE  StepKept
  BY DependencyAssumption DEF StepKept, Inv, TypeOK, Incident

LEMMA EnterStep ==
    ASSUME Inv, NEW h \in Handler, Enter(h)
    PROVE  StepKept
  <1> DEFINE d == handler[h].at
             frame == [dep |-> d, by |-> Replacement(d), rows |-> Waiters(d)]
  <1>1. Sound(handler[h]) /\ handler[h].stack \in Seq(Frame) /\ d \in Task
    BY DEF Inv, Sound, HandlerRow, Enter
  <1>2. frame \in Frame
    BY <1>1 DEF Frame, Replacement, Waiters
  <1>3. Push(frame, handler[h].stack) \in Seq(Frame)
    BY <1>1, <1>2, PushTyped
  <1>4. Sound(Walking(h, Push(frame, handler[h].stack)))
    BY <1>1, <1>3, WalkingSound
  <1>5. ThreadsSound
    BY <1>4, ThreadUpdated DEF Enter
  <1> QED
    BY <1>5, RowsUnchanged, Quiet DEF Enter

LEMMA ReadStep ==
    ASSUME Inv, NEW h \in Handler, Read(h)
    PROVE  StepKept
  <1>1. Sound(handler[h]) /\ handler[h].stack \in Seq(Frame) /\ handler[h].stack # <<>>
    BY DEF Inv, Sound, HandlerRow, Read
  <1> DEFINE frame == Head(handler[h].stack)
  <1>2. frame \in Frame
    BY <1>1, HeadTailProperties
  <1>3. PICK t \in frame.rows :
          Goto(h, IF frame.dep \in task[t].deps /\ task[t].state = "waiting"
                    THEN [handler[h] EXCEPT !.pc = "write", !.at = t, !.row = task[t]]
                    ELSE Walking(h, Without(handler[h].stack, t)))
    BY DEF Read
  <1>4. t \in Task /\ task[t] \in TaskRow
    BY <1>2 DEF Frame, Inv, TypeOK
  <1>5. Sound([handler[h] EXCEPT !.pc = "write", !.at = t, !.row = task[t]])
    BY <1>1, <1>4 DEF Sound, HandlerRow
  <1>6. Sound(Walking(h, Without(handler[h].stack, t)))
    BY <1>1, WithoutTyped, WalkingSound
  <1>7. ThreadsSound
    BY <1>3, <1>5, <1>6, ThreadUpdated
  <1> QED
    BY <1>7, RowsUnchanged, Quiet DEF Read

\* What a thread that is about to write has read.
LEMMA Reader ==
    ASSUME Inv, NEW h \in Handler, handler[h].pc = "write"
    PROVE  /\ handler[h] \in HandlerRow
           /\ handler[h].at \in Task
           /\ handler[h].row \in TaskRow /\ handler[h].row.meta \in Meta
           /\ Head(handler[h].stack) \in Frame
  <1>1. Sound(handler[h])
    BY DEF Inv
  <1>2. handler[h].stack \in Seq(Frame) /\ handler[h].stack # <<>>
    BY <1>1 DEF Sound, HandlerRow
  <1> QED
    BY <1>1, <1>2, HeadTailProperties DEF Sound, TaskRow

LEMMA RewireStep ==
    ASSUME Inv, NEW h \in Handler, Rewire(h)
    PROVE  StepKept
  <1> DEFINE me == handler[h]
             t == me.at
             frame == Head(me.stack)
  <1>1. /\ t \in Task /\ me.row \in TaskRow /\ me.row.meta \in Meta
        /\ frame \in Frame /\ frame.by \in Task
    BY Reader, DependencyAssumption DEF Rewire, Frame
  <1>2. PICK seen \in {"waiting", task[t].state} :
          task' = [task EXCEPT ![t] =
                     [@ EXCEPT !.state = StateAfterEdit(task[t], seen),
                               !.leased = task[t].leased /\ seen # "running",
                               !.deps = (me.row.deps \ {frame.dep}) \cup {frame.by},
                               !.meta = Repaired(me.row.meta, frame.dep)]]
    BY DEF Rewire
  <1> DEFINE s == StateAfterEdit(task[t], seen)
             l == task[t].leased /\ seen # "running"
             e == (me.row.deps \ {frame.dep}) \cup {frame.by}
             m == Repaired(me.row.meta, frame.dep)
             r == [task[t] EXCEPT !.state = s, !.leased = l, !.deps = e, !.meta = m]
  <1>3. Budgeted(task[t], t)
    BY <1>1, Row
  <1>4. s \in State /\ s # "running"
    BY <1>3 DEF StateAfterEdit, Budgeted, TaskRow, State
  <1>5. e \subseteq Task
    BY <1>1 DEF TaskRow
  <1>6. m \in Meta
    BY <1>1 DEF Repaired, Meta
  <1>7. task' = [task EXCEPT ![t] = r]
    BY <1>2, Zenon
  <1> HIDE DEF s, e, m
  <1>8. l \in BOOLEAN
    OBVIOUS
  <1> HIDE DEF l
  <1>9. Budgeted(r, t) /\ r.state # "running"
    BY <1>3, <1>4, <1>5, <1>6, <1>8 DEF Budgeted, TaskRow
  <1> HIDE DEF r
  <1>10. TasksKept
    BY <1>1, <1>7, <1>9, Halted
  <1>11. ThreadsSound
    BY ProceedsSound DEF Rewire
  <1> QED
    BY <1>10, <1>11, Quiet DEF Rewire

\* A step that only rewrites the metadata of a task.
LEMMA Noted ==
    ASSUME Inv, NEW t \in Task, NEW m \in Meta, task' = [task EXCEPT ![t].meta = m]
    PROVE  TasksKept
  <1> DEFINE r == [task[t] EXCEPT !.meta = m]
  <1>1. Budgeted(task[t], t)
    BY Row
  <1>2. Budgeted(r, t) /\ r.state = task[t].state /\ r.deps = task[t].deps
    BY <1>1 DEF Budgeted, TaskRow
  <1>3. task' = [task EXCEPT ![t] = r]
    OBVIOUS
  <1> HIDE DEF r
  <1> QED
    BY <1>2, <1>3, RowUpdated DEF Kept

LEMMA SuperviseStep ==
    ASSUME Inv, NEW h \in Handler, Supervise(h)
    PROVE  StepKept
  <1> DEFINE me == handler[h]
             m == [me.row.meta EXCEPT !.unsat = @ \cup {Head(me.stack).dep}, !.mark = TRUE]
  <1>1. me.at \in Task /\ me.row.meta \in Meta /\ Head(me.stack).dep \in Task
    BY Reader DEF Supervise, Frame
  <1>2. m \in Meta
    BY <1>1 DEF Meta
  <1>3. TasksKept
    BY <1>1, <1>2, Noted DEF Supervise
  <1>4. Sound([me EXCEPT !.pc = "block"])
    BY DEF Inv, Sound, HandlerRow, Supervise
  <1>5. ThreadsSound
    BY <1>4, ThreadUpdated, ProceedsSound DEF Supervise
  <1> QED
    BY <1>3, <1>5, Quiet DEF Supervise

LEMMA BlockStep ==
    ASSUME Inv, NEW h \in Handler, Block(h)
    PROVE  StepKept
  <1> DEFINE t == handler[h].at
  <1>1. Sound(handler[h]) /\ t \in Task
    BY DEF Inv, Sound, Block
  <1> DEFINE m == Moved(task[t], "blocked")
             r == [m EXCEPT !.manual = FALSE]
  <1>2. Budgeted(m, t) /\ m.state = "blocked"
    BY <1>1, Row, MovedRow DEF State
  <1> HIDE DEF m
  <1>3. Budgeted(r, t) /\ r.state = "blocked"
    BY <1>2 DEF Budgeted, TaskRow
  <1>4. ThreadsSound
    BY DescendsSound, ProceedsSound DEF Block
  <1>5. UNCHANGED task \/ task' = [task EXCEPT ![t] = r]
    BY DEF Block, m
  <1> HIDE DEF r
  <1>6. TasksKept
    BY <1>1, <1>3, <1>5, Halted, RowsUnchanged
  <1> QED
    BY <1>4, <1>6, Quiet DEF Block

LEMMA CascadeStep ==
    ASSUME Inv, NEW h \in Handler, Cascade(h)
    PROVE  StepKept
  <1> DEFINE t == handler[h].at
  <1>1. t \in Task
    BY Reader DEF Cascade
  <1>2. /\ Budgeted(Ended(task[t], "cancelled", "kept"), t)
        /\ Ended(task[t], "cancelled", "kept").state = "cancelled"
    <2>1. Budgeted(task[t], t)
      BY <1>1, Row
    <2> QED
      BY <1>1, <2>1, EndedRow
  <1>3. ThreadsSound
    BY DescendsSound, ProceedsSound DEF Cascade
  <1>4. TasksKept
    BY <1>1, <1>2, Halted, RowsUnchanged DEF Cascade
  <1> QED
    BY <1>3, <1>4, Quiet DEF Cascade

-----------------------------------------------------------------------------
(* The outbox, the sweep and the claim *)

LEMMA DrainStep ==
    ASSUME Inv, NEW h \in Handler, NEW t \in Task, Drain(h, t)
    PROVE  StepKept
  BY DrainingSound, ThreadUpdated, RowsUnchanged, Quiet DEF Drain

LEMMA DeliveredStep ==
    ASSUME Inv, NEW h \in Handler, Delivered(h)
    PROVE  StepKept
  <1>1. TasksKept /\ ThreadsSound
    BY IdleSound, ThreadUpdated, RowsUnchanged DEF Delivered
  <1> QED
    BY <1>1 DEF Delivered, StepKept, Inv, TypeOK

LEMMA SweepFindsStep ==
    ASSUME Inv, NEW h \in Handler, NEW t \in Task, SweepFinds(h, t)
    PROVE  StepKept
  <1>1. PICK pc \in {"note", "open"} :
          Goto(h, [Idle EXCEPT !.pc = pc, !.at = t, !.row = task[t]])
    BY DEF SweepFinds
  <1>2. task[t] \in TaskRow
    BY DEF Inv, TypeOK
  <1>3. Sound([Idle EXCEPT !.pc = pc, !.at = t, !.row = task[t]])
    BY <1>2, IdleSound DEF Sound, HandlerRow, Idle
  <1>4. ThreadsSound
    BY <1>1, <1>3, ThreadUpdated
  <1> QED
    BY <1>4, RowsUnchanged, Quiet DEF SweepFinds

LEMMA SweepNotesStep ==
    ASSUME Inv, NEW h \in Handler, SweepNotes(h)
    PROVE  StepKept
  <1> DEFINE me == handler[h]
             m == IF Supervised(me.row) THEN [me.row.meta EXCEPT !.unsat = {}, !.mark = FALSE]
                                        ELSE me.row.meta
  <1>1. Sound(me) /\ me.at \in Task /\ me.row \in TaskRow
    BY DEF Inv, Sound, SweepNotes
  <1>2. m \in Meta
    BY <1>1 DEF TaskRow, Meta
  <1>3. TasksKept
    BY <1>1, <1>2, Noted DEF SweepNotes
  <1>4. Sound([me EXCEPT !.pc = "open"])
    BY <1>1 DEF Sound, HandlerRow
  <1>5. ThreadsSound
    BY <1>4, ThreadUpdated DEF SweepNotes
  <1> QED
    BY <1>3, <1>5, Quiet DEF SweepNotes

LEMMA OpenedStep ==
    ASSUME Inv, NEW t \in Task, task' = [task EXCEPT ![t] = Opened(task[t])]
    PROVE  TasksKept
  <1>1. Budgeted(Opened(task[t]), t) /\ Opened(task[t]).state = "open"
    BY Row, OpenedRow
  <1> QED
    BY <1>1, Halted

LEMMA MovedStep ==
    ASSUME Inv, NEW t \in Task, NEW s \in State, s # "running",
           task' = [task EXCEPT ![t] = Moved(task[t], s)]
    PROVE  TasksKept
  <1>1. Budgeted(Moved(task[t], s), t) /\ Moved(task[t], s).state = s
    BY Row, MovedRow
  <1> QED
    BY <1>1, Halted

LEMMA EndedStep ==
    ASSUME Inv, NEW t \in Task, NEW s \in {"completed", "failed", "cancelled"},
           NEW f \in {"kept", "met"} \cup Spare,
           task' = [task EXCEPT ![t] = Ended(task[t], s, f)]
    PROVE  TasksKept
  <1>1. Budgeted(Ended(task[t], s, f), t) /\ Ended(task[t], s, f).state = s
    BY Row, EndedRow
  <1> QED
    BY <1>1, Halted

LEMMA SweepOpensStep ==
    ASSUME Inv, NEW h \in Handler, SweepOpens(h)
    PROVE  StepKept
  <1>1. handler[h].at \in Task
    BY DEF Inv, Sound, SweepOpens
  <1>2. TasksKept
    BY <1>1, OpenedStep, RowsUnchanged DEF SweepOpens
  <1>3. ThreadsSound
    BY IdleSound, ThreadUpdated DEF SweepOpens
  <1> QED
    BY <1>2, <1>3, Quiet DEF SweepOpens

LEMMA SweepMigratesStep ==
    ASSUME Inv, NEW h \in Handler, NEW t \in Task, SweepMigrates(h, t)
    PROVE  StepKept
  BY MovedStep, ThreadsUnchanged, Quiet DEF SweepMigrates, State

LEMMA OpenToClaimStep ==
    ASSUME Inv, NEW t \in Task, OpenToClaim(t)
    PROVE  StepKept
  BY OpenedStep, ThreadsUnchanged, Quiet DEF OpenToClaim

LEMMA ClaimStep ==
    ASSUME Inv, NEW t \in Task, Claim(t)
    PROVE  StepKept
  <1> DEFINE n == task[t].attempts + 1
             r == [task[t] EXCEPT !.state = "running", !.leased = TRUE, !.attempts = n]
  <1>1. Budgeted(task[t], t)
    BY Row
  <1>2. n \in Nat /\ n <= MaxAttempts[t]
    BY <1>1, DependencyAssumption DEF Claim, Budgeted, TaskRow
  <1>3. task' = [task EXCEPT ![t] = r]
    BY DEF Claim, Inv, TypeOK
  <1> HIDE DEF n
  <1>4. Budgeted(r, t) /\ r.deps = task[t].deps
    BY <1>1, <1>2 DEF Budgeted, TaskRow, State
  <1>5. Kept(r, t)
    BY <1>4 DEF Kept, Claim
  <1> HIDE DEF r
  <1>6. TasksKept
    BY <1>3, <1>4, <1>5, RowUpdated
  <1> QED
    BY <1>6, ThreadsUnchanged, Quiet DEF Claim

-----------------------------------------------------------------------------
(* Ends of attempts and operators *)

LEMMA CompleteStep ==
    ASSUME Inv, NEW t \in Task, Complete(t)
    PROVE  StepKept
  BY EndedStep, ThreadsUnchanged, Quiet DEF Complete

LEMMA AttemptBlocksStep ==
    ASSUME Inv, NEW t \in Task, AttemptBlocks(t)
    PROVE  StepKept
  <1> DEFINE m == Moved(task[t], "blocked")
             r == [m EXCEPT !.manual = TRUE]
  <1>1. Budgeted(m, t) /\ m.state = "blocked"
    BY Row, MovedRow DEF State
  <1>2. task' = [task EXCEPT ![t] = r]
    BY DEF AttemptBlocks
  <1> HIDE DEF m
  <1>3. Budgeted(r, t) /\ r.state = "blocked"
    BY <1>1 DEF Budgeted, TaskRow
  <1> HIDE DEF r
  <1>4. TasksKept
    BY <1>2, <1>3, Halted
  <1> QED
    BY <1>4, ThreadsUnchanged, Quiet DEF AttemptBlocks

LEMMA AttemptFailsStep ==
    ASSUME Inv, NEW h \in Handler, NEW t \in Task, AttemptFails(h, t)
    PROVE  StepKept
  BY EndedStep, ResolvesSound, Quiet DEF AttemptFails

LEMMA AutoRetryStep ==
    ASSUME Inv, NEW h \in Handler, NEW t \in Task, AutoRetry(h, t)
    PROVE  StepKept
  <1> DEFINE o == Opened(task[t])
             n == task[t].attempts - 1
             r == [o EXCEPT !.attempts = n]
  <1>1. \/ task' = [task EXCEPT ![t] = o]
        \/ task' = [task EXCEPT ![t] = r]
        \/ \E s \in {"failed", "cancelled"} : task' = [task EXCEPT ![t] = Ended(task[t], s, "kept")]
    BY Zenon DEF AutoRetry
  <1>2. Budgeted(task[t], t) /\ Budgeted(o, t) /\ o.state = "open"
    BY Row, OpenedRow
  <1>3. n \in Nat /\ n <= MaxAttempts[t]
    BY <1>2, DependencyAssumption DEF AutoRetry, Budgeted, TaskRow
  <1>4. (\E s \in {"failed", "cancelled"} : task' = [task EXCEPT ![t] = Ended(task[t], s, "kept")])
          => TasksKept
    BY EndedStep
  <1> HIDE DEF o, n
  <1>5. Budgeted(r, t) /\ r.state = "open"
    BY <1>2, <1>3 DEF Budgeted, TaskRow
  <1> HIDE DEF r
  <1>6. TasksKept
    BY <1>1, <1>2, <1>4, <1>5, Halted
  <1>7. ThreadsSound
    BY ResolvesSound, ThreadsUnchanged DEF AutoRetry
  <1> QED
    BY <1>6, <1>7, Quiet DEF AutoRetry

LEMMA CancelInFlowStep ==
    ASSUME Inv, NEW h \in Handler, NEW t \in Task, CancelInFlow(h, t)
    PROVE  StepKept
  <1>1. TasksKept /\ ThreadsSound
    BY EndedStep, DrainingSound, ThreadUpdated DEF CancelInFlow
  <1> QED
    BY <1>1 DEF CancelInFlow, StepKept, Inv, TypeOK

LEMMA CancelStep ==
    ASSUME Inv, NEW h \in Handler, NEW t \in Task, Cancel(h, t)
    PROVE  StepKept
  <1>1. PICK f \in {"kept", "met"} \cup Spare :
          task' = [task EXCEPT ![t] = Ended(task[t], "cancelled", f)]
    BY DEF Cancel
  <1>2. TasksKept
    BY <1>1, EndedStep
  <1>3. ThreadsSound
    BY ResolvesSound DEF Cancel
  <1> QED
    BY <1>2, <1>3, Quiet DEF Cancel

LEMMA OperatorStep ==
    ASSUME Inv, NEW t \in Task,
           LeaseExpires(t) \/ ForceComplete(t) \/ Stop(t) \/ Start(t)
    PROVE  StepKept
  <1>1. CASE LeaseExpires(t)
    <2>1. PICK s \in {"open", "failed"} : task' = [task EXCEPT ![t] = Moved(task[t], s)]
      BY <1>1 DEF LeaseExpires
    <2> QED
      BY <1>1, <2>1, MovedStep, ThreadsUnchanged, Quiet DEF LeaseExpires, State
  <1>2. CASE ForceComplete(t)
    BY <1>2, EndedStep, ThreadsUnchanged, Quiet DEF ForceComplete
  <1>3. CASE Stop(t)
    BY <1>3, MovedStep, ThreadsUnchanged, Quiet DEF Stop, State
  <1>4. CASE Start(t)
    <2>1. TasksKept
      BY <1>4, OpenedStep, MovedStep DEF Start, State
    <2> QED
      BY <1>4, <2>1, ThreadsUnchanged, Quiet DEF Start
  <1> QED
    BY <1>1, <1>2, <1>3, <1>4

LEMMA ReopenStep ==
    ASSUME Inv, NEW t \in Task, Reopen(t)
    PROVE  StepKept
  <1> DEFINE o == Opened(task[t])
             m == [o.meta EXCEPT !.unsat = {}, !.mark = FALSE]
             r == [o EXCEPT !.meta = m]
  <1>1. Budgeted(o, t) /\ o.state = "open"
    BY Row, OpenedRow
  <1>2. task' = [task EXCEPT ![t] = [o EXCEPT !.meta.unsat = {}, !.meta.mark = FALSE]]
    BY DEF Reopen
  <1> HIDE DEF o
  <1>3. o.meta \in Meta
    BY <1>1 DEF Budgeted, TaskRow
  <1>4. m \in Meta
    BY <1>3 DEF Meta
  <1>5. task' = [task EXCEPT ![t] = r]
    BY <1>1, <1>2 DEF Budgeted, TaskRow
  <1> HIDE DEF m
  <1>6. Budgeted(r, t) /\ r.state = "open"
    BY <1>1, <1>4 DEF Budgeted, TaskRow
  <1> HIDE DEF r
  <1>7. TasksKept
    BY <1>5, <1>6, Halted
  <1> QED
    BY <1>7, ThreadsUnchanged, Quiet DEF Reopen

LEMMA CrashStep ==
    ASSUME Inv, NEW h \in Handler, Crash(h)
    PROVE  StepKept
  BY IdleSound, ThreadUpdated, RowsUnchanged, Quiet DEF Crash

-----------------------------------------------------------------------------
(* The invariant *)

LEMMA StepStep ==
    ASSUME Inv, Step
    PROVE  StepKept
  <1>1. CASE \E h \in Handler : HandlerStep(h) \/ Crash(h)
    BY <1>1, EnterStep, ReadStep, RewireStep, SuperviseStep, BlockStep, CascadeStep,
       DeliveredStep, SweepNotesStep, SweepOpensStep, CrashStep, Zenon DEF HandlerStep
  <1>2. CASE \E h \in Handler : \E t \in Task :
               \/ Drain(h, t) \/ Sweep(h, t) \/ AttemptFails(h, t) \/ AutoRetry(h, t)
               \/ Cancel(h, t) \/ CancelInFlow(h, t)
    BY <1>2, DrainStep, SweepFindsStep, SweepMigratesStep, AttemptFailsStep, AutoRetryStep,
       CancelStep, CancelInFlowStep, Zenon DEF Sweep
  <1>3. CASE \E t \in Task :
               \/ OpenToClaim(t) \/ Claim(t) \/ Complete(t) \/ AttemptBlocks(t)
               \/ LeaseExpires(t) \/ Reopen(t) \/ ForceComplete(t) \/ Stop(t) \/ Start(t)
    BY <1>3, OpenToClaimStep, ClaimStep, CompleteStep, AttemptBlocksStep, OperatorStep,
       ReopenStep, Zenon
  <1> QED
    BY <1>1, <1>2, <1>3, Zenon DEF Step

\* Only rows that ran, or whose join is satisfied, run after the step.
LEMMA JoinStep ==
    ASSUME Inv, StepKept, Observed
    PROVE  JoinHonored'
  <1> SUFFICES ASSUME NEW t \in Task, task'[t].state = "running"
               PROVE  task'[t].deps \subseteq (IF t \in Settled THEN settled' ELSE met')
    BY DEF JoinHonored
  <1>1. /\ task'[t].deps = task[t].deps
        /\ task[t].state = "running" \/ Joined(t)
    BY DEF StepKept, TasksKept, Kept
  <1>2. met \subseteq met' /\ settled \subseteq settled'
    BY DEF Observed
  <1>3. CASE task[t].state = "running"
    BY <1>1, <1>2, <1>3 DEF Inv, JoinHonored
  <1>4. CASE Joined(t)
    <2>1. task[t].deps \subseteq Task
      BY DEF Inv, TypeOK, TaskRow
    <2>2. \A d \in task[t].deps : d \in (IF t \in Settled THEN settled ELSE met)
      BY <1>4, <2>1 DEF Joined, Inv, Remembered
    <2> QED
      BY <1>1, <1>2, <2>2
  <1> QED
    BY <1>1, <1>3, <1>4

LEMMA InvInit == Init => Inv
  <1> SUFFICES ASSUME Init PROVE Inv
    OBVIOUS
  <1>1. \A t \in Task : Created(t) \in TaskRow /\ Created(t).attempts = 0
    BY DependencyAssumption DEF Created, TaskRow, State, Fresh, Meta
  <1>2. \A t \in Task : Created(t).state \in {"open", "waiting"}
    BY DEF Created
  <1>3. TypeOK
    BY <1>1, IdleSound, DependencyAssumption DEF Init, TypeOK, Sound
  <1>4. \A h \in Handler : Sound(handler[h])
    BY IdleSound DEF Init
  <1>5. Remembered
    BY <1>2 DEF Init, Remembered, GoalMet, Over, Supervised
  <1>6. JoinHonored
    BY <1>2 DEF Init, JoinHonored
  <1> QED
    BY <1>3, <1>4, <1>5, <1>6 DEF Inv

LEMMA InvStep == Inv /\ [Next]_vars => Inv'
  <1> SUFFICES ASSUME Inv, [Next]_vars PROVE Inv'
    OBVIOUS
  <1>1. CASE Next
    <2>1. StepKept /\ Observed
      BY <1>1, StepStep DEF Next
    <2>2. TypeOK'
      BY <2>1 DEF StepKept, TasksKept, ThreadsSound, Budgeted, Sound, Observed, Inv, TypeOK
    <2>3. \A h \in Handler : Sound(handler'[h])
      BY <2>1 DEF StepKept, ThreadsSound
    <2>4. Remembered'
      BY <2>1 DEF Observed, Remembered
    <2>5. JoinHonored'
      BY <2>1, JoinStep
    <2> QED
      BY <2>2, <2>3, <2>4, <2>5 DEF Inv
  <1>2. CASE UNCHANGED vars
    BY <1>2 DEF vars, Inv, TypeOK, Remembered, JoinHonored
  <1> QED
    BY <1>1, <1>2 DEF Next

\* The inductive invariant holds in every reachable state: threads hold what
\* their next step needs, and the history knows every satisfied join.
THEOREM DependenciesInvariant == Spec => []Inv
  <1> QED
    BY InvInit, InvStep, PTL DEF Spec

\* Rows, recursion stacks and what threads have read keep their types, and no
\* task gets more attempts than its max_attempts, through every sweep, retry
\* and reopening (claim_task counts them again).
THEOREM DependenciesTyped == Spec => []TypeOK
  <1>1. Inv => TypeOK
    BY DEF Inv
  <1> QED
    BY DependenciesInvariant, <1>1, PTL

\* A running task's dependencies have each satisfied its join, for any graph
\* and any number of threads that rewire, supervise and sweep around the claim.
THEOREM JoinsHonored == Spec => []JoinHonored
  <1>1. Inv => JoinHonored
    BY DEF Inv
  <1> QED
    BY DependenciesInvariant, <1>1, PTL
=============================================================================
