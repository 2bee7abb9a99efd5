-------------------------- MODULE CeleryStepProofs --------------------------
(***************************************************************************)
(* Any number of schedulers, executors, commands and worker processes:     *)
(* the invariant with which CeleryProofs shows that there is one execution *)
(* at a time, what the steps that leave the collections of the executors   *)
(* alone, or only queue in them, do to it, and the types of the variables  *)
(* of CeleryScheduling other than the executors.                           *)
(***************************************************************************)
EXTENDS CeleryScheduling, TLAPS

-----------------------------------------------------------------------------
(* Keys, rows and processes.                                               *)

\* The key of a row.
LEMMA KeyType ==
  ASSUME NEW t \in Row
  PROVE  try_number(t) \in Keys /\ t.try_number \in Int
BY CeleryAssumption DEF Row, try_number, Keys, TryNumbers

\* An empty dict has no keys.
LEMMA EmptyFacts ==
  ASSUME NEW V
  PROVE  EmptyDict \in Dict(V) /\ KeysOf(EmptyDict) = {} /\ \A k \in Keys : EmptyDict[k].at = 0
BY DEF EmptyDict, Dict, KeysOf, Absent

\* What the operations on rows return.
LEMMA RowFacts ==
  ASSUME NEW t \in Row
  PROVE  /\ \A st \in TaskInstanceState : set_state(t, st) \in Row
         /\ handle_failure(t) \in Row
         /\ handle_failure(t).try_number = t.try_number
         /\ handle_failure(t).state \in {"up_for_retry", "failed"}
BY DEF Row, set_state, handle_failure, TaskInstanceState

RowType ==
  /\ scenario \in Scenarios /\ ti \in Row
  /\ callback \in BOOLEAN /\ handling \in Row \cup {None}
  /\ executions \in Nat /\ succeeded \in BOOLEAN

ExecutorType ==
  /\ executor \in [Schedulers -> Executor]
  /\ \A s \in Schedulers : executor[s].sending \subseteq executor[s].queued_tasks

LoopType ==
  /\ pc \in [Schedulers -> {"schedule", "queue", "trigger", "sync", "events", "apply", "timers", "dead"}]
  /\ DOMAIN read = Schedulers
  /\ \A s \in Schedulers :
       read[s] \in IF pc[s] = "apply" THEN [row : Row, key : Keys, event : ExecutorEvent] ELSE {None}
  /\ job_state \in [Schedulers -> {"running", "failed"}] /\ late \subseteq Schedulers

WorkerType ==
  /\ celery \in [Messages -> {"none", "pending", "started", "success", "failure"}]
  /\ copies \subseteq {m \in Messages : celery[m] # "none"}
  /\ proc \in [Procs -> [pc : {"idle", "check", "claim", "send_back", "run", "exit_success", "exit_failure"},
                         id : Messages \cup {None}, row : Row \cup {None}]]
  /\ \A p \in Procs :
       /\ proc[p].pc # "idle" => proc[p].id \in Messages /\ celery[proc[p].id] # "none"
       /\ proc[p].pc \in {"claim", "send_back", "run"} => proc[p].row \in Row
       /\ proc[p].pc = "claim" => proc[p].row.try_number < MaxTry

\* A worker process goes on with its command.
LEMMA ProcToFacts ==
  ASSUME WorkerType, NEW p \in Procs, NEW to, NEW row, ProcTo(p, to, row)
  PROVE  proc' = [proc EXCEPT ![p] = [pc |-> to, id |-> proc[p].id, row |-> row]]
<1> DEFINE old == proc[p]
           half == [old EXCEPT !.pc = to]
           new == [half EXCEPT !.row = row]
<1>1. DOMAIN proc = Procs /\ proc = [q \in Procs |-> proc[q]] /\ old = [pc |-> old.pc, id |-> old.id, row |-> old.row]
  BY DEF WorkerType
<1> HIDE DEF old
<1>2. half = [pc |-> to, id |-> old.id, row |-> old.row]
  BY <1>1
<1> HIDE DEF half
<1>3. new = [pc |-> to, id |-> old.id, row |-> row]
  BY <1>2
<1> HIDE DEF new
<1>4. proc' = [proc EXCEPT ![p] = new]
  BY <1>1, Zenon DEF ProcTo, old, half, new
<1> QED
  BY <1>3, <1>4 DEF old

\* The parts of the type invariant.
LEMMA TypeParts == TypeOK <=> RowType /\ ExecutorType /\ LoopType /\ WorkerType
BY Zenon DEF TypeOK, RowType, ExecutorType, LoopType, WorkerType

\* Nothing changes for the workers.
LEMMA WorkerTypeSame ==
  ASSUME WorkerType, UNCHANGED <<broker, proc>>
  PROVE  WorkerType'
BY DEF WorkerType, broker

-----------------------------------------------------------------------------
(* One execution at a time.  A queued task instance is in the hands of one *)
(* at most: a command that is to be sent, a command in the broker, a       *)
(* worker process, or the event that its publication failed.               *)

\* Nothing happens by which an attempt has two commands, or two attempts have one key.
OneCommand ==
  scenario.may \cap {"crash", "stall", "redeliver", "publish_timeout", "requeue", "reschedule"} = {}

Commands == {c \in Schedulers \X Keys : c[2] \in executor[c[1]].queued_tasks}

Starting == {p \in Procs : proc[p].pc \in {"check", "claim"}}

\* A result, with the key of the next attempt.
Fresh(event, k, row) == event.state # "queued" /\ k > row.try_number

FreshEvents ==
  {c \in Schedulers \X Keys :
     LET entry == executor[c[1]].event_buffer[c[2]]
     IN  entry.at > 0 /\ Fresh(entry.value, c[2], ti)}

FreshRead == {s \in Schedulers : pc[s] = "apply" /\ Fresh(read[s].event, read[s].key, read[s].row)}

\* At most one element in all of the sets.
Single(C, M, P, E, R) ==
  /\ \A X \in {C, M, P, E, R} : \A x, y \in X : x = y
  /\ C # {} => M = {} /\ P = {} /\ E = {} /\ R = {}
  /\ M # {} => P = {} /\ E = {} /\ R = {}
  /\ P # {} => E = {} /\ R = {}
  /\ E # {} => R = {}

Token ==
  /\ Single(Commands, copies, Starting, FreshEvents, FreshRead)
  /\ ti.state # "queued" => Commands = {} /\ copies = {} /\ Starting = {} /\ FreshEvents = {} /\ FreshRead = {}

\* Nobody has reason to adopt or reset a task instance.
Settled ==
  /\ late = {} /\ \A s \in Schedulers : job_state[s] = "running" /\ executor[s].adopted = {}
  /\ ti.state \in {"queued", "running"} => ti.queued_by \in Schedulers

\* Whoever is going to write a row that it has read knows the try number.
Rows ==
  /\ \A p \in Procs :
       /\ proc[p].pc # "send_back"
       /\ proc[p].pc = "claim" => proc[p].row.try_number = ti.try_number /\ proc[p].row.queued_by \in Schedulers
       /\ proc[p].pc = "run" =>
            ti.state = "running" /\ ti.owner = p /\ proc[p].row.try_number = ti.try_number
  /\ \A s \in FreshRead : read[s].row.try_number = ti.try_number
  /\ callback => ti.state \in {"success", "failed"} /\ handling = None
  /\ handling # None => ti.state \in {"success", "failed"} /\ handling.try_number = ti.try_number

\* Every command has its place, and one that has not been executed yet has the next key.
Places ==
  /\ \A m \in copies : celery[m] = "pending"
  /\ \A p \in Procs : proc[p].pc # "idle" =>
       /\ celery[proc[p].id] = "started"
       /\ \A q \in Procs : proc[q].pc # "idle" /\ proc[q].id = proc[p].id => q = p
  /\ \A s \in Schedulers, k \in Keys :
       /\ k \in executor[s].queued_tasks => k <= ti.try_number + 1
       /\ executor[s].tasks[k].at > 0 =>
            /\ k <= ti.try_number + 1
            /\ k <= ti.try_number \/ executor[s].tasks[k].value \in copies \cup {proc[p].id : p \in Starting}

OneInv == TypeOK /\ (OneCommand => Token /\ Settled /\ Rows /\ Places)

\* Nobody has the task instance in hand.
NoHands == Commands = {} /\ copies = {} /\ Starting = {} /\ FreshEvents = {} /\ FreshRead = {}

\* Who has the task instance in hand is alone, and it is queued.
LEMMA Alone ==
  ASSUME Token
  PROVE  /\ ti.state # "queued" => NoHands
         /\ \A c \in Commands :
              /\ ti.state = "queued" /\ Commands = {c}
              /\ copies = {} /\ Starting = {} /\ FreshEvents = {} /\ FreshRead = {}
         /\ \A m \in copies :
              /\ ti.state = "queued" /\ copies = {m}
              /\ Commands = {} /\ Starting = {} /\ FreshEvents = {} /\ FreshRead = {}
         /\ \A p \in Starting :
              /\ ti.state = "queued" /\ Starting = {p}
              /\ Commands = {} /\ copies = {} /\ FreshEvents = {} /\ FreshRead = {}
         /\ \A c \in FreshEvents :
              /\ ti.state = "queued" /\ FreshEvents = {c}
              /\ Commands = {} /\ copies = {} /\ Starting = {} /\ FreshRead = {}
         /\ \A s \in FreshRead :
              /\ ti.state = "queued" /\ FreshRead = {s}
              /\ Commands = {} /\ copies = {} /\ Starting = {} /\ FreshEvents = {}
BY DEF Token, Single, NoHands

\* Nobody takes the task instance in hand, or one does.
LEMMA TokenKept ==
  ASSUME Token, Commands' \subseteq Commands, copies' \subseteq copies, Starting' \subseteq Starting,
         FreshEvents' \subseteq FreshEvents, FreshRead' \subseteq FreshRead,
         ti.state # "queued" \/ ti'.state = "queued"
  PROVE  Token'
BY DEF Token, Single

\* At most one takes the task instance in hand.
LEMMA TokenOne ==
  ASSUME NEW x, ti'.state = "queued",
         \/ Commands' \subseteq {x} /\ copies' = {} /\ Starting' = {} /\ FreshEvents' = {} /\ FreshRead' = {}
         \/ Commands' = {} /\ copies' \subseteq {x} /\ Starting' = {} /\ FreshEvents' = {} /\ FreshRead' = {}
         \/ Commands' = {} /\ copies' = {} /\ Starting' \subseteq {x} /\ FreshEvents' = {} /\ FreshRead' = {}
         \/ Commands' = {} /\ copies' = {} /\ Starting' = {} /\ FreshEvents' \subseteq {x} /\ FreshRead' = {}
         \/ Commands' = {} /\ copies' = {} /\ Starting' = {} /\ FreshEvents' = {} /\ FreshRead' \subseteq {x}
  PROVE  Token'
BY DEF Token, Single

\* All put it down.
LEMMA TokenNone ==
  ASSUME NoHands'
  PROVE  Token'
BY DEF Token, Single, NoHands

\* What a step that leaves some variables alone leaves alone.
LEMMA SameHands ==
  /\ UNCHANGED executor => Commands' = Commands
  /\ UNCHANGED proc => Starting' = Starting
  /\ UNCHANGED executor /\ ti'.try_number = ti.try_number => FreshEvents' = FreshEvents
  /\ UNCHANGED <<read, pc>> => FreshRead' = FreshRead
BY DEF Commands, Starting, FreshEvents, FreshRead, Fresh

\* A step of the loop that neither begins nor ends with events that were read.
LEMMA SameRead ==
  ASSUME TypeOK, NEW s \in Schedulers, NEW from, NEW to, Step(s, from, to), from # "apply", to # "apply",
         UNCHANGED read
  PROVE  FreshRead' = FreshRead
BY DEF FreshRead, Step, TypeOK

\* Places, if executors only forget commands that they wait for.
LEMMA FewerPlaces ==
  ASSUME Places, UNCHANGED <<broker, proc>>, ti'.try_number = ti.try_number,
         \A s \in Schedulers, k \in Keys :
           /\ k \in executor'[s].queued_tasks => k \in executor[s].queued_tasks \/ k <= ti.try_number + 1
           /\ executor'[s].tasks[k].at > 0 => executor'[s].tasks[k] = executor[s].tasks[k]
  PROVE  Places'
<1>1. Starting' = Starting /\ copies' = copies /\ celery' = celery /\ proc' = proc
  BY SameHands DEF broker
<1>2. ASSUME NEW s \in Schedulers, NEW k \in Keys, k \in executor'[s].queued_tasks
      PROVE  k <= ti'.try_number + 1
  BY <1>2, ZenonT(40) DEF Places
<1>3. ASSUME NEW s \in Schedulers, NEW k \in Keys, executor'[s].tasks[k].at > 0
      PROVE  /\ k <= ti'.try_number + 1
             /\ k <= ti'.try_number \/ executor'[s].tasks[k].value \in copies' \cup {proc'[p].id : p \in Starting'}
  <2>1. executor'[s].tasks[k] = executor[s].tasks[k] /\ executor[s].tasks[k].at > 0
    BY <1>3, ZenonT(40)
  <2>2. /\ k <= ti.try_number + 1
        /\ k <= ti.try_number \/ executor[s].tasks[k].value \in copies \cup {proc[p].id : p \in Starting}
    BY <2>1, ZenonT(40) DEF Places
  <2> QED
    BY <1>1, <2>1, <2>2, ZenonT(40)
<1>4. /\ \A m \in copies' : celery'[m] = "pending"
      /\ \A p \in Procs : proc'[p].pc # "idle" =>
           /\ celery'[proc'[p].id] = "started"
           /\ \A q \in Procs : proc'[q].pc # "idle" /\ proc'[q].id = proc'[p].id => q = p
  BY <1>1 DEF Places
<1> QED
  BY <1>2, <1>3, <1>4, ZenonT(40) DEF Places

\* Places, if only the row changes and its try number does not.
LEMMA SamePlaces ==
  ASSUME Places, UNCHANGED <<executor, broker, proc>>, ti'.try_number = ti.try_number
  PROVE  Places'
<1>1. Starting' = Starting
  BY SameHands
<1> QED
  BY <1>1 DEF Places, broker

Steady == TypeOK /\ OneCommand /\ Token /\ Settled /\ Rows /\ Places

Kept == Token' /\ Settled' /\ Rows' /\ Places'

-----------------------------------------------------------------------------
(* The steps of the workers.                                               *)

\* Deliver: the command goes from the broker to a worker process.
LEMMA DeliverKeeps ==
  ASSUME Steady, NEW p \in Procs, Deliver(p)
  PROVE  Kept
<1>0. /\ UNCHANGED <<ti, executor, pc, read, callbacks, job_state, late>> /\ WorkerType
      /\ Commands' = Commands /\ FreshRead' = FreshRead /\ FreshEvents' = FreshEvents
  BY SameHands, TypeParts DEF Deliver, Steady, scheduler
<1>1. PICK m \in copies : /\ copies' = copies \ {m} /\ celery' = [celery EXCEPT ![m] = "started"]
                          /\ proc' = [proc EXCEPT ![p] = [pc |-> "check", id |-> m, row |-> None]]
  BY Zenon DEF Deliver
<1>2. /\ ti.state = "queued" /\ copies = {m}
      /\ Commands = {} /\ Starting = {} /\ FreshEvents = {} /\ FreshRead = {}
  BY Alone DEF Steady
<1>3. m \in Messages /\ celery[m] = "pending"
  BY <1>0 DEF WorkerType, Steady, Places
<1>4. /\ proc'[p].pc = "check" /\ proc'[p].id = m
      /\ \A q \in Procs \ {p} : proc'[q] = proc[q]
      /\ celery'[m] = "started" /\ \A n \in Messages \ {m} : celery'[n] = celery[n]
  BY <1>0, <1>1, <1>3 DEF WorkerType
<1>5. Starting' = {p}
  BY <1>2, <1>4 DEF Starting
<1>6. copies' = {}
  BY <1>1, <1>2
<1>7. Token'
  BY <1>0, <1>2, <1>5, <1>6, TokenOne
<1>8. Settled'
  BY <1>0 DEF Steady, Settled
<1>9. Rows'
  BY <1>0, <1>4 DEF Steady, Rows, callbacks
<1>10. Places'
  <2>1. \A q \in Procs \ {p} : proc[q].pc # "idle" =>
          proc[q].id \in Messages /\ celery[proc[q].id] = "started" /\ proc[q].id # m
    BY <1>0, <1>3 DEF WorkerType, Steady, Places
  <2>2. \A q \in Procs : proc'[q].pc # "idle" =>
          /\ celery'[proc'[q].id] = "started"
          /\ \A r \in Procs : proc'[r].pc # "idle" /\ proc'[r].id = proc'[q].id => r = q
    BY <1>4, <2>1 DEF Steady, Places
  <2>3. ASSUME NEW t \in Schedulers, NEW k \in Keys, executor[t].tasks[k].at > 0
        PROVE  k <= ti.try_number \/ executor[t].tasks[k].value \in {proc'[q].id : q \in Starting'}
    BY <1>2, <1>4, <1>5, <2>3, ZenonT(40) DEF Steady, Places
  <2> QED
    BY <1>0, <1>6, <2>2, <2>3, ZenonT(40) DEF Steady, Places
<1> QED
  BY <1>7, <1>8, <1>9, <1>10 DEF Kept

\* WorkerCheck: what a worker process checks is queued.
LEMMA CheckKeeps ==
  ASSUME Steady, NEW p \in Procs, WorkerCheck(p)
  PROVE  Kept
<1>0. /\ UNCHANGED <<ti, executor, pc, read, broker, callbacks, job_state, late>> /\ WorkerType /\ proc[p].pc = "check"
      /\ Commands' = Commands /\ FreshRead' = FreshRead /\ FreshEvents' = FreshEvents /\ copies' = copies
  BY SameHands, TypeParts, Zenon DEF WorkerCheck, Steady, scheduler, broker
<1>1. p \in Starting
  BY <1>0, ZenonT(40) DEF Starting
<1>2. ti.state = "queued" /\ ti.queued_by \in Schedulers
  BY <1>1, Alone, Zenon DEF Steady, Settled
<1>3. ProcTo(p, "claim", ti)
  BY <1>2 DEF WorkerCheck, RUNNABLE_STATES, Steady, OneCommand
<1>4. /\ proc'[p].pc = "claim" /\ proc'[p].id = proc[p].id /\ proc'[p].row = ti
      /\ \A q \in Procs \ {p} : proc'[q] = proc[q]
  BY <1>0, <1>3, ProcToFacts DEF WorkerType
<1>5. Starting' = Starting
  BY <1>0, <1>4 DEF Starting
<1>6. Token'
  BY <1>0, <1>5, TokenKept DEF Steady
<1>7. Settled'
  BY <1>0 DEF Steady, Settled
<1>8. Rows'
  BY <1>0, <1>2, <1>4 DEF Steady, Rows, callbacks
<1>9. Places'
  <2>1. \A q \in Procs : proc'[q].id = proc[q].id /\ (proc'[q].pc # "idle" <=> proc[q].pc # "idle")
    BY <1>0, <1>4
  <2>2. {proc'[q].id : q \in Starting'} = {proc[q].id : q \in Starting}
    BY <1>5, <2>1 DEF Starting
  <2>3. \A q \in Procs : proc'[q].pc # "idle" =>
          /\ celery'[proc'[q].id] = "started"
          /\ \A r \in Procs : proc'[r].pc # "idle" /\ proc'[r].id = proc'[q].id => r = q
    BY <1>0, <2>1 DEF Steady, Places, broker
  <2> HIDE DEF Starting
  <2> QED
    BY <1>0, <2>2, <2>3, ZenonT(40) DEF Steady, Places, broker
<1> QED
  BY <1>6, <1>7, <1>8, <1>9 DEF Kept

\* WorkerClaim: nobody else has the task instance in hand, and every command has been executed.
LEMMA ClaimKeeps ==
  ASSUME Steady, NEW p \in Procs, WorkerClaim(p)
  PROVE  Kept
<1> DEFINE row == proc[p].row
<1>0. /\ UNCHANGED <<executor, pc, read, broker, callbacks, job_state, late>> /\ WorkerType /\ proc[p].pc = "claim"
      /\ Commands' = Commands /\ FreshRead' = FreshRead /\ copies' = copies /\ row \in Row /\ ti.try_number \in Int
  BY SameHands, TypeParts, KeyType DEF WorkerClaim, Steady, scheduler, broker, WorkerType, TypeOK
<1>1. p \in Starting
  BY <1>0 DEF Starting
<1>2. /\ ti.state = "queued" /\ Starting = {p}
      /\ Commands = {} /\ copies = {} /\ FreshEvents = {} /\ FreshRead = {}
  BY <1>1, Alone DEF Steady
<1>3. row.try_number = ti.try_number /\ row.queued_by \in Schedulers
  BY <1>0 DEF Steady, Rows
<1>4. /\ ti'.state = "running" /\ ti'.try_number = ti.try_number + 1 /\ ti'.owner = p
      /\ ti'.queued_by \in Schedulers
  BY <1>0, <1>3 DEF WorkerClaim, Row
<1>5. /\ proc'[p].pc = "run" /\ proc'[p].id = proc[p].id /\ proc'[p].row = ti'
      /\ \A q \in Procs \ {p} : proc'[q] = proc[q]
  BY <1>0, ProcToFacts DEF WorkerClaim, WorkerType
<1>6. Starting' = {}
  BY <1>2, <1>5 DEF Starting
<1>7. FreshEvents' = {}
  <2>1. ASSUME NEW c \in FreshEvents' PROVE c \in FreshEvents
    <3>1. c \in Schedulers \X Keys /\ c[2] \in Int
      BY <2>1, CeleryAssumption DEF FreshEvents, Keys
    <3> QED
      BY <1>0, <1>4, <2>1, <3>1 DEF FreshEvents, Fresh
  <2> QED
    BY <1>2, <2>1
<1>8. Token'
  BY <1>0, <1>2, <1>6, <1>7, TokenNone DEF NoHands
<1>9. Settled'
  BY <1>0, <1>4 DEF Steady, Settled
<1>10. Rows'
  BY <1>0, <1>2, <1>4, <1>5 DEF Steady, Rows, callbacks, Starting
<1>11. Places'
  <2>1. \A q \in Procs : proc'[q].id = proc[q].id /\ (proc'[q].pc # "idle" <=> proc[q].pc # "idle")
    BY <1>0, <1>5
  <2>2. \A k \in Keys : k \in Int
    BY CeleryAssumption DEF Keys
  <2>3. ASSUME NEW t \in Schedulers, NEW k \in Keys
        PROVE  /\ k \in executor[t].queued_tasks => k <= ti'.try_number + 1
               /\ executor[t].tasks[k].at > 0 => k <= ti'.try_number + 1 /\ k <= ti'.try_number
    <3>1. /\ k \in executor[t].queued_tasks => k <= ti.try_number + 1
          /\ executor[t].tasks[k].at > 0 => k <= ti.try_number + 1
      BY DEF Steady, Places
    <3>2. ti.try_number \in Int /\ k \in Int
      BY <1>0, <2>2 DEF Row
    <3> QED
      BY <1>4, <3>1, <3>2
  <2>4. \A q \in Procs : proc'[q].pc # "idle" =>
          /\ celery'[proc'[q].id] = "started"
          /\ \A r \in Procs : proc'[r].pc # "idle" /\ proc'[r].id = proc'[q].id => r = q
    BY <1>0, <2>1 DEF Steady, Places, broker
  <2> QED
    BY <1>0, <2>3, <2>4 DEF Steady, Places, broker
<1> QED
  BY <1>8, <1>9, <1>10, <1>11 DEF Kept

\* TaskEnds: the process that runs the task is the owner of the row.
LEMMA EndsKeep ==
  ASSUME Steady, NEW p \in Procs, TaskEnds(p)
  PROVE  Kept
<1>0. /\ UNCHANGED <<executor, pc, read, broker, callbacks, job_state, late>> /\ WorkerType /\ proc[p].pc = "run"
      /\ Commands' = Commands /\ FreshRead' = FreshRead /\ copies' = copies
      /\ proc[p].row \in Row /\ ti \in Row
  BY SameHands, TypeParts DEF TaskEnds, Steady, scheduler, broker, WorkerType, TypeOK
<1>1. ti.state = "running" /\ ti.owner = p /\ proc[p].row.try_number = ti.try_number
  BY <1>0, ZenonT(40) DEF Steady, Rows
<1>2. NoHands
  BY <1>1, Alone, Zenon DEF Steady
<1>3. ti'.state \in {"success", "failed", "up_for_retry"} /\ ti'.try_number = ti.try_number
  <2>1. CASE ti' = set_state(ti, "success")
    BY <1>0, <2>1 DEF set_state, Row
  <2>2. CASE ti' \in {handle_failure(ti), handle_failure(proc[p].row)}
    BY <1>0, <1>1, <2>2, RowFacts, ZenonT(40)
  <2> QED
    BY <1>1, <2>1, <2>2 DEF TaskEnds, TaskFails, Steady, OneCommand
<1>4. /\ proc'[p].pc = "exit_success" /\ proc'[p].id = proc[p].id
      /\ \A q \in Procs \ {p} : proc'[q] = proc[q]
  BY <1>0, ProcToFacts DEF TaskEnds, WorkerType
<1>5. Starting' = Starting
  BY <1>0, <1>4, ZenonT(40) DEF Starting
<1>6. FreshEvents' = FreshEvents
  BY <1>0, <1>3, SameHands, Zenon
<1>7. Token'
  BY <1>0, <1>2, <1>5, <1>6, TokenNone DEF NoHands
<1>8. Settled'
  BY <1>0, <1>3 DEF Steady, Settled
<1>9. Rows'
  BY <1>0, <1>1, <1>2, <1>3, <1>4 DEF Steady, Rows, callbacks, NoHands, Starting
<1>10. Places'
  <2>1. \A q \in Procs : proc'[q].id = proc[q].id /\ (proc'[q].pc # "idle" <=> proc[q].pc # "idle")
    BY <1>0, <1>4
  <2>2. \A q \in Procs : proc'[q].pc # "idle" =>
          /\ celery'[proc'[q].id] = "started"
          /\ \A r \in Procs : proc'[r].pc # "idle" /\ proc'[r].id = proc'[q].id => r = q
    BY <1>0, <2>1 DEF Steady, Places, broker
  <2> QED
    BY <1>0, <1>2, <1>3, <2>2, ZenonT(40) DEF Steady, Places, broker, NoHands
<1> QED
  BY <1>7, <1>8, <1>9, <1>10 DEF Kept

\* WorkerExit: the result is that of a command nobody else executes.
LEMMA ExitKeeps ==
  ASSUME Steady, NEW p \in Procs, WorkerExit(p)
  PROVE  Kept
<1> DEFINE m == proc[p].id
<1>0. /\ UNCHANGED <<ti, executor, pc, read, copies, callbacks, job_state, late>> /\ WorkerType
      /\ proc[p].pc \in {"exit_success", "exit_failure"}
      /\ Commands' = Commands /\ FreshRead' = FreshRead /\ FreshEvents' = FreshEvents
  BY SameHands, TypeParts DEF WorkerExit, Steady, scheduler
<1>1. m \in Messages /\ celery[m] = "started"
  BY <1>0 DEF WorkerType, Steady, Places
<1>2. /\ proc'[p].pc = "idle" /\ \A q \in Procs \ {p} : proc'[q] = proc[q]
      /\ \A n \in Messages \ {m} : celery'[n] = celery[n]
  BY <1>0, <1>1 DEF WorkerExit, WorkerType
<1>3. Starting' = Starting /\ p \notin Starting
  BY <1>0, <1>2 DEF Starting
<1>4. Token'
  BY <1>0, <1>3, TokenKept DEF Steady
<1>5. Settled'
  BY <1>0 DEF Steady, Settled
<1>6. Rows'
  BY <1>0, <1>2 DEF Steady, Rows, callbacks
<1>7. Places'
  <2>1. \A q \in Procs \ {p} : proc[q].pc # "idle" =>
          proc[q].id \in Messages /\ celery[proc[q].id] = "started" /\ proc[q].id # m
    BY <1>0 DEF WorkerType, Steady, Places
  <2>2. \A q \in Procs : proc'[q].pc # "idle" =>
          /\ celery'[proc'[q].id] = "started"
          /\ \A r \in Procs : proc'[r].pc # "idle" /\ proc'[r].id = proc'[q].id => r = q
    <3>1. \A q \in Procs : proc'[q].pc # "idle" => q # p /\ proc'[q] = proc[q]
      BY <1>2, Zenon
    <3>2. \A q, r \in Procs : proc[q].pc # "idle" /\ proc[r].pc # "idle" /\ proc[r].id = proc[q].id => r = q
      BY DEF Steady, Places
    <3>3. \A q \in Procs : proc'[q].pc # "idle" => celery'[proc'[q].id] = "started"
      BY <1>2, <2>1, <3>1
    <3> QED
      BY <3>1, <3>2, <3>3
  <2>3. \A n \in copies' : celery'[n] = "pending"
    BY <1>0, <1>1, <1>2 DEF WorkerType, Steady, Places
  <2>4. {proc'[q].id : q \in Starting'} = {proc[q].id : q \in Starting}
    <3>1. \A q \in Starting : proc'[q].id = proc[q].id
      BY <1>2, <1>3 DEF Starting
    <3>2. Starting' = Starting
      BY <1>3
    <3> HIDE DEF Starting
    <3> QED
      BY <3>1, <3>2
  <2> QED
    BY <1>0, <2>2, <2>3, <2>4, ZenonT(60) DEF Steady, Places
<1> QED
  BY <1>4, <1>5, <1>6, <1>7 DEF Kept

\* The callbacks: only one is handled, for a task instance that is done.
LEMMA CallbackKeeps ==
  ASSUME Steady, ReadCallback \/ HandleCallback
  PROVE  Kept
<1>0. /\ UNCHANGED <<executor, pc, read, broker, proc, job_state, late>> /\ ti \in Row
      /\ handling \in Row \cup {None}
      /\ Commands' = Commands /\ FreshRead' = FreshRead /\ copies' = copies /\ Starting' = Starting
  BY SameHands, ZenonT(40) DEF ReadCallback, HandleCallback, Steady, scheduler, broker, TypeOK
<1>1. ti.state \in {"success", "failed"} /\ (handling # None => handling.try_number = ti.try_number /\ ~callback)
  BY DEF ReadCallback, HandleCallback, Steady, Rows
<1>2. NoHands
  BY <1>1, Alone, Zenon DEF Steady
<1>3. /\ ti'.try_number = ti.try_number /\ ti'.state \in {"success", "failed", "up_for_retry"}
      /\ ~callback' /\ (handling' = None \/ (handling' = ti /\ ti' = ti))
  <2>1. CASE ReadCallback
    BY <1>1, <2>1 DEF ReadCallback
  <2>2. CASE HandleCallback
    <3>1. ti' = handle_failure(handling) /\ handling \in Row /\ handling' = None /\ handling.try_number = ti.try_number
      BY <1>0, <1>1, <2>2 DEF HandleCallback
    <3>2. ~callback'
      BY <1>1, <2>2, Zenon DEF HandleCallback
    <3> QED
      BY <3>1, <3>2, RowFacts
  <2> QED
    BY <2>1, <2>2
<1>4. FreshEvents' = FreshEvents
  BY <1>0, <1>3, SameHands
<1>5. Token'
  BY <1>0, <1>2, <1>4, TokenNone DEF NoHands
<1>6. Settled'
  BY <1>0, <1>3 DEF Steady, Settled
<1>7. Rows'
  BY <1>0, <1>1, <1>2, <1>3 DEF Steady, Rows, NoHands, Starting
<1>8. Places'
  BY <1>0, <1>3, SamePlaces DEF Steady
<1> QED
  BY <1>5, <1>6, <1>7, <1>8 DEF Kept

-----------------------------------------------------------------------------
(* The steps of the schedulers, but for those that send commands and take  *)
(* their results.                                                          *)

\* The loop goes on, at most with the commands that it is going to send.
LEMMA QuietLoop ==
  ASSUME Steady, NEW s \in Schedulers, NEW from, NEW to, Step(s, from, to), from # "apply", to # "apply",
         UNCHANGED <<ti, read, broker, proc, callbacks>>,
         late' = {}, \A t \in Schedulers : job_state'[t] = "running",
         \A t \in Schedulers :
           /\ executor'[t].queued_tasks = executor[t].queued_tasks /\ executor'[t].adopted = executor[t].adopted
           /\ executor'[t].tasks = executor[t].tasks /\ executor'[t].event_buffer = executor[t].event_buffer
  PROVE  Kept
<1>1. FreshRead' = FreshRead /\ Starting' = Starting /\ copies' = copies
  BY SameRead, SameHands DEF Steady, broker
<1>2. Commands' = Commands
  BY ZenonT(40) DEF Commands
<1>3. FreshEvents' = FreshEvents
  BY DEF FreshEvents, Fresh
<1>4. Token'
  BY <1>1, <1>2, <1>3, TokenKept DEF Steady
<1>5. Settled'
  BY DEF Steady, Settled
<1>6. Rows'
  BY <1>1, ZenonT(40) DEF Steady, Rows, callbacks
<1>7. Places'
  BY <1>1 DEF Steady, Places, broker
<1> QED
  BY <1>4, <1>5, <1>6, <1>7 DEF Kept

\* Schedule: nobody has in hand what is not queued.
LEMMA ScheduleKeeps ==
  ASSUME Steady, NEW s \in Schedulers, Schedule(s)
  PROVE  Kept
<1>1. CASE UNCHANGED ti
  <2>1. late' = {} /\ \A t \in Schedulers : job_state'[t] = "running"
    BY DEF Schedule, Steady, Settled
  <2> QED
    BY <1>1, <2>1, QuietLoop DEF Schedule
<1>2. CASE ti.state \in SCHEDULEABLE_STATES /\ ti' = set_state(ti, "scheduled")
  <2>1. /\ ti.state \notin {"queued", "running", "success", "failed"}
        /\ ti'.state = "scheduled" /\ ti'.try_number = ti.try_number
    BY <1>2 DEF SCHEDULEABLE_STATES, set_state, Steady, TypeOK, Row
  <2>2. /\ UNCHANGED <<executor, read, broker, proc, callbacks, job_state, late>>
        /\ Step(s, "schedule", "queue")
    BY DEF Schedule
  <2>3. /\ FreshRead' = FreshRead /\ Starting' = Starting /\ copies' = copies
        /\ Commands' = Commands /\ FreshEvents' = FreshEvents
    BY <2>1, <2>2, SameRead, SameHands DEF Steady, broker
  <2>4. NoHands
    BY <2>1, Alone DEF Steady
  <2>5. Token'
    BY <2>1, <2>3, TokenKept DEF Steady
  <2>6. Settled'
    BY <2>1, <2>2 DEF Steady, Settled
  <2>7. Rows'
    BY <2>1, <2>2, <2>3, <2>4, ZenonT(40) DEF Steady, Rows, callbacks, NoHands, Starting
  <2>8. Places'
    BY <2>1, <2>2, SamePlaces DEF Steady
  <2> QED
    BY <2>5, <2>6, <2>7, <2>8 DEF Kept
<1> QED
  BY <1>1, <1>2 DEF Schedule

\* Queue: a command for the next attempt.
LEMMA QueueKeeps ==
  ASSUME Steady, NEW s \in Schedulers, Queue(s)
  PROVE  Kept
<1> DEFINE e == executor[s]
           k == ti.try_number + 1
<1>0. /\ executor \in [Schedulers -> Executor] /\ e \in Executor /\ ti \in Row
      /\ UNCHANGED <<read, broker, proc, callbacks, job_state, late>> /\ Step(s, "queue", "trigger")
  BY DEF Queue, Steady, TypeOK
<1>1. CASE UNCHANGED ti /\ executor' = [executor EXCEPT ![s].sending = executor[s].queued_tasks]
  <2>1. late' = {} /\ \A t \in Schedulers : job_state'[t] = "running"
    BY <1>0 DEF Steady, Settled
  <2>2. \A t \in Schedulers :
          /\ executor'[t].queued_tasks = executor[t].queued_tasks /\ executor'[t].adopted = executor[t].adopted
          /\ executor'[t].tasks = executor[t].tasks /\ executor'[t].event_buffer = executor[t].event_buffer
    BY <1>0, <1>1 DEF Executor
  <2> QED
    BY <1>0, <1>1, <2>1, <2>2, QuietLoop
<1>2. CASE /\ ti.state = "scheduled" /\ ti' = [ti EXCEPT !.state = "queued", !.queued_by = s]
           /\ LET x == queue_command(executor[s], try_number(ti))
              IN  executor' = [executor EXCEPT ![s] = [x EXCEPT !.sending = x.queued_tasks]]
  <2> DEFINE q == queue_command(e, k)
             x == [q EXCEPT !.sending = q.queued_tasks]
  <2>1. ti'.state = "queued" /\ ti'.try_number = ti.try_number /\ ti'.queued_by = s
    BY <1>0, <1>2 DEF Row
  <2>2. try_number(ti) = k /\ k \in Keys /\ ti.try_number \in Int
    BY <1>0, <1>2, KeyType DEF try_number
  <2>3. executor' = [executor EXCEPT ![s] = x]
    BY <1>2, <2>2
  <2>4. /\ x.queued_tasks \subseteq e.queued_tasks \cup {k}
        /\ x.adopted = e.adopted /\ x.tasks = e.tasks /\ x.event_buffer = e.event_buffer
    BY <1>0 DEF queue_command, Executor
  <2> HIDE DEF q, x
  <2>5. \A t \in Schedulers : executor'[t] = IF t = s THEN x ELSE executor[t]
    BY <1>0, <2>3
  <2>6. FreshRead' = FreshRead /\ Starting' = Starting /\ copies' = copies
    BY <1>0, SameRead, SameHands, SMTT(30) DEF Steady, broker
  <2>7. FreshEvents' = FreshEvents
    BY <2>1, <2>4, <2>5 DEF FreshEvents, Fresh
  <2>8. NoHands
    BY <1>2, Alone DEF Steady
  <2>9. Commands' \subseteq {<<s, k>>}
    <3>1. ASSUME NEW c \in Commands' PROVE c = <<s, k>>
      <4>1. c \in Schedulers \X Keys /\ c[2] \in executor'[c[1]].queued_tasks /\ c \notin Commands
        BY <2>8, <3>1 DEF Commands, NoHands
      <4>2. c[1] = s
        BY <2>5, <4>1 DEF Commands
      <4>3. c[2] \in e.queued_tasks \cup {k} /\ ~(c[2] \in e.queued_tasks)
        BY <2>4, <2>5, <4>1, <4>2 DEF Commands
      <4> QED
        BY <4>1, <4>2, <4>3
    <3> QED
      BY <3>1
  <2>10. Token'
    BY <2>1, <2>6, <2>7, <2>8, <2>9, TokenOne, ZenonT(40) DEF NoHands
  <2>11. Settled'
    BY <1>0, <2>1, <2>4, <2>5 DEF Steady, Settled
  <2>12. Rows'
    BY <1>0, <1>2, <2>1, <2>6, <2>8, ZenonT(40) DEF Steady, Rows, callbacks, NoHands, Starting
  <2>13. Places'
    <3>1. ASSUME NEW t \in Schedulers, NEW y \in Keys
          PROVE  /\ y \in executor'[t].queued_tasks => y \in executor[t].queued_tasks \/ y <= ti.try_number + 1
                 /\ executor'[t].tasks[y].at > 0 => executor'[t].tasks[y] = executor[t].tasks[y]
      BY <2>2, <2>4, <2>5
    <3> QED
      BY <1>0, <2>1, <3>1, FewerPlaces, ZenonT(40) DEF Steady
  <2> QED
    BY <2>10, <2>11, <2>12, <2>13 DEF Kept
<1> QED
  BY <1>1, <1>2 DEF Queue

\* ReadEvents: the event that a publication failed is read with the row that it is for.
LEMMA ReadKeeps ==
  ASSUME Steady, NEW s \in Schedulers, ReadEvents(s)
  PROVE  Kept
<1> DEFINE e == executor[s]
           buf == e.event_buffer
<1>0. /\ executor \in [Schedulers -> Executor] /\ e \in Executor /\ ti.try_number \in Int
      /\ DOMAIN pc = Schedulers /\ DOMAIN read = Schedulers
      /\ UNCHANGED <<ti, broker, proc, callbacks, job_state, late>>
  BY KeyType DEF ReadEvents, Steady, TypeOK
<1>1. CASE Step(s, "events", "timers") /\ UNCHANGED <<executor, read>>
  <2>1. late' = {} /\ \A t \in Schedulers : job_state'[t] = "running"
    BY <1>0 DEF Steady, Settled
  <2> QED
    BY <1>0, <1>1, <2>1, QuietLoop
<1>2. CASE /\ \E k \in KeysOf(buf) : read' = [read EXCEPT ![s] = [row |-> ti, key |-> k, event |-> buf[k].value]]
           /\ Step(s, "events", "apply")
           /\ executor' = [executor EXCEPT ![s].event_buffer = EmptyDict]
  <2>1. PICK k \in KeysOf(buf) : read' = [read EXCEPT ![s] = [row |-> ti, key |-> k, event |-> buf[k].value]]
    BY <1>2, ZenonT(40)
  <2> DEFINE x == [e EXCEPT !.event_buffer = EmptyDict]
  <2>2. /\ x.queued_tasks = e.queued_tasks /\ x.adopted = e.adopted /\ x.tasks = e.tasks
        /\ x.event_buffer = EmptyDict
    BY <1>0 DEF Executor
  <2>3. \A t \in Schedulers : executor'[t] = IF t = s THEN x ELSE executor[t]
    BY <1>0, <1>2
  <2> HIDE DEF x
  <2>4. /\ pc[s] = "events" /\ \A t \in Schedulers : pc'[t] = IF t = s THEN "apply" ELSE pc[t]
        /\ read'[s].row = ti /\ read'[s].key = k /\ read'[s].event = buf[k].value
        /\ \A t \in Schedulers \ {s} : read'[t] = read[t]
    BY <1>0, <1>2, <2>1 DEF Step
  <2>5. Commands' = Commands /\ Starting' = Starting /\ copies' = copies
    BY <1>0, <2>2, <2>3, SameHands, ZenonT(40) DEF Commands, broker
  <2>6. \A c \in FreshEvents' : c \in FreshEvents /\ c[1] # s
    BY <1>0, <2>2, <2>3, EmptyFacts DEF FreshEvents, Fresh
  <2>7. \A t \in FreshRead' : t \in FreshRead \/ (t = s /\ Fresh(buf[k].value, k, ti))
    BY <2>4 DEF FreshRead
  <2>8. ASSUME Fresh(buf[k].value, k, ti) PROVE Token'
    <3>1. <<s, k>> \in FreshEvents
      BY <2>8 DEF FreshEvents, KeysOf
    <3>2. /\ ti.state = "queued" /\ FreshEvents = {<<s, k>>}
          /\ Commands = {} /\ copies = {} /\ Starting = {} /\ FreshRead = {}
      BY <3>1, Alone DEF Steady
    <3>3. FreshEvents' = {} /\ FreshRead' \subseteq {s}
      BY <2>6, <2>7, <3>2
    <3> QED
      BY <1>0, <2>5, <3>2, <3>3, TokenOne
  <2>9. ASSUME ~Fresh(buf[k].value, k, ti) PROVE Token'
    <3>1. FreshEvents' \subseteq FreshEvents /\ FreshRead' \subseteq FreshRead
      BY <2>6, <2>7, <2>9
    <3> QED
      BY <1>0, <2>5, <3>1, TokenKept DEF Steady
  <2>10. Settled'
    BY <1>0, <2>2, <2>3 DEF Steady, Settled
  <2>11. Rows'
    <3>1. \A t \in FreshRead' : read'[t].row.try_number = ti'.try_number
      <4>1. ASSUME NEW t \in FreshRead', t # s PROVE read'[t].row.try_number = ti'.try_number
        BY <1>0, <2>4, <2>7, <4>1, ZenonT(40) DEF Steady, Rows, FreshRead
      <4>2. read'[s].row.try_number = ti'.try_number
        BY <1>0, <2>4, ZenonT(40)
      <4> QED
        BY <4>1, <4>2, ZenonT(40)
    <3> QED
      BY <1>0, <3>1 DEF Steady, Rows, callbacks
  <2>12. Places'
    <3>1. ASSUME NEW t \in Schedulers, NEW y \in Keys
          PROVE  /\ y \in executor'[t].queued_tasks => y \in executor[t].queued_tasks \/ y <= ti.try_number + 1
                 /\ executor'[t].tasks[y].at > 0 => executor'[t].tasks[y] = executor[t].tasks[y]
      BY <2>2, <2>3
    <3> QED
      BY <1>0, <3>1, FewerPlaces, ZenonT(40) DEF Steady
  <2> QED
    BY <2>8, <2>9, <2>10, <2>11, <2>12 DEF Kept
<1> QED
  BY <1>1, <1>2 DEF ReadEvents

\* ApplyEvents: only the event that a publication failed is acted upon.
LEMMA ApplyKeeps ==
  ASSUME Steady, NEW s \in Schedulers, ApplyEvents(s)
  PROVE  Kept
<1> DEFINE row == read[s].row
           key == read[s].key
           event == read[s].event
<1>0. /\ ti \in Row /\ ti.try_number \in Int /\ pc[s] = "apply"
      /\ row \in Row /\ key \in Keys /\ event \in ExecutorEvent
      /\ UNCHANGED <<executor, broker, proc, handling, job_state, late>>
  BY KeyType, ZenonT(40) DEF ApplyEvents, Step, Steady, TypeOK
<1>1. /\ Commands' = Commands /\ Starting' = Starting /\ copies' = copies
  BY <1>0, SameHands DEF broker
<1>2. FreshRead' \subseteq FreshRead \ {s} /\ \A t \in FreshRead' : read'[t] = read[t]
  BY DEF ApplyEvents, Step, Steady, TypeOK, FreshRead
<1>3. CASE ti'.state = ti.state /\ ti'.try_number = ti.try_number /\ ti'.queued_by = ti.queued_by
           /\ ti'.owner = ti.owner /\ UNCHANGED callback
  <2>1. FreshEvents' = FreshEvents
    BY <1>0, <1>3, SameHands
  <2>2. Token'
    BY <1>1, <1>2, <1>3, <2>1, TokenKept DEF Steady
  <2>3. Settled'
    BY <1>0, <1>3 DEF Steady, Settled
  <2>4. Rows'
    BY <1>0, <1>2, <1>3 DEF Steady, Rows
  <2>5. Places'
    BY <1>0, <1>3, SamePlaces, ZenonT(40) DEF Steady
  <2> QED
    BY <2>2, <2>3, <2>4, <2>5 DEF Kept
<1>4. CASE /\ event.state # "queued" /\ KilledExternally(row, key) /\ callback' = TRUE
           /\ ti' = set_state(ti, event.state) \/ ti' = set_state(row, event.state)
  <2>1. s \in FreshRead
    BY <1>0, <1>4, KeyType DEF FreshRead, Fresh, KilledExternally, try_number
  <2>2. /\ ti.state = "queued" /\ FreshRead = {s}
        /\ Commands = {} /\ copies = {} /\ Starting = {} /\ FreshEvents = {}
    BY <2>1, Alone, ZenonT(40) DEF Steady
  <2>3. row.try_number = ti.try_number
    BY <2>1 DEF Steady, Rows
  <2>4. ti'.state \in {"success", "failed"} /\ ti'.try_number = ti.try_number
    BY <1>0, <1>4, <2>3, ZenonT(40) DEF set_state, Row, ExecutorEvent
  <2>5. FreshEvents' = FreshEvents
    BY <1>0, <2>4, SameHands, ZenonT(40)
  <2>6. Token'
    BY <1>1, <1>2, <2>2, <2>5, TokenNone DEF NoHands
  <2>7. Settled'
    BY <1>0, <2>4, ZenonT(40) DEF Steady, Settled
  <2>8. Rows'
    BY <1>0, <1>2, <2>2, <2>4, ZenonT(40) DEF Steady, Rows, Starting
  <2>9. Places'
    BY <1>0, <2>4, SamePlaces DEF Steady
  <2> QED
    BY <2>6, <2>7, <2>8, <2>9 DEF Kept
<1>5. CASE ti' = [ti EXCEPT !.external_id = event.info] /\ UNCHANGED callback
  BY <1>0, <1>3, <1>5 DEF Row
<1> QED
  BY <1>3, <1>4, <1>5, Zenon DEF ApplyEvents

\* The timers: nothing is orphaned.
LEMMA TimersKeep ==
  ASSUME Steady, NEW s \in Schedulers, TriggerDone(s) \/ EndLoop(s) \/ AdoptOrReset(s)
  PROVE  Kept
<1>0. late = {} /\ (\A t \in Schedulers : job_state[t] = "running") /\ job_state \in [Schedulers -> {"running", "failed"}]
  BY DEF Steady, Settled, TypeOK
<1>1. CASE TriggerDone(s)
  <2>1. late' = {} /\ \A t \in Schedulers : job_state'[t] = "running"
    BY <1>0, <1>1 DEF TriggerDone
  <2> QED
    BY <1>1, <2>1, QuietLoop, ZenonT(40) DEF TriggerDone
<1>2. CASE EndLoop(s)
  <2>1. late' = {} /\ \A t \in Schedulers : job_state'[t] = "running"
    BY <1>0, <1>2 DEF EndLoop, Heartbeat
  <2> QED
    BY <1>2, <2>1, QuietLoop DEF EndLoop
<1>3. CASE AdoptOrReset(s)
  <2> DEFINE jobs == [t \in Schedulers |-> IF t = s THEN "running" ELSE IF t \in late THEN "failed" ELSE job_state[t]]
  <2>1. \A t \in Schedulers : jobs[t] = "running"
    BY <1>0
  <2>2. late' = {} /\ \A t \in Schedulers : job_state'[t] = "running"
    BY <1>0, <1>3 DEF AdoptOrReset, Heartbeat
  <2>3. ~Orphaned(jobs)
    <3>1. ti.state \in {"queued", "running"} => ti.queued_by \in Schedulers
      BY DEF Steady, Settled
    <3>2. None \notin Schedulers
      BY CeleryAssumption
    <3> HIDE DEF jobs
    <3> QED
      BY <2>1, <3>1, <3>2 DEF Orphaned
  <2>4. UNCHANGED <<ti, executor>>
    BY <1>3, <2>3 DEF AdoptOrReset
  <2> QED
    BY <1>3, <2>2, <2>4, QuietLoop DEF AdoptOrReset
<1> QED
  BY <1>1, <1>2, <1>3, ZenonT(40)

-----------------------------------------------------------------------------
(* Types.                                                                  *)

\* The row and what is queued for it.
LEMMA RowTypeStep ==
  ASSUME TypeOK, [Next]_vars
  PROVE  RowType'
<1>0. RowType /\ LoopType /\ WorkerType
  BY TypeParts
<1>1. /\ ti \in Row /\ "scheduled" \in TaskInstanceState /\ "queued" \in TaskInstanceState
      /\ "running" \in TaskInstanceState /\ "success" \in TaskInstanceState /\ "none" \in TaskInstanceState
      /\ "up_for_reschedule" \in TaskInstanceState /\ "failed" \in TaskInstanceState
  BY <1>0 DEF RowType, TaskInstanceState
<1>2. CASE UNCHANGED <<scenario, ti, callbacks, history>>
  BY <1>0, <1>2 DEF RowType, callbacks, history
<1>3. ASSUME NEW s \in Schedulers, Schedule(s) PROVE RowType'
  BY <1>0, <1>1, <1>3, RowFacts DEF Schedule, RowType, callbacks, history
<1>4. ASSUME NEW s \in Schedulers, Queue(s) PROVE RowType'
  <2>1. ti' \in Row
    BY <1>1, <1>4, Zenon DEF Queue, Row
  <2> QED
    BY <1>0, <1>4, <2>1 DEF Queue, RowType, callbacks, history
<1>5. ASSUME NEW s \in Schedulers, ApplyEvents(s) PROVE RowType'
  <2> DEFINE row == read[s].row
             event == read[s].event
  <2>1. row \in Row /\ event \in ExecutorEvent
    BY <1>0, <1>5 DEF ApplyEvents, Step, LoopType
  <2>2. CASE event.state = "queued" /\ ti' = [ti EXCEPT !.external_id = event.info] /\ UNCHANGED callback
    <3>1. ti' \in Row
      BY <1>1, <2>1, <2>2 DEF ExecutorEvent, Row
    <3> QED
      BY <1>0, <1>5, <2>2, <3>1 DEF ApplyEvents, RowType, history
  <2>3. CASE /\ event.state # "queued" /\ callback' = TRUE
             /\ ti' = set_state(ti, event.state) \/ ti' = set_state(row, event.state)
    <3>1. event.state \in TaskInstanceState
      BY <1>1, <2>1, <2>3 DEF ExecutorEvent
    <3>2. ti' \in Row
      BY <1>1, <2>1, <2>3, <3>1, RowFacts, ZenonT(40)
    <3> QED
      BY <1>0, <1>5, <2>3, <3>2 DEF ApplyEvents, RowType, history
  <2>4. CASE UNCHANGED <<ti, callback>>
    BY <1>0, <1>5, <2>4 DEF ApplyEvents, RowType, history
  <2> QED
    BY <1>5, <2>2, <2>3, <2>4, Zenon DEF ApplyEvents
<1>6. ASSUME NEW s \in Schedulers, AdoptOrReset(s) PROVE RowType'
  <2>1. ti' \in Row
    BY <1>1, <1>6, Zenon DEF AdoptOrReset, Row
  <2> QED
    BY <1>0, <1>6, <2>1 DEF AdoptOrReset, RowType, callbacks, history
<1>7. ASSUME NEW p \in Procs, WorkerClaim(p) PROVE RowType'
  <2>1. proc[p].row \in Row /\ proc[p].row.try_number < MaxTry
    BY <1>0, <1>7 DEF WorkerClaim, WorkerType
  <2>2. proc[p].row.try_number + 1 \in TryNumbers
    BY <2>1, CeleryAssumption DEF Row, TryNumbers
  <2>3. ti' \in Row
    BY <1>1, <1>7, <2>1, <2>2, Zenon DEF WorkerClaim, Row
  <2> QED
    BY <1>0, <1>7, <2>3 DEF WorkerClaim, RowType, callbacks
<1>8. ASSUME NEW p \in Procs, WorkerSendBack(p) PROVE RowType'
  <2>1. proc[p].row \in Row
    BY <1>0, <1>8 DEF WorkerSendBack, WorkerType
  <2>2. ti' \in Row
    BY <1>1, <1>8, <2>1, Zenon DEF WorkerSendBack, Row
  <2> QED
    BY <1>0, <1>8, <2>2 DEF WorkerSendBack, RowType, callbacks, history
<1>9. TaskFails \in Row
  BY <1>1, RowFacts DEF TaskFails
<1>10. ASSUME NEW p \in Procs, TaskEnds(p) PROVE RowType'
  <2>1. proc[p].row \in Row
    BY <1>0, <1>10 DEF TaskEnds, WorkerType
  <2>2. CASE ti' = set_state(ti, "success") \/ ti' \in {TaskFails, handle_failure(proc[p].row)}
    <3>1. ti' \in Row
      BY <1>1, <1>9, <2>1, <2>2, RowFacts, Zenon
    <3> QED
      BY <1>0, <1>10, <3>1, Zenon DEF TaskEnds, RowType, callbacks
  <2>3. CASE ti.try_number > -MaxBack /\ ti' = [ti EXCEPT !.state = "up_for_reschedule", !.try_number = @ - 1]
    <3>1. ti.try_number - 1 \in TryNumbers
      BY <1>1, <2>3, CeleryAssumption DEF Row, TryNumbers
    <3>2. ti' \in Row
      BY <1>1, <2>3, <3>1, Zenon DEF Row
    <3> QED
      BY <1>0, <1>10, <3>2, Zenon DEF TaskEnds, RowType, callbacks
  <2> QED
    BY <1>10, <2>2, <2>3 DEF TaskEnds
<1>11. ASSUME NEW p \in Procs, Undead(p) PROVE RowType'
  BY <1>0, <1>9, <1>11 DEF Undead, RowType, callbacks, history
<1>12. CASE ReadCallback
  BY <1>0, <1>12, Zenon DEF ReadCallback, RowType, history
<1>13. CASE HandleCallback
  BY <1>0, <1>13, RowFacts, ZenonT(40) DEF HandleCallback, RowType, history
<1>14. \/ UNCHANGED <<scenario, ti, callbacks, history>>
       \/ \E s \in Schedulers : Schedule(s) \/ Queue(s) \/ ApplyEvents(s) \/ AdoptOrReset(s)
       \/ \E p \in Procs : WorkerClaim(p) \/ WorkerSendBack(p) \/ TaskEnds(p) \/ Undead(p)
       \/ ReadCallback \/ HandleCallback
  BY DEF Next, vars, Loop, TriggerTask, TriggerDone, Sync, ReadEvents, EndLoop, Crash, Stall,
         Deliver, Redeliver, WorkerCheck, WorkerExit
<1> QED
  BY <1>2, <1>3, <1>4, <1>5, <1>6, <1>7, <1>8, <1>10, <1>11, <1>12, <1>13, <1>14

\* The loops of the schedulers.
LEMMA LoopTypeStep ==
  ASSUME TypeOK, [Next]_vars
  PROVE  LoopType'
<1>0. RowType /\ ExecutorType /\ LoopType
  BY TypeParts
<1>1. CASE UNCHANGED <<pc, read, job_state, late>>
  BY <1>0, <1>1 DEF LoopType
<1>2. ASSUME NEW s \in Schedulers, NEW from, NEW to, Step(s, from, to), UNCHANGED read,
             from # "apply", to \in {"schedule", "queue", "trigger", "sync", "events", "timers"},
             job_state' \in [Schedulers -> {"running", "failed"}], late' \subseteq Schedulers
      PROVE  LoopType'
  BY <1>0, <1>2 DEF LoopType, Step
<1>3. job_state \in [Schedulers -> {"running", "failed"}] /\ late \subseteq Schedulers
  BY <1>0 DEF LoopType
<1>4. ASSUME NEW s \in Schedulers,
             \/ Schedule(s) \/ Queue(s) \/ TriggerDone(s) \/ Sync(s) \/ EndLoop(s) \/ AdoptOrReset(s)
      PROVE  LoopType'
  <2>1. CASE Schedule(s)
    BY <1>2, <1>3, <2>1 DEF Schedule
  <2>2. CASE Queue(s)
    BY <1>2, <1>3, <2>2, ZenonT(40) DEF Queue
  <2>3. CASE TriggerDone(s)
    BY <1>2, <1>3, <2>3 DEF TriggerDone
  <2>4. CASE Sync(s)
    BY <1>2, <1>3, <2>4 DEF Sync
  <2>5. CASE EndLoop(s)
    <3>1. job_state' \in [Schedulers -> {"running", "failed"}] /\ late' \subseteq Schedulers
      BY <1>3, <2>5 DEF EndLoop, Heartbeat
    <3> QED
      BY <1>2, <2>5, <3>1 DEF EndLoop
  <2>6. CASE AdoptOrReset(s)
    <3>1. job_state' \in [Schedulers -> {"running", "failed"}] /\ late' \subseteq Schedulers
      BY <1>3, <2>6 DEF AdoptOrReset, Heartbeat
    <3> QED
      BY <1>2, <2>6, <3>1 DEF AdoptOrReset
  <2> QED
    BY <1>4, <2>1, <2>2, <2>3, <2>4, <2>5, <2>6
<1>5. ASSUME NEW s \in Schedulers, ReadEvents(s) PROVE LoopType'
  <2> DEFINE buf == executor[s].event_buffer
  <2>1. CASE Step(s, "events", "timers") /\ UNCHANGED read
    BY <1>2, <1>3, <1>5, <2>1 DEF ReadEvents
  <2>2. CASE /\ \E k \in KeysOf(buf) : read' = [read EXCEPT ![s] = [row |-> ti, key |-> k, event |-> buf[k].value]]
             /\ Step(s, "events", "apply")
    <3>1. PICK k \in KeysOf(buf) : read' = [read EXCEPT ![s] = [row |-> ti, key |-> k, event |-> buf[k].value]]
      BY <2>2, Zenon
    <3>2. k \in Keys /\ buf[k].value \in ExecutorEvent
      BY <1>0 DEF ExecutorType, Executor, Dict, KeysOf, Absent
    <3>3. [row |-> ti, key |-> k, event |-> buf[k].value] \in [row : Row, key : Keys, event : ExecutorEvent]
      BY <1>0, <3>2 DEF RowType
    <3> HIDE DEF buf
    <3> QED
      BY <1>0, <1>5, <2>2, <3>1, <3>3, Zenon DEF ReadEvents, LoopType, Step
  <2> QED
    BY <1>5, <2>1, <2>2 DEF ReadEvents
<1>6. ASSUME NEW s \in Schedulers, ApplyEvents(s) PROVE LoopType'
  BY <1>0, <1>6, Zenon DEF ApplyEvents, LoopType, Step
<1>7. ASSUME NEW s \in Schedulers, Crash(s) PROVE LoopType'
  BY <1>0, <1>7, Zenon DEF Crash, LoopType
<1>8. ASSUME NEW s \in Schedulers, Stall(s) PROVE LoopType'
  BY <1>0, <1>8 DEF Stall, LoopType, scheduler
<1>9. \/ UNCHANGED <<pc, read, job_state, late>>
      \/ \E s \in Schedulers :
           \/ Schedule(s) \/ Queue(s) \/ TriggerDone(s) \/ Sync(s) \/ EndLoop(s) \/ AdoptOrReset(s)
           \/ ReadEvents(s) \/ ApplyEvents(s) \/ Crash(s) \/ Stall(s)
  BY ZenonT(40) DEF Next, vars, scheduler, Loop, TriggerTask, Deliver, Redeliver, WorkerCheck, WorkerClaim, WorkerSendBack,
         TaskEnds, Undead, WorkerExit, ReadCallback, HandleCallback
<1> QED
  BY <1>1, <1>4, <1>5, <1>6, <1>7, <1>8, <1>9

\* The broker and the workers.
LEMMA WorkerTypeStep ==
  ASSUME TypeOK, [Next]_vars
  PROVE  WorkerType'
<1>0. RowType /\ WorkerType /\ ti \in Row
  BY TypeParts DEF RowType
<1>1. CASE UNCHANGED <<broker, proc>>
  BY <1>0, <1>1, WorkerTypeSame, SMTT(30)
<1>2. ASSUME NEW s \in Schedulers, TriggerTask(s) PROVE WorkerType'
  <2>1. CASE UNCHANGED broker
    BY <1>1, <1>2, <2>1, ZenonT(40) DEF TriggerTask
  <2>2. CASE \E m \in Unused : Publish(m)
    <3>1. PICK m \in Unused : Publish(m)
      BY <2>2
    <3>2. m \in Messages
      <4>1. scenario.commands \in 0..MaxMsg /\ MaxMsg \in Nat
        BY CeleryAssumption DEF TypeOK
      <4> QED
        BY <4>1, SMTT(30) DEF Unused, Messages
    <3> QED
      BY <1>0, <1>2, <3>1, <3>2 DEF TriggerTask, Publish, WorkerType
  <2> QED
    BY <1>2, <2>1, <2>2 DEF TriggerTask
<1>3. ASSUME NEW p \in Procs, Deliver(p) PROVE WorkerType'
  BY <1>0, <1>3, SMTT(30) DEF Deliver, WorkerType
<1>4. ASSUME NEW p \in Procs, Redeliver(p) PROVE WorkerType'
  BY <1>0, <1>4, SMTT(30) DEF Redeliver, WorkerType
<1>5. ASSUME NEW p \in Procs, NEW to \in {"claim", "send_back", "run", "exit_success", "exit_failure"},
             NEW row \in Row \cup {None}, ProcTo(p, to, row), proc[p].pc # "idle", UNCHANGED broker,
             to \in {"claim", "send_back", "run"} => row \in Row, to = "claim" => row.try_number < MaxTry
      PROVE  WorkerType'
  <2>1. proc' = [proc EXCEPT ![p] = [pc |-> to, id |-> proc[p].id, row |-> row]]
    BY <1>0, <1>5, ProcToFacts, ZenonT(40)
  <2> QED
    BY <1>0, <1>5, <2>1 DEF WorkerType, broker
<1>6. ASSUME NEW p \in Procs, WorkerCheck(p) PROVE WorkerType'
  BY <1>0, <1>5, <1>6 DEF WorkerCheck
<1>7. ASSUME NEW p \in Procs, WorkerClaim(p) PROVE WorkerType'
  <2>1. ti' \in Row
    BY RowTypeStep DEF RowType
  <2> QED
    BY <1>5, <1>7, <2>1 DEF WorkerClaim
<1>8. ASSUME NEW p \in Procs, WorkerSendBack(p) \/ TaskEnds(p) PROVE WorkerType'
  BY <1>5, <1>8 DEF WorkerSendBack, TaskEnds
<1>9. ASSUME NEW p \in Procs, Undead(p) PROVE WorkerType'
  BY <1>5, <1>9, SMTT(30) DEF Undead
<1>10. ASSUME NEW p \in Procs, WorkerExit(p) PROVE WorkerType'
  BY <1>0, <1>10 DEF WorkerExit, WorkerType
<1>11. \/ UNCHANGED <<broker, proc>>
       \/ \E s \in Schedulers : TriggerTask(s)
       \/ \E p \in Procs : \/ Deliver(p) \/ Redeliver(p) \/ WorkerCheck(p) \/ WorkerClaim(p)
                           \/ WorkerSendBack(p) \/ TaskEnds(p) \/ Undead(p) \/ WorkerExit(p)
  BY ZenonT(40) DEF Next, vars, Loop, Schedule, Queue, TriggerDone, Sync, ReadEvents, ApplyEvents, EndLoop, AdoptOrReset,
         Crash, Stall, ReadCallback, HandleCallback
<1> QED
  BY <1>1, <1>2, <1>3, <1>4, <1>6, <1>7, <1>8, <1>9, <1>10, <1>11

-----------------------------------------------------------------------------
(* Executors.                                                              *)

\* What is popped is gone, and the rest stays.
LEMMA PopFacts ==
  ASSUME NEW V, NEW dict \in Dict(V), NEW K
  PROVE  /\ Pop(dict, K) \in Dict(V) /\ KeysOf(Pop(dict, K)) = KeysOf(dict) \ K
         /\ \A k \in Keys \ K : Pop(dict, K)[k] = dict[k]
BY DEF Pop, Dict, KeysOf, Absent

Good(e) ==
  /\ e \in Executor /\ e.sending \subseteq e.queued_tasks
  /\ e.running = KeysOf(e.tasks) /\ e.adopted \subseteq e.running

\* Every executor has its type, and no slot is leaked.
LEMMA ExecutorParts ==
  ExecutorType /\ SlotsNotLeaked <=>
    executor \in [Schedulers -> Executor] /\ \A s \in Schedulers : Good(executor[s])
BY DEF ExecutorType, SlotsNotLeaked, Good

\* A new executor is good.
LEMMA NewGood == Good(NewExecutor)
<1>1. EmptyDict \in Dict(ExecutorEvent) /\ EmptyDict \in Dict(Messages) /\ KeysOf(EmptyDict) = {}
  BY EmptyFacts
<1> QED
  BY <1>1, Zenon DEF Good, NewExecutor, Executor

\* queue_command, and the commands that heartbeat is going to send.
LEMMA QueueGood ==
  ASSUME NEW e, Good(e), NEW k \in Keys
  PROVE  LET q == queue_command(e, k) IN Good([q EXCEPT !.sending = q.queued_tasks])
<1> DEFINE q == queue_command(e, k)
<1>1. q \in Executor /\ q.running = e.running /\ q.tasks = e.tasks /\ q.adopted = e.adopted
  BY DEF Good, queue_command, Executor
<1> HIDE DEF q
<1>2. Good([q EXCEPT !.sending = q.queued_tasks])
  BY <1>1 DEF Good, Executor
<1> QED
  BY <1>2 DEF q

\* One executor changes, and stays good.
LEMMA OneChanges ==
  ASSUME ExecutorType, SlotsNotLeaked, NEW s \in Schedulers, NEW e, Good(e),
         executor' = [executor EXCEPT ![s] = e]
  PROVE  ExecutorType' /\ SlotsNotLeaked'
<1>1. executor \in [Schedulers -> Executor] /\ \A t \in Schedulers : Good(executor[t])
  BY ExecutorParts
<1>2. executor' \in [Schedulers -> Executor] /\ \A t \in Schedulers : executor'[t] = IF t = s THEN e ELSE executor[t]
  BY <1>1 DEF Good
<1>3. \A t \in Schedulers : Good(executor'[t])
  BY <1>1, <1>2
<1> QED
  BY <1>2, <1>3 DEF ExecutorType, SlotsNotLeaked, Good

=============================================================================
