---------------------------- MODULE CeleryProofs ----------------------------
(***************************************************************************)
(* Any number of schedulers, executors, commands and worker processes:     *)
(* what the operations of an executor do to its collections, the types of  *)
(* CeleryScheduling, that no executor leaks a slot, and that, while        *)
(* nothing happens that makes two commands of one attempt or two attempts  *)
(* with one key, no two worker processes execute the task instance at the  *)
(* same time.                                                              *)
(***************************************************************************)
EXTENDS CeleryStepProofs, FiniteSetTheorems

-----------------------------------------------------------------------------
(* Dicts and executors.                                                    *)

\* A finite set of numbers has a greatest element.
LEMMA Greatest ==
  ASSUME NEW T \in SUBSET Nat, IsFiniteSet(T), T # {}
  PROVE  \E x \in T : \A y \in T : x >= y
<1> DEFINE above(x) == {y \in T : y > x}
           n(x) == Cardinality(above(x))
           X == {n(x) : x \in T}
           R == {ss \in Nat \X Nat : ss[1] < ss[2]}
<1>1. ASSUME NEW x PROVE IsFiniteSet(above(x)) /\ n(x) \in Nat
  <2>1. above(x) \subseteq T
    OBVIOUS
  <2> HIDE DEF above
  <2> QED
    BY <2>1, FS_Subset, FS_CardinalityType, Zenon
<1>2. X \subseteq Nat /\ X # {}
  <2> HIDE DEF n
  <2> QED
    BY <1>1, Zenon
<1>3. IsWellFoundedOn(R, Nat)
  BY NatLessThanWellFounded DEF OpToRel
<1>4. PICK a \in X : \A b \in X : ~(<<b, a>> \in R)
  BY <1>2, <1>3, WFMin, Zenon
<1>5. PICK x \in T : a = n(x)
  BY <1>4, Zenon
<1>6. ASSUME NEW y \in T, y > x PROVE FALSE
  <2>0. y \in above(x)
    BY <1>6
  <2>1. ASSUME NEW z \in above(y) PROVE z \in above(x) \ {y}
    <3>1. x \in Nat /\ y \in Nat /\ z \in Nat /\ z \in T /\ z > y
      BY <2>1
    <3> QED
      BY <1>6, <3>1
  <2>2. IsFiniteSet(above(x)) /\ n(x) \in Nat /\ IsFiniteSet(above(y)) /\ n(y) \in Nat
    BY <1>1, Zenon
  <2>3. n(y) \in X
    BY Zenon
  <2>4. ~(n(y) < n(x))
    BY <1>4, <1>5, <2>2, <2>3, Zenon
  <2> HIDE DEF above
  <2>5. IsFiniteSet(above(x) \ {y}) /\ Cardinality(above(x) \ {y}) = n(x) - 1
    BY <2>0, <2>2, FS_RemoveElement, Zenon
  <2>6. n(y) <= Cardinality(above(x) \ {y})
    <3>1. above(y) \subseteq above(x) \ {y}
      BY <2>1, Zenon
    <3> QED
      BY <2>5, <3>1, FS_Subset, Zenon
  <2> QED
    BY <2>2, <2>4, <2>5, <2>6
<1> QED
  BY <1>5, <1>6

\* The places in a dict are numbers, and there is a last one.
LEMMA EndType ==
  ASSUME NEW V, NEW dict \in Dict(V)
  PROVE  End(dict) \in Nat
<1> DEFINE T == {dict[k].at : k \in Keys}
<1>1. \A k \in Keys : dict[k].at \in Nat
  BY DEF Dict, Absent
<1>2. T \subseteq Nat
  BY <1>1
<1>3. IsFiniteSet(Keys) /\ 0 \in Keys
  BY CeleryAssumption, FS_Interval DEF Keys
<1>4. IsFiniteSet(T)
  <2> DEFINE f == [k \in Keys |-> dict[k].at]
  <2>1. f \in Surjection(Keys, T)
    BY DEF Surjection
  <2> HIDE DEF f, T
  <2> QED
    BY <1>3, <2>1, FS_Surjection
<1>5. T # {}
  BY <1>3, ZenonT(40)
<1>6. \E x \in T : \A y \in T : x >= y
  BY <1>2, <1>4, <1>5, Greatest, Zenon
<1> HIDE DEF T
<1>7. Max(T) \in T
  BY <1>6, Zenon DEF Max
<1> QED
  BY <1>2, <1>7 DEF End, T

\* What is put into a dict is in it, and the rest stays.
LEMMA PutAllFacts ==
  ASSUME NEW V, NEW dict \in Dict(V), NEW K \in SUBSET Keys,
         NEW values \in [K -> V], NEW order \in [K -> Nat \ {0}]
  PROVE  /\ PutAll(dict, K, values, order) \in Dict(V)
         /\ KeysOf(PutAll(dict, K, values, order)) = KeysOf(dict) \cup K
         /\ \A k \in K : PutAll(dict, K, values, order)[k].value = values[k]
         /\ \A k \in Keys \ K : PutAll(dict, K, values, order)[k] = dict[k]
<1> DEFINE d == PutAll(dict, K, values, order)
<1>1. End(dict) \in Nat
  BY EndType
<1>2. \A k \in Keys : dict[k] \in [at : Nat \ {0}, value : V] \cup {Absent} /\ dict[k].at \in Nat
  BY DEF Dict, Absent
<1>3. ASSUME NEW k \in K
      PROVE  d[k] \in [at : Nat \ {0}, value : V] /\ d[k].value = values[k] /\ d[k].at > 0
  BY <1>1, <1>2 DEF PutAll
<1>4. \A k \in Keys \ K : d[k] = dict[k]
  BY DEF PutAll
<1>5. d \in Dict(V)
  BY <1>2, <1>3, <1>4, Zenon DEF PutAll, Dict
<1>6. KeysOf(d) = KeysOf(dict) \cup K
  BY <1>3, <1>4 DEF KeysOf
<1> QED
  BY <1>3, <1>4, <1>5, <1>6

\* One entry.
LEMMA PutFacts ==
  ASSUME NEW V, NEW dict \in Dict(V), NEW k \in Keys, NEW v \in V
  PROVE  /\ Put(dict, k, v) \in Dict(V)
         /\ KeysOf(Put(dict, k, v)) = KeysOf(dict) \cup {k}
         /\ Put(dict, k, v)[k].value = v
         /\ \A x \in Keys \ {k} : Put(dict, k, v)[x] = dict[x]
<1> DEFINE K == {k}
           values == [x \in K |-> v]
           order == [x \in K |-> 1]
           d == PutAll(dict, K, values, order)
<1>1. values \in [K -> V] /\ order \in [K -> Nat \ {0}]
  OBVIOUS
<1>2. values[k] = v /\ K \in SUBSET Keys
  OBVIOUS
<1>3. Put(dict, k, v) = d
  BY DEF Put
<1> HIDE DEF K, values, order
<1>4. /\ d \in Dict(V) /\ KeysOf(d) = KeysOf(dict) \cup K
      /\ \A x \in K : d[x].value = values[x]
      /\ \A x \in Keys \ K : d[x] = dict[x]
  BY <1>1, <1>2, PutAllFacts
<1> HIDE DEF d
<1> QED
  BY <1>2, <1>3, <1>4 DEF K

\* The executor x is e after results have been reported for the keys in D.
Reported(e, x, D) ==
  /\ x \in Executor
  /\ x.queued_tasks = e.queued_tasks /\ x.sending = e.sending
  /\ x.running = e.running \ D /\ x.adopted \subseteq e.adopted \ D
  /\ KeysOf(x.tasks) = KeysOf(e.tasks) \ D
  /\ \A k \in Keys \ D : x.tasks[k] = e.tasks[k] /\ x.event_buffer[k] = e.event_buffer[k]

\* change_state reports results.
LEMMA ChangeFacts ==
  ASSUME NEW e \in Executor, NEW K \in SUBSET KeysOf(e.tasks), NEW state \in [K -> {"success", "failed"}]
  PROVE  Reported(e, change_state(e, K, state), K)
<1> DEFINE values == [k \in K |-> Event(state[k], None)]
           order == [k \in K |-> e.tasks[k].at]
           old == e.event_buffer
           buffer == PutAll(old, K, values, order)
           tasks == Pop(e.tasks, K)
           x == change_state(e, K, state)
<1>1. e.tasks \in Dict(Messages) /\ old \in Dict(ExecutorEvent) /\ K \in SUBSET Keys
  BY DEF Executor, KeysOf
<1>2. values \in [K -> ExecutorEvent]
  BY DEF Event, ExecutorEvent
<1>3. order \in [K -> Nat \ {0}]
  BY <1>1 DEF Dict, Absent, KeysOf
<1>4. x = [e EXCEPT !.running = @ \ K, !.event_buffer = buffer, !.tasks = tasks, !.adopted = @ \ K]
  BY DEF change_state
<1> HIDE DEF values, order, old, x
<1>5. buffer \in Dict(ExecutorEvent) /\ \A k \in Keys \ K : buffer[k] = old[k]
  BY <1>1, <1>2, <1>3, PutAllFacts
<1>6. /\ tasks \in Dict(Messages) /\ KeysOf(tasks) = KeysOf(e.tasks) \ K
      /\ \A k \in Keys \ K : tasks[k] = e.tasks[k]
  BY <1>1, PopFacts
<1> HIDE DEF buffer, tasks
<1>7. /\ x \in Executor /\ x.queued_tasks = e.queued_tasks /\ x.sending = e.sending
      /\ x.running = e.running \ K /\ x.adopted = e.adopted \ K
      /\ x.tasks = tasks /\ x.event_buffer = buffer
  BY <1>4, <1>5, <1>6, Zenon DEF Executor
<1> QED
  BY <1>5, <1>6, <1>7 DEF Reported, old, x

\* update_task_state reports the results that Celery has.
LEMMA UpdateFacts ==
  ASSUME celery \in [Messages -> {"none", "pending", "started", "success", "failure"}],
         NEW e \in Executor, NEW K \in SUBSET KeysOf(e.tasks)
  PROVE  \E D \in SUBSET K : /\ Reported(e, update_task_state(e, K), D)
                             /\ \A k \in D : celery[e.tasks[k].value] \in {"success", "failure"}
<1> DEFINE result == [k \in K |-> celery[e.tasks[k].value]]
           D == {k \in K : result[k] \in {"success", "failure"}}
           state == [k \in D |-> IF result[k] = "success" THEN "success" ELSE "failed"]
           c == change_state(e, D, state)
           started == {k \in K : result[k] = "started"}
           x == update_task_state(e, K)
<1>1. D \in SUBSET KeysOf(e.tasks) /\ state \in [D -> {"success", "failed"}]
  OBVIOUS
<1>2. \A k \in D : celery[e.tasks[k].value] \in {"success", "failure"}
  OBVIOUS
<1>3. x = [c EXCEPT !.adopted = @ \ started]
  BY DEF update_task_state
<1>4. D \in SUBSET K
  OBVIOUS
<1> HIDE DEF D, state, started, x
<1>5. Reported(e, c, D)
  BY <1>1, ChangeFacts
<1> HIDE DEF c
<1>6. /\ x \in Executor /\ x.queued_tasks = c.queued_tasks /\ x.sending = c.sending
      /\ x.running = c.running /\ x.adopted = c.adopted \ started
      /\ x.tasks = c.tasks /\ x.event_buffer = c.event_buffer
  <2>1. c \in Executor
    BY <1>5 DEF Reported
  <2> QED
    BY <1>3, <2>1 DEF Executor
<1>7. Reported(e, x, D)
  BY <1>5, <1>6 DEF Reported
<1> QED
  BY <1>2, <1>4, <1>7 DEF x

\* The executor x is e after the command k has been published with the id m.
Sent(e, x, k, m) ==
  /\ x \in Executor
  /\ x.queued_tasks = e.queued_tasks \ {k} /\ x.sending = e.sending \ {k}
  /\ x.running = e.running \cup {k} /\ x.adopted = e.adopted
  /\ KeysOf(x.tasks) = KeysOf(e.tasks) \cup {k}
  /\ x.tasks[k].value = m /\ x.event_buffer[k].value.state = "queued"
  /\ \A y \in Keys \ {k} : x.tasks[y] = e.tasks[y] /\ x.event_buffer[y] = e.event_buffer[y]

\* A command that has been published.
LEMMA PublishedFacts ==
  ASSUME NEW e \in Executor, NEW k \in Keys, NEW m \in Messages
  PROVE  Sent(e, Published(e, k, m), k, m)
<1> DEFINE event == Event("queued", m)
           old == e.event_buffer
           tasks == Put(e.tasks, k, m)
           buffer == Put(old, k, event)
           x == Published(e, k, m)
<1>1. e.tasks \in Dict(Messages) /\ old \in Dict(ExecutorEvent)
  BY DEF Executor
<1>2. event \in ExecutorEvent /\ event.state = "queued"
  BY DEF Event, ExecutorEvent
<1>3. x = [e EXCEPT !.queued_tasks = @ \ {k}, !.sending = @ \ {k}, !.publish[k] = 1,
                    !.running = @ \cup {k}, !.tasks = tasks, !.event_buffer = buffer]
  BY DEF Published
<1> HIDE DEF event, old, x
<1>4. /\ buffer \in Dict(ExecutorEvent) /\ buffer[k].value = event
      /\ \A y \in Keys \ {k} : buffer[y] = old[y]
  BY <1>1, <1>2, PutFacts
<1>5. /\ tasks \in Dict(Messages) /\ KeysOf(tasks) = KeysOf(e.tasks) \cup {k}
      /\ tasks[k].value = m /\ \A y \in Keys \ {k} : tasks[y] = e.tasks[y]
  BY <1>1, PutFacts
<1> HIDE DEF buffer, tasks
<1>6. /\ x \in Executor
      /\ x.queued_tasks = e.queued_tasks \ {k} /\ x.sending = e.sending \ {k}
      /\ x.running = e.running \cup {k} /\ x.adopted = e.adopted
      /\ x.tasks = tasks /\ x.event_buffer = buffer
  BY <1>3, <1>4, <1>5, Zenon DEF Executor
<1> QED
  BY <1>2, <1>4, <1>5, <1>6 DEF Sent, x, old

\* A command that has not been published.
LEMMA PublishFailedFacts ==
  ASSUME NEW e \in Executor, NEW k \in Keys
  PROVE  LET x == PublishFailed(e, k)
         IN  /\ x \in Executor
             /\ x.queued_tasks = e.queued_tasks \ {k} /\ x.sending = e.sending \ {k}
             /\ x.running = e.running /\ x.adopted = e.adopted /\ x.tasks = e.tasks
             /\ \A y \in Keys \ {k} : x.event_buffer[y] = e.event_buffer[y]
<1> DEFINE event == Event("failed", None)
           old == e.event_buffer
           buffer == Put(old, k, event)
           x == PublishFailed(e, k)
<1>1. old \in Dict(ExecutorEvent)
  BY DEF Executor
<1>2. event \in ExecutorEvent
  BY DEF Event, ExecutorEvent
<1>3. x = [e EXCEPT !.queued_tasks = @ \ {k}, !.sending = @ \ {k}, !.publish[k] = 1, !.event_buffer = buffer]
  BY DEF PublishFailed
<1> HIDE DEF event, old, x
<1>4. buffer \in Dict(ExecutorEvent) /\ \A y \in Keys \ {k} : buffer[y] = old[y]
  BY <1>1, <1>2, PutFacts
<1> HIDE DEF buffer
<1>5. /\ x \in Executor
      /\ x.queued_tasks = e.queued_tasks \ {k} /\ x.sending = e.sending \ {k}
      /\ x.running = e.running /\ x.adopted = e.adopted /\ x.tasks = e.tasks /\ x.event_buffer = buffer
  BY <1>3, <1>4, Zenon DEF Executor
<1> QED
  BY <1>4, <1>5 DEF x, old

\* A command whose publication timed out stays queued, or is given up.
LEMMA PublishTimedOutFacts ==
  ASSUME NEW e \in Executor, NEW k \in Keys
  PROVE  LET x == PublishTimedOut(e, k)
         IN  /\ x \in Executor
             /\ x.queued_tasks \in {e.queued_tasks, e.queued_tasks \ {k}} /\ x.sending = e.sending \ {k}
             /\ x.running = e.running /\ x.adopted = e.adopted /\ x.tasks = e.tasks
<1>1. CASE e.publish[k] <= task_publish_max_retries
  <2> DEFINE publish == [e.publish EXCEPT ![k] = @ + 1]
  <2>1. publish \in [Keys -> Nat]
    BY DEF Executor
  <2>2. PublishTimedOut(e, k) = [e EXCEPT !.publish = publish, !.sending = @ \ {k}]
    BY <1>1 DEF PublishTimedOut, Executor
  <2> HIDE DEF publish
  <2> QED
    BY <2>1, <2>2, Zenon DEF Executor
<1>2. CASE ~(e.publish[k] <= task_publish_max_retries)
  BY <1>2, PublishFailedFacts DEF PublishTimedOut
<1> QED
  BY <1>1, <1>2

\* An adopted command has its slot until its result is known.
LEMMA AdoptedFacts ==
  ASSUME celery \in [Messages -> {"none", "pending", "started", "success", "failure"}],
         NEW e \in Executor, NEW t \in Row, t.external_id # None
  PROVE  \E k \in Keys, D \in SUBSET Keys :
           LET x == Adopted(e, t)
           IN  /\ x \in Executor /\ x.queued_tasks = e.queued_tasks /\ x.sending = e.sending
               /\ x.running = (e.running \cup {k}) \ D /\ x.adopted \subseteq (e.adopted \cup {k}) \ D
               /\ KeysOf(x.tasks) = (KeysOf(e.tasks) \cup {k}) \ D
<1> DEFINE k == try_number(t)
           m == t.external_id
           tasks == Put(e.tasks, k, m)
           e1 == [e EXCEPT !.adopted = @ \cup {k}, !.running = @ \cup {k}, !.tasks = tasks]
           x == Adopted(e, t)
<1>1. k \in Keys /\ m \in Messages
  BY KeyType DEF Row
<1>2. x = update_task_state(e1, {k})
  BY DEF Adopted
<1> HIDE DEF k, m, x
<1>3. e.tasks \in Dict(Messages)
  BY DEF Executor
<1>4. tasks \in Dict(Messages) /\ KeysOf(tasks) = KeysOf(e.tasks) \cup {k}
  BY <1>1, <1>3, PutFacts
<1> HIDE DEF tasks
<1>5. /\ e1 \in Executor /\ e1.queued_tasks = e.queued_tasks /\ e1.sending = e.sending
      /\ e1.running = e.running \cup {k} /\ e1.adopted = e.adopted \cup {k} /\ e1.tasks = tasks
  BY <1>1, <1>4, Zenon DEF Executor
<1> HIDE DEF e1
<1>6. {k} \in SUBSET KeysOf(e1.tasks)
  BY <1>4, <1>5
<1>7. PICK D \in SUBSET {k} : Reported(e1, x, D)
  BY <1>2, <1>5, <1>6, UpdateFacts
<1>8. D \in SUBSET Keys
  BY <1>1
<1>9. /\ x \in Executor /\ x.queued_tasks = e.queued_tasks /\ x.sending = e.sending
      /\ x.running = (e.running \cup {k}) \ D /\ x.adopted \subseteq (e.adopted \cup {k}) \ D
      /\ KeysOf(x.tasks) = (KeysOf(e.tasks) \cup {k}) \ D
  BY <1>4, <1>5, <1>7 DEF Reported
<1> QED
  BY <1>1, <1>8, <1>9 DEF x

-----------------------------------------------------------------------------
(* The steps that send commands and take their results keep a task instance *)
(* in the hands of one.                                                    *)

\* TriggerTask: the command goes to the broker, or becomes the event that it could not be published.
LEMMA TriggerKeeps ==
  ASSUME Steady, NEW s \in Schedulers, TriggerTask(s)
  PROVE  Kept
<1> DEFINE e == executor[s]
<1>0. /\ executor \in [Schedulers -> Executor] /\ e \in Executor /\ ti.try_number \in Int
      /\ UNCHANGED <<ti, pc, read, proc, callbacks, job_state, late>>
      /\ FreshRead' = FreshRead /\ Starting' = Starting
  BY KeyType, SameHands DEF TriggerTask, Steady, TypeOK
<1>1. ~("publish_timeout" \in scenario.may)
  BY DEF Steady, OneCommand
<1>2. PICK k \in e.sending :
        \/ \E m \in Unused : Publish(m) /\ executor' = [executor EXCEPT ![s] = Published(e, k, m)]
        \/ UNCHANGED broker /\ executor' = [executor EXCEPT ![s] = PublishFailed(e, k)]
  BY <1>1, ZenonT(40) DEF TriggerTask
<1>3. k \in Keys /\ <<s, k>> \in Commands
  BY <1>0 DEF Steady, TypeOK, Executor, Commands
<1>4. /\ ti.state = "queued" /\ Commands = {<<s, k>>}
      /\ copies = {} /\ Starting = {} /\ FreshEvents = {} /\ FreshRead = {}
  BY <1>3, Alone DEF Steady
<1>5. \A t \in Schedulers, y \in Keys :
        /\ y \in executor[t].queued_tasks => t = s /\ y = k
        /\ executor[t].tasks[y].at > 0 => y <= ti.try_number
  <2>1. ASSUME NEW t \in Schedulers, NEW y \in Keys, y \in executor[t].queued_tasks PROVE t = s /\ y = k
    <3>1. <<t, y>> \in Commands
      BY <2>1 DEF Commands
    <3> QED
      BY <1>4, <3>1
  <2>2. ASSUME NEW t \in Schedulers, NEW y \in Keys, executor[t].tasks[y].at > 0 PROVE y <= ti.try_number
    BY <1>4, <2>2 DEF Steady, Places
  <2> QED
    BY <2>1, <2>2
<1>6. k <= ti.try_number + 1
  BY <1>3 DEF Commands, Steady, Places
<1>7. ASSUME NEW x \in Executor, executor' = [executor EXCEPT ![s] = x], x.queued_tasks = e.queued_tasks \ {k},
             x.adopted = e.adopted
      PROVE  Commands' = {} /\ Settled'
  <2>1. \A t \in Schedulers : executor'[t] = IF t = s THEN x ELSE executor[t]
    BY <1>0, <1>7
  <2>2. Commands' = {}
    BY <1>5, <1>7, <2>1 DEF Commands
  <2>3. Settled'
    BY <1>0, <1>7, <2>1, ZenonT(40) DEF Settled, Steady
  <2> QED
    BY <2>2, <2>3
<1>8. Rows'
  BY <1>0 DEF Rows, Steady, callbacks
<1>9. CASE \E m \in Unused : Publish(m) /\ executor' = [executor EXCEPT ![s] = Published(e, k, m)]
  <2>1. PICK m \in Unused : Publish(m) /\ executor' = [executor EXCEPT ![s] = Published(e, k, m)]
    BY <1>9, Zenon
  <2>2. m \in Messages /\ celery[m] = "none" /\ celery \in [Messages -> {"none", "pending", "started", "success", "failure"}]
    <3>1. scenario.commands \in 0..MaxMsg /\ MaxMsg \in Nat
      BY CeleryAssumption, ZenonT(40) DEF Steady, TypeOK
    <3> QED
      BY <3>1 DEF Unused, Messages, Steady, TypeOK
  <2> DEFINE x == Published(e, k, m)
  <2>3. Sent(e, x, k, m)
    BY <1>0, <1>3, <2>2, PublishedFacts, ZenonT(40)
  <2> HIDE DEF x
  <2>4. \A t \in Schedulers : executor'[t] = IF t = s THEN x ELSE executor[t]
    BY <1>0, <2>1 DEF x
  <2>5. Commands' = {} /\ Settled'
    BY <1>7, <2>1, <2>3, Zenon DEF Sent, x
  <2>6. copies' = {m} /\ celery' = [celery EXCEPT ![m] = "pending"]
    BY <1>4, <2>1, ZenonT(40) DEF Publish
  <2>7. FreshEvents' = {}
    BY <1>0, <1>4, <2>3, <2>4 DEF FreshEvents, Fresh, Sent
  <2>8. Token'
    BY <1>0, <1>4, <2>5, <2>6, <2>7, TokenOne, ZenonT(40)
  <2>9. Places'
    <3>1. \A p \in Procs : proc[p].pc # "idle" => proc[p].id \in Messages /\ proc[p].id # m
      BY <2>2, ZenonT(40) DEF Steady, TypeOK
    <3>2. /\ \A n \in copies' : celery'[n] = "pending"
          /\ \A p \in Procs : proc'[p].pc # "idle" =>
               /\ celery'[proc'[p].id] = "started"
               /\ \A q \in Procs : proc'[q].pc # "idle" /\ proc'[q].id = proc'[p].id => q = p
      BY <1>0, <2>2, <2>6, <3>1 DEF Places, Steady
    <3>3. ASSUME NEW t \in Schedulers, NEW y \in Keys
          PROVE  /\ y \in executor'[t].queued_tasks => y <= ti'.try_number + 1
                 /\ executor'[t].tasks[y].at > 0 =>
                      /\ y <= ti'.try_number + 1
                      /\ y <= ti'.try_number \/ executor'[t].tasks[y].value \in copies'
      <4>1. y \in Int
        BY CeleryAssumption DEF Keys
      <4>2. CASE t = s /\ y = k
        BY <1>0, <1>6, <2>3, <2>4, <2>6, <4>2, ZenonT(40) DEF Sent
      <4>3. CASE ~(t = s /\ y = k)
        BY <1>0, <1>5, <2>3, <2>4, <4>1, <4>3 DEF Sent
      <4> QED
        BY <4>2, <4>3
    <3> QED
      BY <3>2, <3>3, ZenonT(40) DEF Places
  <2> QED
    BY <1>8, <2>5, <2>8, <2>9 DEF Kept
<1>10. CASE UNCHANGED broker /\ executor' = [executor EXCEPT ![s] = PublishFailed(e, k)]
  <2> DEFINE x == PublishFailed(e, k)
  <2>1. /\ x \in Executor /\ x.queued_tasks = e.queued_tasks \ {k}
        /\ x.adopted = e.adopted /\ x.tasks = e.tasks
        /\ \A y \in Keys \ {k} : x.event_buffer[y] = e.event_buffer[y]
    BY <1>0, <1>3, PublishFailedFacts
  <2> HIDE DEF x
  <2>2. \A t \in Schedulers : executor'[t] = IF t = s THEN x ELSE executor[t]
    BY <1>0, <1>10 DEF x
  <2>3. Commands' = {} /\ Settled'
    BY <1>7, <1>10, <2>1, ZenonT(40) DEF x
  <2>4. FreshEvents' \subseteq {<<s, k>>}
    BY <1>0, <1>4, <2>1, <2>2 DEF FreshEvents, Fresh
  <2>5. Token'
    BY <1>0, <1>4, <1>10, <2>3, <2>4, TokenOne, ZenonT(40) DEF broker
  <2>6. Places'
    <3>1. ASSUME NEW t \in Schedulers, NEW y \in Keys
          PROVE  /\ y \in executor'[t].queued_tasks => y \in executor[t].queued_tasks \/ y <= ti.try_number + 1
                 /\ executor'[t].tasks[y].at > 0 => executor'[t].tasks[y] = executor[t].tasks[y]
      BY <2>1, <2>2
    <3> QED
      BY <1>0, <1>10, <3>1, FewerPlaces, ZenonT(40) DEF Steady
  <2> QED
    BY <1>8, <2>3, <2>5, <2>6 DEF Kept
<1> QED
  BY <1>2, <1>9, <1>10

\* Sync: a command that has a result has been executed.
LEMMA SyncKeeps ==
  ASSUME Steady, NEW s \in Schedulers, Sync(s)
  PROVE  Kept
<1> DEFINE e == executor[s]
           x == update_all_task_states(e)
<1>0. /\ executor \in [Schedulers -> Executor] /\ e \in Executor /\ ti.try_number \in Int
      /\ celery \in [Messages -> {"none", "pending", "started", "success", "failure"}]
      /\ UNCHANGED <<ti, read, broker, proc, callbacks, job_state, late>> /\ Step(s, "sync", "events")
  BY KeyType DEF Sync, Steady, TypeOK
<1>1. /\ FreshRead' = FreshRead /\ Starting' = Starting /\ copies' = copies
  BY <1>0, SameRead, SameHands DEF Steady, broker
<1>2. KeysOf(e.tasks) \in SUBSET KeysOf(e.tasks)
  OBVIOUS
<1>3. PICK D \in SUBSET KeysOf(e.tasks) :
        Reported(e, x, D) /\ \A k \in D : celery[e.tasks[k].value] \in {"success", "failure"}
  BY <1>0, <1>2, UpdateFacts DEF update_all_task_states
<1>4. PICK K \in SUBSET x.adopted :
        executor' = [executor EXCEPT ![s] = change_state(x, K, [k \in K |-> "failed"])]
  BY Zenon DEF Sync
<1> HIDE DEF x
<1>5. K = {}
  BY <1>3 DEF Reported, Steady, Settled
<1> DEFINE state == [k \in K |-> "failed"]
           y == change_state(x, K, state)
<1>6. K \in SUBSET KeysOf(x.tasks) /\ state \in [K -> {"success", "failed"}] /\ x \in Executor
  BY <1>3, <1>5 DEF Reported
<1> HIDE DEF state
<1>7. Reported(x, y, K)
  BY <1>6, ChangeFacts, ZenonT(40)
<1>8. Reported(e, y, D)
  BY <1>3, <1>5, <1>7 DEF Reported
<1>9. executor' = [executor EXCEPT ![s] = y]
  BY <1>4, ZenonT(40) DEF state
<1> HIDE DEF y
<1>10. \A t \in Schedulers : executor'[t] = IF t = s THEN y ELSE executor[t]
  BY <1>0, <1>9
<1>11. \A k \in D : k \in Keys /\ k <= ti.try_number
  <2>1. ASSUME NEW k \in D PROVE k <= ti.try_number
    <3>1. k \in Keys /\ e.tasks[k].at > 0 /\ celery[e.tasks[k].value] \in {"success", "failure"}
      BY <1>3, ZenonT(40) DEF KeysOf
    <3>2. \A m \in copies : celery[m] = "pending"
      BY DEF Steady, Places
    <3>3. \A p \in Starting : celery[proc[p].id] = "started"
      BY ZenonT(40) DEF Steady, Places, Starting
    <3>4. k <= ti.try_number \/ e.tasks[k].value \in copies \cup {proc[p].id : p \in Starting}
      BY <3>1, ZenonT(40) DEF Steady, Places
    <3> QED
      BY <3>1, <3>2, <3>3, <3>4, ZenonT(40)
  <2> QED
    BY <1>3, <2>1, ZenonT(40) DEF KeysOf
<1>12. Commands' = Commands
  BY <1>8, <1>10 DEF Commands, Reported
<1>13. FreshEvents' \subseteq FreshEvents
  <2>1. ASSUME NEW c \in FreshEvents' PROVE c \in FreshEvents
    <3>1. c \in Schedulers \X Keys /\ c[2] > ti.try_number
      BY <1>0, <2>1 DEF FreshEvents, Fresh
    <3>2. c[2] \in Int /\ c[2] \notin D
      BY <1>0, <1>11, <3>1, CeleryAssumption DEF Keys
    <3>3. executor'[c[1]].event_buffer[c[2]] = executor[c[1]].event_buffer[c[2]]
      BY <1>8, <1>10, <3>1, <3>2 DEF Reported
    <3> QED
      BY <1>0, <2>1, <3>3, ZenonT(40) DEF FreshEvents, Fresh
  <2> QED
    BY <2>1, ZenonT(40)
<1>14. Token'
  BY <1>0, <1>1, <1>12, <1>13, TokenKept, ZenonT(40) DEF Steady
<1>15. Settled'
  BY <1>0, <1>8, <1>10 DEF Steady, Settled, Reported
<1>16. Rows'
  BY <1>0, <1>1, ZenonT(40) DEF Steady, Rows, callbacks
<1>17. Places'
  <2>1. ASSUME NEW t \in Schedulers, NEW k \in Keys
        PROVE  /\ executor'[t].queued_tasks = executor[t].queued_tasks
               /\ executor'[t].tasks[k].at > 0 => executor'[t].tasks[k] = executor[t].tasks[k]
    <3>1. CASE t = s /\ k \in D
      <4>1. k \notin KeysOf(y.tasks)
        BY <1>8, <3>1 DEF Reported
      <4> QED
        BY <1>8, <1>10, <3>1, <4>1, ZenonT(40) DEF Reported, KeysOf
    <3>2. CASE ~(t = s /\ k \in D)
      BY <1>8, <1>10, <3>2 DEF Reported
    <3> QED
      BY <3>1, <3>2
  <2> QED
    BY <1>0, <2>1, FewerPlaces, ZenonT(40) DEF Steady
<1> QED
  BY <1>14, <1>15, <1>16, <1>17, ZenonT(40) DEF Kept

\* The invariant, in every step.
LEMMA OneInvStep ==
  ASSUME OneInv, TypeOK', [Next]_vars
  PROVE  OneInv'
<1>1. UNCHANGED scenario
  BY ZenonT(40) DEF vars, Next, Loop, Schedule, Queue, TriggerTask, TriggerDone, Sync, ReadEvents, ApplyEvents, EndLoop,
         AdoptOrReset, Crash, Stall, Deliver, Redeliver, WorkerCheck, WorkerClaim, WorkerSendBack, TaskEnds, Undead,
         WorkerExit, ReadCallback, HandleCallback
<1> SUFFICES ASSUME Steady PROVE Kept
  BY <1>1 DEF OneInv, OneCommand, Steady, Kept
<1>2. CASE UNCHANGED vars
  <2>1. UNCHANGED <<ti, executor, pc, read, broker, proc, callbacks, job_state, late>>
    BY <1>2 DEF vars, scheduler
  <2>2. /\ Commands' = Commands /\ FreshRead' = FreshRead /\ FreshEvents' = FreshEvents
        /\ Starting' = Starting /\ copies' = copies
    BY <2>1, SameHands DEF broker
  <2>3. Token'
    BY <2>1, <2>2, TokenKept, ZenonT(40) DEF Steady
  <2>4. Settled' /\ Rows' /\ Places'
    BY <2>1, <2>2, SamePlaces DEF Steady, Settled, Rows, callbacks
  <2> QED
    BY <2>3, <2>4 DEF Kept
<1>3. ASSUME NEW s \in Schedulers, Loop(s) \/ AdoptOrReset(s) PROVE Kept
  BY <1>3, ScheduleKeeps, QueueKeeps, TriggerKeeps, SyncKeeps, ReadKeeps, ApplyKeeps, TimersKeep, Zenon DEF Loop
<1>4. ASSUME NEW s \in Schedulers, Crash(s) \/ Stall(s) PROVE Kept
  BY <1>4, Zenon DEF Crash, Stall, Steady, OneCommand
<1>5. ASSUME NEW p \in Procs, Deliver(p) \/ WorkerCheck(p) \/ WorkerClaim(p) \/ TaskEnds(p) \/ WorkerExit(p) PROVE Kept
  BY <1>5, DeliverKeeps, CheckKeeps, ClaimKeeps, EndsKeep, ExitKeeps, Zenon
<1>6. ASSUME NEW p \in Procs, Redeliver(p) \/ WorkerSendBack(p) \/ Undead(p) PROVE Kept
  BY <1>6 DEF Redeliver, WorkerSendBack, Undead, Steady, OneCommand, Rows
<1>7. CASE ReadCallback \/ HandleCallback
  BY <1>7, CallbackKeeps, Zenon
<1> QED
  BY <1>2, <1>3, <1>4, <1>5, <1>6, <1>7, Zenon DEF Next

-----------------------------------------------------------------------------
(* Slots.  Which keys sync may give up on depends on SlotsNotLeaked, and   *)
(* so does the type of the event buffer: the two are inductive together.   *)

\* sync: the results, and what has not been started in time.
LEMMA SyncGood ==
  ASSUME celery \in [Messages -> {"none", "pending", "started", "success", "failure"}],
         NEW e, Good(e), NEW K \in SUBSET update_all_task_states(e).adopted
  PROVE  Good(change_state(update_all_task_states(e), K, [k \in K |-> "failed"]))
<1> DEFINE x == update_all_task_states(e)
           state == [k \in K |-> "failed"]
           y == change_state(x, K, state)
<1>1. x = update_task_state(e, KeysOf(e.tasks)) /\ e \in Executor
  BY DEF update_all_task_states, Good
<1> HIDE DEF x
<1>2. KeysOf(e.tasks) \in SUBSET KeysOf(e.tasks)
  OBVIOUS
<1>3. PICK D \in SUBSET KeysOf(e.tasks) : Reported(e, x, D)
  BY <1>1, <1>2, UpdateFacts
<1>4. Good(x)
  BY <1>3 DEF Good, Reported
<1>5. K \in SUBSET x.adopted
  BY DEF x
<1>6. x \in Executor /\ K \in SUBSET KeysOf(x.tasks)
  BY <1>4, <1>5 DEF Good
<1>7. state \in [K -> {"success", "failed"}]
  OBVIOUS
<1> HIDE DEF state
<1>8. Reported(x, y, K)
  BY <1>6, <1>7, ChangeFacts, SMTT(30)
<1> HIDE DEF y
<1>9. Good(y)
  BY <1>4, <1>8 DEF Good, Reported
<1> QED
  BY <1>9 DEF x, y, state

\* The other steps of an executor.
LEMMA StepsGood ==
  ASSUME celery \in [Messages -> {"none", "pending", "started", "success", "failure"}],
         NEW e, Good(e)
  PROVE  /\ \A k \in Keys, m \in Messages : Good(Published(e, k, m))
         /\ \A k \in Keys : Good(PublishTimedOut(e, k)) /\ Good(PublishFailed(e, k))
         /\ \A t \in Row : t.external_id # None => Good(Adopted(e, t))
         /\ Good([e EXCEPT !.sending = e.queued_tasks])
         /\ Good([e EXCEPT !.event_buffer = EmptyDict])
<1> e \in Executor
  BY ZenonT(40) DEF Good
<1>1. ASSUME NEW k \in Keys, NEW m \in Messages PROVE Good(Published(e, k, m))
  <2>1. Sent(e, Published(e, k, m), k, m)
    BY PublishedFacts
  <2> QED
    BY <2>1 DEF Sent, Good
<1>2. ASSUME NEW k \in Keys PROVE Good(PublishTimedOut(e, k))
  BY PublishTimedOutFacts DEF Good
<1>3. ASSUME NEW k \in Keys PROVE Good(PublishFailed(e, k))
  BY PublishFailedFacts DEF Good
<1>4. ASSUME NEW t \in Row, t.external_id # None PROVE Good(Adopted(e, t))
  BY <1>4, AdoptedFacts, ZenonT(40) DEF Good
<1>5. Good([e EXCEPT !.sending = e.queued_tasks])
  BY DEF Good, Executor
<1>6. EmptyDict \in Dict(ExecutorEvent)
  BY EmptyFacts
<1>7. Good([e EXCEPT !.event_buffer = EmptyDict])
  BY <1>6 DEF Good, Executor
<1> QED
  BY <1>1, <1>2, <1>3, <1>4, <1>5, <1>7, ZenonT(40)

\* A step of the loop of a scheduler.
LEMMA LoopGood ==
  ASSUME TypeOK, SlotsNotLeaked, NEW s \in Schedulers, Loop(s)
  PROVE  ExecutorType' /\ SlotsNotLeaked'
<1> DEFINE e == executor[s]
<1>0. /\ ExecutorType /\ Good(e) /\ executor \in [Schedulers -> Executor] /\ ti \in Row
      /\ celery \in [Messages -> {"none", "pending", "started", "success", "failure"}]
  BY TypeParts, ExecutorParts DEF RowType, WorkerType
<1>1. CASE UNCHANGED executor
  BY <1>0, <1>1 DEF ExecutorType, SlotsNotLeaked
<1>2. CASE Queue(s)
  <2>1. CASE executor' = [executor EXCEPT ![s].sending = executor[s].queued_tasks]
    <3>1. Good([e EXCEPT !.sending = e.queued_tasks])
      BY <1>0, StepsGood, Zenon
    <3>2. executor' = [executor EXCEPT ![s] = [e EXCEPT !.sending = e.queued_tasks]]
      BY <2>1
    <3> QED
      BY <1>0, <3>1, <3>2, OneChanges, Zenon
  <2>2. CASE LET x == queue_command(executor[s], try_number(ti))
             IN  executor' = [executor EXCEPT ![s] = [x EXCEPT !.sending = x.queued_tasks]]
    <3> DEFINE x == queue_command(e, try_number(ti))
    <3>1. try_number(ti) \in Keys
      BY <1>0, KeyType
    <3>2. Good([x EXCEPT !.sending = x.queued_tasks])
      BY <1>0, <3>1, QueueGood
    <3>3. executor' = [executor EXCEPT ![s] = [x EXCEPT !.sending = x.queued_tasks]]
      BY <2>2, ZenonT(40)
    <3> HIDE DEF x
    <3> QED
      BY <1>0, <3>2, <3>3, OneChanges, ZenonT(40)
  <2> QED
    BY <1>2, <2>1, <2>2 DEF Queue
<1>3. CASE TriggerTask(s)
  <2>1. PICK k \in e.sending :
          \/ \E m \in Unused : executor' = [executor EXCEPT ![s] = Published(@, k, m)]
          \/ executor' = [executor EXCEPT ![s] = PublishTimedOut(@, k)]
          \/ executor' = [executor EXCEPT ![s] = PublishFailed(@, k)]
    BY <1>3 DEF TriggerTask
  <2>2. k \in Keys
    BY <1>0 DEF Good, Executor
  <2>3. CASE \E m \in Unused : executor' = [executor EXCEPT ![s] = Published(@, k, m)]
    <3>1. PICK m \in Unused : executor' = [executor EXCEPT ![s] = Published(e, k, m)]
      BY <2>3, Zenon
    <3>2. m \in Messages
      <4>1. scenario.commands \in 0..MaxMsg /\ MaxMsg \in Nat
        BY CeleryAssumption DEF TypeOK
      <4> QED
        BY <4>1 DEF Unused, Messages
    <3>3. Good(Published(e, k, m))
      BY <1>0, <2>2, <3>2, StepsGood, Zenon
    <3> QED
      BY <1>0, <3>1, <3>3, OneChanges, Zenon
  <2>4. CASE executor' = [executor EXCEPT ![s] = PublishTimedOut(@, k)]
    <3>1. executor' = [executor EXCEPT ![s] = PublishTimedOut(e, k)]
      BY <2>4
    <3>2. Good(PublishTimedOut(e, k))
      BY <1>0, <2>2, StepsGood, Zenon
    <3> QED
      BY <1>0, <3>1, <3>2, OneChanges, ZenonT(40)
  <2>5. CASE executor' = [executor EXCEPT ![s] = PublishFailed(@, k)]
    <3>1. executor' = [executor EXCEPT ![s] = PublishFailed(e, k)]
      BY <2>5
    <3>2. Good(PublishFailed(e, k))
      BY <1>0, <2>2, StepsGood, Zenon
    <3> QED
      BY <1>0, <3>1, <3>2, OneChanges, Zenon
  <2> QED
    BY <2>1, <2>3, <2>4, <2>5, ZenonT(40)
<1>4. CASE Sync(s)
  <2>1. PICK K \in SUBSET update_all_task_states(e).adopted :
          executor' = [executor EXCEPT ![s] = change_state(update_all_task_states(e), K, [k \in K |-> "failed"])]
    BY <1>4, Zenon DEF Sync
  <2>2. Good(change_state(update_all_task_states(e), K, [k \in K |-> "failed"]))
    BY <1>0, SyncGood
  <2> QED
    BY <1>0, <2>1, <2>2, OneChanges, Zenon
<1>5. CASE ReadEvents(s)
  <2>1. CASE executor' = [executor EXCEPT ![s].event_buffer = EmptyDict]
    <3>1. executor' = [executor EXCEPT ![s] = [e EXCEPT !.event_buffer = EmptyDict]]
      BY <2>1
    <3>2. Good([e EXCEPT !.event_buffer = EmptyDict])
      BY <1>0, StepsGood, Zenon
    <3> QED
      BY <1>0, <3>1, <3>2, OneChanges, Zenon
  <2> QED
    BY <1>1, <1>5, <2>1 DEF ReadEvents
<1> QED
  BY <1>1, <1>2, <1>3, <1>4, <1>5 DEF Loop, Schedule, TriggerDone, ApplyEvents, EndLoop

\* Every step.
LEMMA ExecutorsStep ==
  ASSUME TypeOK, SlotsNotLeaked, [Next]_vars
  PROVE  ExecutorType' /\ SlotsNotLeaked'
<1>0. /\ ExecutorType /\ executor \in [Schedulers -> Executor] /\ ti \in Row
      /\ celery \in [Messages -> {"none", "pending", "started", "success", "failure"}]
      /\ \A s \in Schedulers : Good(executor[s])
  BY TypeParts, ExecutorParts DEF RowType, WorkerType
<1>1. CASE UNCHANGED executor
  BY <1>0, <1>1 DEF ExecutorType, SlotsNotLeaked
<1>2. ASSUME NEW s \in Schedulers, Loop(s) PROVE ExecutorType' /\ SlotsNotLeaked'
  BY <1>2, LoopGood
<1>3. ASSUME NEW s \in Schedulers, AdoptOrReset(s) PROVE ExecutorType' /\ SlotsNotLeaked'
  <2>1. CASE ti.external_id # None /\ executor' = [executor EXCEPT ![s] = Adopted(@, ti)]
    <3>1. executor' = [executor EXCEPT ![s] = Adopted(executor[s], ti)]
      BY <2>1
    <3>2. Good(Adopted(executor[s], ti))
      BY <1>0, <2>1, StepsGood, Zenon
    <3> QED
      BY <1>0, <3>1, <3>2, OneChanges, Zenon
  <2> QED
    BY <1>1, <1>3, <2>1 DEF AdoptOrReset
<1>4. ASSUME NEW s \in Schedulers, Crash(s) PROVE ExecutorType' /\ SlotsNotLeaked'
  BY <1>0, <1>4, NewGood, OneChanges, Zenon DEF Crash
<1>5. [Next]_vars => \/ UNCHANGED executor
                     \/ \E s \in Schedulers : Loop(s) \/ AdoptOrReset(s) \/ Crash(s)
  BY Zenon DEF Next, vars, scheduler, Stall, Deliver, Redeliver, WorkerCheck, WorkerClaim, WorkerSendBack,
         TaskEnds, Undead, WorkerExit, ReadCallback, HandleCallback
<1> QED
  BY <1>1, <1>2, <1>3, <1>4, <1>5, ZenonT(40)

(* At any time everything in the memory of the schedulers and workers and  *)
(* in the database has its type, and the slots that an executor counts as  *)
(* taken are those of the commands it waits for.                           *)
THEOREM CeleryTypeCorrect == Spec => [](TypeOK /\ SlotsNotLeaked)
<1>1. Init => TypeOK /\ SlotsNotLeaked
  <2> SUFFICES ASSUME Init PROVE TypeOK /\ SlotsNotLeaked
    OBVIOUS
  <2>1. RowType
    <3>1. 0 \in TryNumbers
      BY CeleryAssumption DEF TryNumbers
    <3>2. "none" \in TaskInstanceState
      BY DEF TaskInstanceState
    <3>3. ti \in Row
      BY <3>1, <3>2, ZenonT(40) DEF Init, Row
    <3> QED
      BY <3>3, Zenon DEF Init, RowType
  <2>2. executor \in [Schedulers -> Executor] /\ \A s \in Schedulers : Good(executor[s])
    BY NewGood, ZenonT(40) DEF Init, Good
  <2>3. LoopType
    BY ZenonT(40) DEF Init, LoopType
  <2>4. WorkerType
    BY DEF Init, WorkerType
  <2> QED
    BY <2>1, <2>2, <2>3, <2>4, TypeParts, ExecutorParts
<1>2. TypeOK /\ SlotsNotLeaked /\ [Next]_vars => TypeOK' /\ SlotsNotLeaked'
  <2> SUFFICES ASSUME TypeOK, SlotsNotLeaked, [Next]_vars PROVE TypeOK' /\ SlotsNotLeaked'
    OBVIOUS
  <2>1. RowType' /\ LoopType' /\ WorkerType' /\ ExecutorType' /\ SlotsNotLeaked'
    BY RowTypeStep, LoopTypeStep, WorkerTypeStep, ExecutorsStep
  <2> QED
    BY <2>1, Zenon DEF TypeOK, RowType, ExecutorType, LoopType, WorkerType
<1> QED
  BY <1>1, <1>2, PTL DEF Spec

(* No result, adoption, failed publication, timeout or crash makes an      *)
(* executor count a slot as taken for good: running is always the set of   *)
(* the keys in tasks.                                                      *)
THEOREM KeepsSlots == Spec => []SlotsNotLeaked
BY CeleryTypeCorrect, PTL

(* As long as no scheduler dies or is late, no command is delivered twice  *)
(* or published twice and no attempt is sent back or rescheduled, a queued *)
(* task instance is in the hands of one at most, so                        *)
(* check_and_change_state_before_execution never lets two worker processes *)
(* execute it at once, however many processes, commands and retries there  *)
(* are.                                                                    *)
THEOREM KeepsOneExecution == Spec => []OneExecution
<1>1. Init /\ TypeOK => OneInv
  <2> SUFFICES ASSUME Init, TypeOK PROVE Token /\ Settled /\ Rows /\ Places
    BY DEF OneInv
  <2>1. /\ \A s \in Schedulers : executor[s] = NewExecutor /\ pc[s] = "schedule" /\ job_state[s] = "running"
        /\ \A p \in Procs : proc[p].pc = "idle"
        /\ ti.state = "none" /\ copies = {} /\ late = {} /\ callback = FALSE /\ handling = None
    BY DEF Init
  <2>2. NewExecutor.queued_tasks = {} /\ NewExecutor.adopted = {}
    BY DEF NewExecutor
  <2>3. \A k \in Keys : NewExecutor.tasks[k].at = 0 /\ NewExecutor.event_buffer[k].at = 0
    BY EmptyFacts, ZenonT(40) DEF NewExecutor
  <2>4. NoHands
    BY <2>1, <2>2, <2>3 DEF NoHands, Commands, Starting, FreshEvents, FreshRead
  <2>5. Token
    BY <2>4 DEF NoHands, Token, Single
  <2>6. Settled
    BY <2>1, <2>2, ZenonT(40) DEF Settled
  <2>7. Rows
    BY <2>1, <2>4, ZenonT(40) DEF Rows, NoHands
  <2>8. Places
    BY <2>1, <2>2, <2>3 DEF Places
  <2> QED
    BY <2>5, <2>6, <2>7, <2>8
<1>2. OneInv /\ TypeOK' /\ [Next]_vars => OneInv'
  BY OneInvStep
<1>3. OneInv => OneExecution
  <2> SUFFICES ASSUME OneInv, OneCommand PROVE Cardinality({p \in Procs : proc[p].pc = "run"}) <= 1
    BY DEF OneExecution, OneCommand
  <2> DEFINE running == {p \in Procs : proc[p].pc = "run"}
  <2>1. running \subseteq {ti.owner}
    BY DEF OneInv, Rows
  <2>2. IsFiniteSet({ti.owner}) /\ Cardinality({ti.owner}) = 1
    BY FS_Singleton, Zenon
  <2>3. IsFiniteSet(running) /\ Cardinality(running) <= Cardinality({ti.owner})
    BY <2>1, <2>2, FS_Subset
  <2> QED
    BY <2>2, <2>3
<1> QED
  BY <1>1, <1>2, <1>3, CeleryTypeCorrect, PTL DEF Spec

=============================================================================
