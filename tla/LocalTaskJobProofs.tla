------------------------- MODULE LocalTaskJobProofs -------------------------
(***************************************************************************)
(* Proofs about LocalTaskJob for any number of SIGTERMs, marks, clears and *)
(* tries, and any of the faults.                                           *)
(***************************************************************************)
EXTENDS LocalTaskJob, FiniteSetTheorems, SequenceTheorems, TLAPS

-----------------------------------------------------------------------------
(* The stack.                                                              *)

ExitPcs == {"exit", "exit_fail", "exit_callback"}

CallPcs == ExitPcs \cup {"term", "mini"}

\* The forked process lives, and terminate() has not given it up.
Held == Alive /\ ~forgotten

\* A call is on a stack of at least two.
LEMMA AboveOne ==
  ASSUME NEW n \in Nat, n >= 1, 1 # n
  PROVE  n > 1
  OBVIOUS

\* What is below the top of the stack stays where it is when the top changes.
LEMMA GotoOne ==
  ASSUME NEW s \in Seq(Pcs), s # <<>>, NEW a \in Pcs
  PROVE  /\ <<a>> \o Tail(s) \in Seq(Pcs) /\ Len(<<a>> \o Tail(s)) = Len(s)
         /\ (<<a>> \o Tail(s))[1] = a
         /\ \A i \in 2..Len(s) : (<<a>> \o Tail(s))[i] = s[i]
  OBVIOUS

\* ... when the top returns to what is below it.
LEMMA ReturnOne ==
  ASSUME NEW s \in Seq(Pcs), Len(s) > 1
  PROVE  /\ Tail(s) \in Seq(Pcs) /\ Len(Tail(s)) = Len(s) - 1 /\ Tail(s) # <<>>
         /\ \A i \in 1..(Len(s) - 1) : Tail(s)[i] = s[i + 1]
<1>1. s # <<>> /\ Len(s) \in Nat
  OBVIOUS
<1>2. /\ Tail(s) \in Seq(Pcs) /\ Len(Tail(s)) = Len(s) - 1
      /\ \A i \in 1..Len(Tail(s)) : Tail(s)[i] = s[i + 1]
  BY <1>1, HeadTailProperties
<1>3. Tail(s) # <<>>
  <2>1. Len(Tail(s)) # 0
    BY <1>1, <1>2
  <2>2. Len(<<>>) = 0
    OBVIOUS
  <2>3. QED
    BY <2>1, <2>2, Zenon
<1>4. QED
  BY <1>1, <1>2, <1>3

\* ... and when a signal handler is pushed on it.
LEMMA PushTwo ==
  ASSUME NEW s \in Seq(Pcs), s # <<>>, NEW a \in Pcs, NEW b \in Pcs
  PROVE  /\ <<a, b>> \o s \in Seq(Pcs) /\ Len(<<a, b>> \o s) = Len(s) + 2
         /\ (<<a, b>> \o s)[1] = a /\ (<<a, b>> \o s)[2] = b
         /\ \A i \in 1..Len(s) : (<<a, b>> \o s)[i + 2] = s[i]
  OBVIOUS

\* While _execute is on top of the stack, it is all of the stack.
LEMMA MainAlone ==
  ASSUME JobInv, Top \in MainPcs
  PROVE  /\ stack = <<Top>> /\ Len(stack) = 1 /\ Bottom = Top
         /\ \A pcs \in Seq(Pcs) : pcs \o Tail(stack) = pcs
<1>1. stack \in Seq(Pcs) /\ stack # <<>>
  BY DEF JobInv, TypeOK
<1>2. Len(stack) \in Nat /\ Len(stack) >= 1 /\ Top = stack[1]
  BY <1>1 DEF Top
<1>3. 1 = Len(stack)
  <2>1. \A i \in 1..Len(stack) : stack[i] \in MainPcs <=> i = Len(stack)
    BY DEF JobInv
  <2>2. 1 \in 1..Len(stack) /\ stack[1] \in MainPcs
    BY <1>2
  <2>3. QED
    BY <2>1, <2>2
<1>4. stack = <<Top>>
  BY <1>1, <1>2, <1>3
<1>5. Tail(stack) = <<>>
  BY <1>4
<1>6. \A pcs \in Seq(Pcs) : pcs \o <<>> = pcs
  OBVIOUS
<1>7. QED
  BY <1>2, <1>3, <1>4, <1>5, <1>6 DEF Bottom

-----------------------------------------------------------------------------
(* The calls of handle_task_exit on the stack.                             *)

\* They are finitely many.
LEMMA FramesFinite ==
  ASSUME TypeOK
  PROVE  IsFiniteSet(ExitFrames) /\ Cardinality(ExitFrames) \in Nat
<1>1. Len(stack) \in Nat
  BY DEF TypeOK
<1>2. IsFiniteSet(0..(Len(stack) - 1))
  BY <1>1, FS_Interval
<1>3. ExitFrames \subseteq 0..(Len(stack) - 1)
  BY DEF ExitFrames
<1>4. QED
  BY <1>2, <1>3, FS_Subset, FS_CardinalityType, Zenon

\* There is none while _execute is on top of the stack,
LEMMA NoFrames ==
  ASSUME JobInv, Top \in MainPcs
  PROVE  ExitFrames = {} /\ Cardinality(ExitFrames) = 0
<1>1. stack = <<Top>> /\ Len(stack) = 1
  BY MainAlone
<1>2. ExitFrames = {}
  BY <1>1 DEF ExitFrames, MainPcs
<1>3. QED
  BY <1>2, FS_EmptySet

\* nor when it has called terminate(), and one when it has called handle_task_exit.
LEMMA FewFrames ==
  ASSUME NEW m \in MainPcs
  PROVE  /\ stack' = <<m>> => ExitFrames' = {} /\ Cardinality(ExitFrames') = 0
         /\ stack' = <<"term", m>> => ExitFrames' = {} /\ Cardinality(ExitFrames') = 0
         /\ stack' = <<"exit", m>> => ExitFrames' = {1} /\ Cardinality(ExitFrames') = 1
<1>1. stack' = <<m>> => ExitFrames' = {}
  BY DEF ExitFrames, MainPcs
<1>2. ASSUME stack' = <<"term", m>> PROVE ExitFrames' = {}
  <2>1. Len(stack') = 2 /\ stack'[1] = "term" /\ stack'[2] = m
    BY <1>2
  <2>2. \A d \in 0..1 : stack'[2 - d] \notin {"exit", "exit_fail", "exit_callback"}
    BY <2>1 DEF MainPcs
  <2>3. QED
    BY <2>1, <2>2 DEF ExitFrames
<1>3. ASSUME stack' = <<"exit", m>> PROVE ExitFrames' = {1}
  <2>1. Len(stack') = 2 /\ stack'[1] = "exit" /\ stack'[2] = m
    BY <1>3
  <2>2. \A d \in 0..1 : stack'[2 - d] \in {"exit", "exit_fail", "exit_callback"} <=> d = 1
    BY <2>1 DEF MainPcs
  <2>3. QED
    BY <2>1, <2>2 DEF ExitFrames
<1>4. Cardinality({}) = 0 /\ Cardinality({1}) = 1
  BY FS_EmptySet, FS_Singleton
<1>5. QED
  BY <1>1, <1>2, <1>3, <1>4, Zenon

-----------------------------------------------------------------------------
(* The steps, by what they do to the stack.                                *)

May == IF MainMayCall THEN 1 ELSE 0

\* No callback more.
LEMMA AddNothing ==
  ASSUME NEW n \in Nat
  PROVE  n + 0 = n
  OBVIOUS

\* The shapes of a stack with nothing but _execute and what it called.
LEMMA Shapes ==
  ASSUME NEW m \in MainPcs, NEW s, s \in {<<m>>, <<"term", m>>, <<"exit", m>>},
         s = <<"exit", m>> => m # "done"
  PROVE  /\ s[Len(s)] = m
         /\ \A i \in 1..Len(s) : s[i] \in MainPcs <=> i = Len(s)
         /\ \A i \in 1..Len(s) : s[i] # "reap"
         /\ m = "done" /\ Len(s) > 1 => s[Len(s) - 1] = "term"
         /\ Head(s) = "done" => s = <<"done">>
<1>0. "term" \notin MainPcs /\ "exit" \notin MainPcs /\ m # "reap"
  BY DEF MainPcs
<1>1. CASE s = <<m>>
  <2>1. Len(s) = 1 /\ s[1] = m /\ Head(s) = m
    BY <1>1
  <2>2. QED
    BY <1>0, <1>1, <2>1
<1>2. ASSUME NEW c \in {"term", "exit"}, s = <<c, m>>, c = "exit" => m # "done"
      PROVE  /\ s[Len(s)] = m
             /\ \A i \in 1..Len(s) : s[i] \in MainPcs <=> i = Len(s)
             /\ \A i \in 1..Len(s) : s[i] # "reap"
             /\ m = "done" /\ Len(s) > 1 => s[Len(s) - 1] = "term"
             /\ Head(s) # "done"
  <2>1. Len(s) = 2 /\ s[1] = c /\ s[2] = m /\ Head(s) = c
    BY <1>2
  <2>2. \A i \in 1..2 : (s[i] \in MainPcs <=> i = 2) /\ s[i] # "reap"
    BY <1>0, <1>2, <2>1
  <2>3. QED
    BY <1>2, <2>1, <2>2
<1>3. QED
  BY <1>1, <1>2

\* _execute is on top and goes on, calls terminate(), or calls handle_task_exit.
LEMMA MainStep ==
  ASSUME JobInv, TypeOK', Top \in MainPcs, NEW m \in MainPcs,
         \/ stack' = <<m>> /\ callbacks' + May' <= callbacks + May
         \/ stack' = <<"term", m>> /\ callbacks' + May' <= callbacks + May
         \/ stack' = <<"exit", m>> /\ m # "done" /\ callbacks' + 1 + May' <= callbacks + May,
         sigterms' = sigterms, m \in {"check", "claim", "send_back", "start"} => Fresh',
         RunnerInv', stack' = <<"done">> => ~Held'
  PROVE  JobInv'
<1>1. stack' \in {<<m>>, <<"term", m>>, <<"exit", m>>} /\ (stack' = <<"exit", m>> => m # "done")
  <2>1. <<m>> # <<"exit", m>> /\ <<"term", m>> # <<"exit", m>>
    OBVIOUS
  <2>2. QED
    BY <2>1
<1>2. /\ Bottom' = m
      /\ \A i \in 1..Len(stack') : stack'[i] \in MainPcs <=> i = Len(stack')
      /\ \A i \in 1..Len(stack') : stack'[i] # "reap"
      /\ m = "done" /\ Len(stack') > 1 => stack'[Len(stack') - 1] = "term"
      /\ Top' = "done" => stack' = <<"done">>
  <2>1. /\ stack'[Len(stack')] = m
        /\ \A i \in 1..Len(stack') : stack'[i] \in MainPcs <=> i = Len(stack')
        /\ \A i \in 1..Len(stack') : stack'[i] # "reap"
        /\ m = "done" /\ Len(stack') > 1 => stack'[Len(stack') - 1] = "term"
        /\ Head(stack') = "done" => stack' = <<"done">>
    <3> HIDE DEF MainPcs
    <3>1. QED
      BY ONLY <1>1, Shapes, m \in MainPcs
  <2>2. QED
    BY <2>1 DEF Bottom, Top
<1>3. NoOrphanTask'
  BY <1>2 DEF NoOrphanTask, Held
<1>4. callbacks' + Cardinality(ExitFrames') + May' <= 1 + sigterms'
  <2>1. Cardinality(ExitFrames) = 0
    BY NoFrames
  <2>2. callbacks + 0 + May <= 1 + sigterms
    BY <2>1, Zenon DEF JobInv, May
  <2>3. /\ callbacks \in Nat /\ callbacks' \in Nat /\ sigterms \in Nat /\ sigterms' = sigterms
        /\ May \in Nat /\ May' \in Nat
    BY DEF JobInv, TypeOK, May
  <2>4. \/ Cardinality(ExitFrames') = 0 /\ callbacks' + May' <= callbacks + May
        \/ Cardinality(ExitFrames') = 1 /\ callbacks' + 1 + May' <= callbacks + May
    BY FewFrames, Zenon
  <2>5. QED
    <3> HIDE DEF May
    <3>1. callbacks + May <= 1 + sigterms
      BY ONLY <2>2, <2>3
    <3>2. callbacks' + Cardinality(ExitFrames') + May' <= callbacks + May
      <4>1. CASE Cardinality(ExitFrames') = 0 /\ callbacks' + May' <= callbacks + May
        <5>1. callbacks' + 0 = callbacks'
          BY <2>3, AddNothing, Zenon
        <5>2. callbacks' + Cardinality(ExitFrames') = callbacks'
          BY <4>1, <5>1
        <5>3. QED
          BY <4>1, <5>2
      <4>2. CASE Cardinality(ExitFrames') = 1 /\ callbacks' + 1 + May' <= callbacks + May
        BY ONLY <2>3, <4>2, Zenon
      <4>3. QED
        BY <2>4, <4>1, <4>2
    <3>3. Cardinality(ExitFrames') \in Nat
      BY <2>4
    <3>4. QED
      BY ONLY <2>3, <3>1, <3>2, <3>3
<1>5. QED
  BY <1>2, <1>3, <1>4 DEF JobInv, May

\* Nothing happens to the stack.
LEMMA SameStack ==
  ASSUME JobInv, TypeOK', UNCHANGED <<stack, terminating, callbacks, sigterms>>,
         Held' => Held, RunnerInv', Fresh => Fresh',
         sig # "no" => sig' # "no"
  PROVE  JobInv'
<1>1. UNCHANGED <<Bottom, ExitFrames, MainMayCall, Top>>
  BY DEF Bottom, ExitFrames, MainMayCall, Top
<1>2. NoOrphanTask'
  BY <1>1 DEF JobInv, NoOrphanTask, Held
<1>3. callbacks' + Cardinality(ExitFrames') + (IF MainMayCall' THEN 1 ELSE 0) <= 1 + sigterms'
  BY <1>1, Zenon DEF JobInv
<1>4. QED
  BY <1>1, <1>2, <1>3 DEF JobInv

\* A step inside handle_task_exit.
LEMMA ExitStep ==
  ASSUME JobInv, TypeOK', Top \in ExitPcs, NEW a \in CallPcs, Goto(<<a>>),
         a # "reap", terminating => terminating', UNCHANGED <<runner, task, sigterms>>, RunnerInv',
         \/ a \in ExitPcs /\ callbacks' = callbacks
         \/ a \notin ExitPcs /\ callbacks' <= callbacks + 1
  PROVE  JobInv'
<1>1. /\ stack \in Seq(Pcs) /\ stack # <<>> /\ Len(stack) \in Nat /\ Len(stack) >= 1
      /\ Top = stack[1] /\ a \in Pcs
  BY DEF JobInv, TypeOK, Top, CallPcs, ExitPcs, Pcs
<1>2. /\ Len(stack') = Len(stack) /\ stack'[1] = a
      /\ \A i \in 2..Len(stack) : stack'[i] = stack[i]
  BY <1>1, GotoOne DEF Goto
<1>3. \A i \in 1..Len(stack) : stack[i] \in MainPcs <=> i = Len(stack)
  BY DEF JobInv
<1>4. Len(stack) > 1
  <2>1. Top \notin MainPcs
    BY DEF ExitPcs, MainPcs
  <2>2. 1 # Len(stack)
    BY <1>1, <1>3, <2>1
  <2>3. QED
    BY <1>1, <2>2, AboveOne, Zenon
<1>5. Bottom' = Bottom
  BY <1>1, <1>2, <1>4 DEF Bottom
<1>6. \A i \in 1..Len(stack') : stack'[i] \in MainPcs <=> i = Len(stack')
  <2>1. a \notin MainPcs
    BY DEF CallPcs, ExitPcs, MainPcs
  <2>2. QED
    BY <1>1, <1>2, <1>3, <1>4, <2>1
<1>7. Bottom' = "done" /\ Len(stack') > 1 => stack'[Len(stack') - 1] \in {"term", "reap"}
  <2>1. SUFFICES ASSUME Bottom = "done" PROVE stack'[Len(stack) - 1] \in {"term", "reap"}
    BY <1>2, <1>5
  <2>2. stack[Len(stack) - 1] \in {"term", "reap"}
    BY <1>4, <2>1 DEF JobInv
  <2>3. Len(stack) - 1 # 1
    BY <1>1, <2>2, Zenon DEF ExitPcs
  <2>4. QED
    BY <1>1, <1>2, <1>4, <2>2, <2>3
<1>8. NoOrphanTask'
  <2>1. Top' = a
    BY <1>1, <1>2 DEF Top, TypeOK
  <2>2. QED
    BY <2>1 DEF NoOrphanTask, CallPcs, ExitPcs
<1>9. MainMayCall' => MainMayCall
  BY <1>5 DEF MainMayCall
<1>10. callbacks' + Cardinality(ExitFrames') + (IF MainMayCall' THEN 1 ELSE 0) <= 1 + sigterms'
  <2> DEFINE n == Len(stack) - 1
  <2>1. n \in ExitFrames
    BY <1>1, <1>4 DEF ExitFrames, ExitPcs
  <2>2. a \in ExitPcs => ExitFrames' = ExitFrames
    <3>1. \A d \in 0..n : d # n => stack'[Len(stack) - d] = stack[Len(stack) - d]
      BY <1>1, <1>2
    <3>2. stack'[Len(stack) - n] = a /\ stack[Len(stack) - n] \in ExitPcs
      BY <1>1, <1>2
    <3>3. QED
      BY <1>2, <3>1, <3>2 DEF ExitFrames, ExitPcs
  <2>3. a \notin ExitPcs => ExitFrames' = ExitFrames \ {n}
    <3>1. \A d \in 0..n : d # n => stack'[Len(stack) - d] = stack[Len(stack) - d]
      BY <1>1, <1>2
    <3>2. stack'[Len(stack) - n] = a
      BY <1>1, <1>2
    <3>3. QED
      BY <1>2, <3>1, <3>2 DEF ExitFrames, ExitPcs
  <2>4. IsFiniteSet(ExitFrames) /\ Cardinality(ExitFrames) \in Nat
    BY FramesFinite DEF JobInv
  <2>5. Cardinality(ExitFrames \ {n}) = Cardinality(ExitFrames) - 1
    BY <2>1, <2>4, FS_RemoveElement, Zenon
  <2>6. \/ Cardinality(ExitFrames') = Cardinality(ExitFrames) /\ callbacks' = callbacks
        \/ Cardinality(ExitFrames') = Cardinality(ExitFrames) - 1 /\ callbacks' <= callbacks + 1
    BY <2>2, <2>3, <2>5, Zenon
  <2>7. callbacks + Cardinality(ExitFrames) + (IF MainMayCall THEN 1 ELSE 0) <= 1 + sigterms
    BY DEF JobInv
  <2>8. callbacks \in Nat /\ callbacks' \in Nat /\ sigterms' = sigterms /\ sigterms \in Nat
    BY DEF JobInv, TypeOK
  <2>9. QED
    BY <1>9, <2>4, <2>6, <2>7, <2>8
<1>11. \A i \in 1..Len(stack') : stack'[i] = "reap" => sig' # "no"
  <2>1. \A i \in 1..Len(stack) : stack[i] = "reap" => sig # "no"
    BY DEF JobInv
  <2>2. sig' = sig
    BY DEF runner
  <2>3. QED
    BY <1>1, <1>2, <2>1, <2>2
<1>12. Fresh' = Fresh
  BY DEF task, runner, Fresh
<1>13. QED
  BY <1>5, <1>6, <1>7, <1>8, <1>10, <1>11, <1>12 DEF JobInv

\* A call of terminate(), or of the mini scheduler, returns.
LEMMA ReturnStep ==
  ASSUME JobInv, TypeOK', Top \in {"term", "reap", "mini"}, Return,
         UNCHANGED <<terminating, callbacks, sigterms, sig>>,
         RunnerInv', Fresh => Fresh',
         Top # "mini" /\ Bottom = "done" => ~Held'
  PROVE  JobInv'
<1>1. /\ stack \in Seq(Pcs) /\ stack # <<>> /\ Len(stack) \in Nat /\ Len(stack) >= 1
      /\ Top = stack[1]
  BY DEF JobInv, TypeOK, Top
<1>2. \A i \in 1..Len(stack) : stack[i] \in MainPcs <=> i = Len(stack)
  BY DEF JobInv
<1>3. Len(stack) > 1
  <2>1. Top \notin MainPcs
    BY DEF MainPcs
  <2>2. 1 # Len(stack)
    BY <1>1, <1>2, <2>1
  <2>3. QED
    BY <1>1, <2>2, AboveOne, Zenon
<1>4. /\ Len(stack') = Len(stack) - 1 /\ stack' \in Seq(Pcs) /\ stack' # <<>>
      /\ \A i \in 1..(Len(stack) - 1) : stack'[i] = stack[i + 1]
  BY <1>1, <1>3, ReturnOne DEF Return
<1>5. Bottom' = Bottom
  BY <1>1, <1>3, <1>4 DEF Bottom
<1>6. \A i \in 1..Len(stack') : stack'[i] \in MainPcs <=> i = Len(stack')
  <2>1. SUFFICES ASSUME NEW i \in 1..(Len(stack) - 1)
                 PROVE  stack'[i] \in MainPcs <=> i = Len(stack) - 1
    BY <1>4
  <2>2. stack'[i] = stack[i + 1] /\ i + 1 \in 1..Len(stack)
    BY <1>1, <1>4
  <2>3. stack[i + 1] \in MainPcs <=> i + 1 = Len(stack)
    BY <1>2, <2>2
  <2>4. QED
    BY <1>1, <2>2, <2>3
<1>7. Bottom' = "done" /\ Len(stack') > 1 => stack'[Len(stack') - 1] \in {"term", "reap"}
  <2>1. SUFFICES ASSUME Bottom = "done", Len(stack) - 1 > 1
                 PROVE  stack'[Len(stack) - 2] \in {"term", "reap"}
    BY <1>1, <1>4, <1>5
  <2>2. stack[Len(stack) - 1] \in {"term", "reap"}
    BY <1>3, <2>1 DEF JobInv
  <2>3. QED
    BY <1>1, <1>4, <2>1, <2>2
<1>8. NoOrphanTask'
  <2>1. SUFFICES ASSUME Top' = "done" PROVE ~Held'
    BY DEF NoOrphanTask, Held
  <2>2. stack[2] = "done"
    BY <1>1, <1>3, <1>4, <2>1 DEF Top
  <2>3. 2 = Len(stack)
    <3>1. stack[2] \in MainPcs /\ 2 \in 1..Len(stack)
      BY <1>1, <1>3, <2>2 DEF MainPcs
    <3>2. QED
      BY <1>2, <3>1, Zenon
  <2>4. Bottom = "done"
    BY <2>2, <2>3 DEF Bottom
  <2>5. stack[1] \in {"term", "reap"}
    <3>1. stack[Len(stack) - 1] \in {"term", "reap"}
      BY <1>3, <2>4 DEF JobInv
    <3>2. Len(stack) - 1 = 1
      BY <2>3
    <3>3. QED
      BY <3>1, <3>2, Zenon
  <2>6. QED
    BY <1>1, <2>4, <2>5
<1>9. MainMayCall' = MainMayCall
  BY <1>5 DEF MainMayCall
<1>10. ExitFrames' = ExitFrames
  <2>1. \A d \in 0..(Len(stack) - 2) : stack'[Len(stack) - 1 - d] = stack[Len(stack) - d]
    <3>1. SUFFICES ASSUME NEW d \in 0..(Len(stack) - 2)
                   PROVE  stack'[Len(stack) - 1 - d] = stack[Len(stack) - d]
      OBVIOUS
    <3>2. /\ Len(stack) - 1 - d \in 1..(Len(stack) - 1)
          /\ Len(stack) - 1 - d + 1 = Len(stack) - d
      BY <1>1
    <3>3. QED
      BY <1>4, <3>2
  <2>2. Len(stack) - 1 \notin ExitFrames
    BY <1>1 DEF ExitFrames
  <2>3. ExitFrames = {d \in 0..(Len(stack) - 2) :
                        stack[Len(stack) - d] \in {"exit", "exit_fail", "exit_callback"}}
    BY <1>1, <1>3, <2>2 DEF ExitFrames
  <2>4. ExitFrames' = {d \in 0..(Len(stack) - 2) :
                         stack'[Len(stack) - 1 - d] \in {"exit", "exit_fail", "exit_callback"}}
    BY <1>1, <1>4 DEF ExitFrames
  <2>5. QED
    BY <2>1, <2>3, <2>4
<1>11. callbacks' + Cardinality(ExitFrames') + (IF MainMayCall' THEN 1 ELSE 0) <= 1 + sigterms'
  BY <1>9, <1>10, Zenon DEF JobInv
<1>12. \A i \in 1..Len(stack') : stack'[i] = "reap" => sig' # "no"
  <2>1. \A i \in 1..Len(stack) : stack[i] = "reap" => sig # "no"
    BY DEF JobInv
  <2>2. \A i \in 1..(Len(stack) - 1) : i + 1 \in 1..Len(stack)
    BY <1>1
  <2>3. QED
    BY <1>4, <2>1, <2>2
<1>13. QED
  BY <1>5, <1>6, <1>7, <1>8, <1>11, <1>12 DEF JobInv

\* The signal handler is pushed on the stack.
LEMMA PushStep ==
  ASSUME JobInv, TypeOK', Sigterm, RunnerInv'
  PROVE  JobInv'
<1>1. /\ stack \in Seq(Pcs) /\ stack # <<>> /\ Len(stack) \in Nat /\ Len(stack) >= 1
      /\ Top = stack[1] /\ "term" \in Pcs /\ "exit" \in Pcs
  BY DEF JobInv, TypeOK, Top, Pcs
<1>2. \A i \in 1..Len(stack) : stack[i] \in MainPcs <=> i = Len(stack)
  BY DEF JobInv
<1>3. /\ UNCHANGED <<terminating, sig, child, callbacks>> /\ sigterms' = sigterms + 1
      /\ Fresh' = Fresh
  BY DEF Sigterm, runner, task, Fresh
<1>4. /\ Len(stack') = Len(stack) + 2 /\ stack'[1] = "term" /\ stack'[2] = "exit"
      /\ \A i \in 1..Len(stack) : stack'[i + 2] = stack[i]
  BY <1>1, PushTwo DEF Sigterm
<1>5. \A j \in 3..(Len(stack) + 2) : stack'[j] = stack[j - 2]
  <2>1. SUFFICES ASSUME NEW j \in 3..(Len(stack) + 2) PROVE stack'[j] = stack[j - 2]
    OBVIOUS
  <2>2. j - 2 \in 1..Len(stack) /\ (j - 2) + 2 = j
    BY <1>1
  <2>3. QED
    BY <1>4, <2>2
<1>6. Bottom' = Bottom
  BY <1>1, <1>4, <1>5 DEF Bottom
<1>7. \A i \in 1..Len(stack') : stack'[i] \in MainPcs <=> i = Len(stack')
  <2>1. SUFFICES ASSUME NEW i \in 1..(Len(stack) + 2)
                 PROVE  stack'[i] \in MainPcs <=> i = Len(stack) + 2
    BY <1>4
  <2>2. CASE i \in 1..2
    <3>1. "term" \notin MainPcs /\ "exit" \notin MainPcs
      BY DEF MainPcs
    <3>2. QED
      BY <1>1, <1>4, <2>2, <3>1
  <2>3. CASE i \in 3..(Len(stack) + 2)
    <3>1. stack'[i] = stack[i - 2] /\ i - 2 \in 1..Len(stack)
      BY <1>1, <1>5, <2>3
    <3>2. stack[i - 2] \in MainPcs <=> i - 2 = Len(stack)
      BY <1>2, <3>1
    <3>3. QED
      BY <1>1, <3>1, <3>2
  <2>4. QED
    BY <1>1, <2>2, <2>3
<1>8. Bottom' = "done" /\ Len(stack') > 1 => stack'[Len(stack') - 1] \in {"term", "reap"}
  <2>1. SUFFICES ASSUME Bottom = "done" PROVE stack'[Len(stack) + 1] \in {"term", "reap"}
    BY <1>1, <1>4, <1>6
  <2>2. Len(stack) > 1
    BY <1>1, <2>1 DEF Sigterm, Ended, Bottom
  <2>3. stack[Len(stack) - 1] \in {"term", "reap"}
    BY <2>1, <2>2 DEF JobInv
  <2>4. QED
    BY <1>1, <1>5, <2>2, <2>3
<1>9. NoOrphanTask'
  <2>1. Top' = "term"
    BY <1>1, <1>4 DEF Top, TypeOK
  <2>2. QED
    BY <2>1 DEF NoOrphanTask
<1>10. MainMayCall' = MainMayCall
  BY <1>3, <1>6 DEF MainMayCall
<1>11. callbacks' + Cardinality(ExitFrames') + (IF MainMayCall' THEN 1 ELSE 0) <= 1 + sigterms'
  <2> DEFINE n == Len(stack)
  <2>1. n \notin ExitFrames
    BY <1>1 DEF ExitFrames
  <2>2. ExitFrames' = ExitFrames \cup {n}
    <3>1. \A d \in 0..(n - 1) : stack'[n + 2 - d] = stack[n - d]
      <4>1. SUFFICES ASSUME NEW d \in 0..(n - 1) PROVE stack'[n + 2 - d] = stack[n - d]
        BY Zenon
      <4>2. n + 2 - d \in 3..(n + 2) /\ (n + 2 - d) - 2 = n - d
        BY <1>1
      <4>3. QED
        BY <1>5, <4>2
    <3>2. stack'[n + 2 - n] = "exit" /\ stack'[n + 2 - (n + 1)] = "term"
      BY <1>1, <1>4
    <3>3. ExitFrames' = {d \in 0..(n + 1) :
                           stack'[n + 2 - d] \in {"exit", "exit_fail", "exit_callback"}}
      BY <1>1, <1>4 DEF ExitFrames
    <3>4. \A d : d \in 0..(n + 1) <=> d \in 0..(n - 1) \/ d = n \/ d = n + 1
      BY <1>1
    <3>5. QED
      BY <1>1, <3>1, <3>2, <3>3, <3>4, Zenon DEF ExitFrames
  <2>3. IsFiniteSet(ExitFrames) /\ Cardinality(ExitFrames) \in Nat
    BY FramesFinite DEF JobInv
  <2>4. Cardinality(ExitFrames \cup {n}) = Cardinality(ExitFrames) + 1
    BY <2>1, <2>3, FS_AddElement, Zenon
  <2>5. Cardinality(ExitFrames') = Cardinality(ExitFrames) + 1
    BY <2>2, <2>4, Zenon
  <2>6. callbacks + Cardinality(ExitFrames) + (IF MainMayCall THEN 1 ELSE 0) <= 1 + sigterms
    BY DEF JobInv
  <2>7. callbacks \in Nat /\ sigterms \in Nat
    BY DEF JobInv, TypeOK
  <2>8. QED
    BY <1>3, <1>10, <2>3, <2>5, <2>6, <2>7
<1>12. \A i \in 1..Len(stack') : stack'[i] = "reap" => sig' # "no"
  <2>1. \A i \in 1..Len(stack) : stack[i] = "reap" => sig # "no"
    BY DEF JobInv
  <2>2. SUFFICES ASSUME NEW i \in 1..(Len(stack) + 2), stack'[i] = "reap" PROVE sig # "no"
    BY <1>3, <1>4
  <2>3. i \notin 1..2
    BY <1>4, <2>2
  <2>4. i \in 3..(Len(stack) + 2) /\ i - 2 \in 1..Len(stack)
    BY <1>1, <2>3
  <2>5. QED
    BY <1>5, <2>1, <2>2, <2>4
<1>13. QED
  BY <1>3, <1>6, <1>7, <1>8, <1>9, <1>11, <1>12 DEF JobInv

\* The job is killed, or an exception leaves nothing of the stack but its end.
LEMMA CutStep ==
  ASSUME JobInv, TypeOK', NEW m \in {"kill", "done", "dead"}, stack' = <<m>>, RunnerInv',
         m = "done" => ~Held', UNCHANGED <<callbacks, sigterms>>
  PROVE  JobInv'
<1>1. m \in MainPcs /\ m # "reap"
  BY DEF MainPcs
<1>2. /\ Bottom' = m /\ Top' = m /\ Len(stack') = 1
      /\ \A i \in 1..Len(stack') : (stack'[i] \in MainPcs <=> i = Len(stack')) /\ stack'[i] # "reap"
  BY <1>1 DEF Bottom, Top
<1>3. Cardinality(ExitFrames') = 0 /\ ~MainMayCall'
  BY <1>1, <1>2, FewFrames DEF MainMayCall
<1>4. callbacks' + Cardinality(ExitFrames') + (IF MainMayCall' THEN 1 ELSE 0) <= 1 + sigterms'
  <2>1. callbacks \in Nat /\ sigterms \in Nat /\ Cardinality(ExitFrames) \in Nat
    BY FramesFinite DEF JobInv, TypeOK
  <2>2. callbacks + Cardinality(ExitFrames) + (IF MainMayCall THEN 1 ELSE 0) <= 1 + sigterms
    BY DEF JobInv
  <2>3. callbacks <= 1 + sigterms
    BY <2>1, <2>2
  <2>4. QED
    BY <1>3, <2>1, <2>3
<1>5. QED
  BY <1>2, <1>4 DEF JobInv, NoOrphanTask, Held

\* terminate() has sent SIGTERM.
LEMMA ReapStep ==
  ASSUME JobInv, TypeOK', Top = "term", Goto(<<"reap">>), process = "set", sig' # "no", RunnerInv',
         UNCHANGED <<terminating, callbacks, sigterms, child>>
  PROVE  JobInv'
<1>1. /\ stack \in Seq(Pcs) /\ stack # <<>> /\ Len(stack) \in Nat /\ Len(stack) >= 1
      /\ Top = stack[1] /\ "reap" \in Pcs /\ "term" \notin MainPcs /\ "reap" \notin MainPcs
  BY DEF JobInv, TypeOK, Top, Pcs, MainPcs
<1>2. /\ Len(stack') = Len(stack) /\ stack'[1] = "reap"
      /\ \A i \in 2..Len(stack) : stack'[i] = stack[i]
  BY <1>1, GotoOne DEF Goto
<1>3. \A i \in 1..Len(stack) : stack[i] \in MainPcs <=> i = Len(stack)
  BY DEF JobInv
<1>4. Len(stack) > 1
  <2>1. 1 # Len(stack)
    BY <1>1, <1>3
  <2>2. QED
    BY <1>1, <2>1, AboveOne, Zenon
<1>5. Bottom' = Bottom /\ MainMayCall' = MainMayCall
  BY <1>1, <1>2, <1>4 DEF Bottom, MainMayCall
<1>6. \A i \in 1..Len(stack') : stack'[i] \in MainPcs <=> i = Len(stack')
  BY <1>1, <1>2, <1>3, <1>4
<1>7. Bottom' = "done" /\ Len(stack') > 1 => stack'[Len(stack') - 1] \in {"term", "reap"}
  <2>1. SUFFICES ASSUME Bottom = "done" PROVE stack'[Len(stack) - 1] \in {"term", "reap"}
    BY <1>2, <1>5
  <2>2. stack[Len(stack) - 1] \in {"term", "reap"}
    BY <1>4, <2>1 DEF JobInv
  <2>3. QED
    BY <1>1, <1>2, <1>4, <2>2
<1>8. NoOrphanTask'
  <2>1. Top' = "reap"
    BY <1>1, <1>2 DEF Top, TypeOK
  <2>2. QED
    BY <2>1 DEF NoOrphanTask
<1>9. ExitFrames' = ExitFrames
  <2> DEFINE n == Len(stack) - 1
  <2>1. \A d \in 0..n : d # n => stack'[Len(stack) - d] = stack[Len(stack) - d]
    BY <1>1, <1>2
  <2>2. stack'[Len(stack) - n] = "reap" /\ stack[Len(stack) - n] = "term"
    BY <1>1, <1>2
  <2>3. QED
    BY <1>2, <2>1, <2>2 DEF ExitFrames
<1>10. callbacks' + Cardinality(ExitFrames') + (IF MainMayCall' THEN 1 ELSE 0) <= 1 + sigterms'
  BY <1>5, <1>9, Zenon DEF JobInv
<1>11. Bottom \notin {"check", "claim", "send_back", "start"}
  BY DEF JobInv, Fresh
<1>12. QED
  BY <1>5, <1>6, <1>7, <1>8, <1>10, <1>11 DEF JobInv

\* What a call or a signal handler does leaves _execute where it is.
LEMMA StaysBelow ==
  ASSUME JobInv, \/ Top \notin MainPcs /\ \E a \in Pcs : Goto(<<a>>)
                 \/ Top \notin MainPcs /\ Return
                 \/ Sigterm
  PROVE  Bottom' = Bottom
<1>1. /\ stack \in Seq(Pcs) /\ stack # <<>> /\ Len(stack) \in Nat /\ Len(stack) >= 1
      /\ Top = stack[1] /\ "term" \in Pcs /\ "exit" \in Pcs
  BY DEF JobInv, TypeOK, Top, Pcs
<1>2. Top \notin MainPcs => Len(stack) > 1
  <2>1. SUFFICES ASSUME Top \notin MainPcs PROVE Len(stack) > 1
    OBVIOUS
  <2>2. \A i \in 1..Len(stack) : stack[i] \in MainPcs <=> i = Len(stack)
    BY DEF JobInv
  <2>3. 1 # Len(stack)
    BY <1>1, <2>1, <2>2
  <2>4. QED
    BY <1>1, <2>3, AboveOne, Zenon
<1>3. ASSUME Top \notin MainPcs, NEW a \in Pcs, Goto(<<a>>) PROVE Bottom' = Bottom
  <2>1. Len(stack') = Len(stack) /\ \A i \in 2..Len(stack) : stack'[i] = stack[i]
    BY <1>1, <1>3, GotoOne DEF Goto
  <2>2. QED
    BY <1>1, <1>2, <1>3, <2>1 DEF Bottom
<1>4. ASSUME Top \notin MainPcs, Return PROVE Bottom' = Bottom
  <2>1. /\ Len(stack') = Len(stack) - 1
        /\ \A i \in 1..(Len(stack) - 1) : stack'[i] = stack[i + 1]
    BY <1>1, <1>2, <1>4, ReturnOne DEF Return
  <2>2. QED
    BY <1>1, <1>2, <1>4, <2>1 DEF Bottom
<1>5. ASSUME Sigterm PROVE Bottom' = Bottom
  <2>1. /\ Len(stack') = Len(stack) + 2
        /\ \A i \in 1..Len(stack) : stack'[i + 2] = stack[i]
    BY <1>1, <1>5, PushTwo DEF Sigterm
  <2>2. QED
    BY <1>1, <2>1 DEF Bottom
<1>6. QED
  BY <1>3, <1>4, <1>5

-----------------------------------------------------------------------------
(* Types.                                                                  *)

\* What somebody writes to a task instance keeps its type.
LEMMA WrittenTypes ==
  ASSUME NEW ti \in TI
  PROVE  /\ \A st \in {"none", "queued", "running", "restarting", "success", "failed", "skipped",
                       "sensing", "up_for_retry"} : set_state(ti, st) \in TI
         /\ handle_failure(ti) \in TI
         /\ [ti EXCEPT !.owner = "self"] \in TI
         /\ [ti EXCEPT !.state = "none", !.owner = "self"] \in TI
         /\ [ti EXCEPT !.state = "running", !.try_number = @ + 1, !.owner = "self"] \in TI
         /\ [ti EXCEPT !.state = "running", !.try_number = @ + 1, !.owner = "other"] \in TI
         /\ [ti EXCEPT !.state = "up_for_reschedule", !.try_number = @ - 1] \in TI
         /\ \A n \in ClearedMaxTries(ti) : [ti EXCEPT !.state = "none", !.max_tries = n] \in TI
<1>1. {"none", "queued", "running", "restarting", "success", "failed", "skipped", "sensing",
       "up_for_retry", "up_for_reschedule"} \subseteq TaskInstanceState
  BY DEF TaskInstanceState
<1>2. \A st \in TaskInstanceState : set_state(ti, st) \in TI
  BY DEF set_state, TI
<1>3. handle_failure(ti) \in TI
  BY <1>1, <1>2 DEF handle_failure
<1>4. /\ [ti EXCEPT !.owner = "self"] \in TI
      /\ [ti EXCEPT !.state = "none", !.owner = "self"] \in TI
  BY <1>1, Zenon DEF TI
<1>5. /\ [ti EXCEPT !.state = "running", !.try_number = @ + 1, !.owner = "self"] \in TI
      /\ [ti EXCEPT !.state = "running", !.try_number = @ + 1, !.owner = "other"] \in TI
      /\ [ti EXCEPT !.state = "up_for_reschedule", !.try_number = @ - 1] \in TI
  <2>1. ti.try_number + 1 \in Int /\ ti.try_number - 1 \in Int
    BY DEF TI
  <2>2. \A n \in Int : \A o \in {"self", "other"} :
          [ti EXCEPT !.state = "running", !.try_number = n, !.owner = o] \in TI
    BY <1>1, Zenon DEF TI
  <2>3. \A n \in Int : [ti EXCEPT !.state = "up_for_reschedule", !.try_number = n] \in TI
    BY <1>1, Zenon DEF TI
  <2>4. QED
    BY <2>1, <2>2, <2>3, Zenon
<1>6. \A n \in Int : [ti EXCEPT !.state = "none", !.max_tries = n] \in TI
  BY <1>1, Zenon DEF TI
<1>7. ClearedMaxTries(ti) \subseteq Int
  BY JobAssumption DEF ClearedMaxTries, try_number, TI
<1>8. QED
  <2>1. \A st \in {"none", "queued", "running", "restarting", "success", "failed", "skipped",
                   "sensing", "up_for_retry"} : set_state(ti, st) \in TI
    BY <1>1, <1>2
  <2>2. \A n \in ClearedMaxTries(ti) : [ti EXCEPT !.state = "none", !.max_tries = n] \in TI
    BY <1>6, <1>7, Zenon
  <2>3. QED
    BY <1>3, <1>4, <1>5, <2>1, <2>2, Zenon

\* A step of the job to somewhere else keeps the type of the stack.
LEMMA GotoType ==
  ASSUME TypeOK, NEW pcs \in Seq(Pcs), pcs # <<>>, Goto(pcs)
  PROVE  stack' \in Seq(Pcs) /\ stack' # <<>>
<1>1. Tail(stack) \in Seq(Pcs)
  BY DEF TypeOK
<1>2. /\ pcs \o Tail(stack) \in Seq(Pcs)
      /\ Len(pcs \o Tail(stack)) = Len(pcs) + Len(Tail(stack))
  BY <1>1, ConcatProperties
<1>3. Len(pcs) \in Nat /\ Len(pcs) # 0 /\ Len(Tail(stack)) \in Nat
  BY <1>1, EmptySeq, LenProperties
<1>4. Len(pcs \o Tail(stack)) # 0
  BY <1>2, <1>3
<1>5. Len(<<>>) = 0
  OBVIOUS
<1>6. pcs \o Tail(stack) # <<>>
  BY <1>4, <1>5, Zenon
<1>7. QED
  BY <1>2, <1>6 DEF Goto

\* ... and so does a return.
LEMMA ReturnType ==
  ASSUME JobInv, Top \in {"term", "reap", "mini"}, Return
  PROVE  stack' \in Seq(Pcs) /\ stack' # <<>>
<1>1. /\ stack \in Seq(Pcs) /\ stack # <<>> /\ Len(stack) \in Nat /\ Len(stack) >= 1
      /\ Top = stack[1]
  BY DEF JobInv, TypeOK, Top
<1>2. 1 # Len(stack)
  <2>1. \A i \in 1..Len(stack) : stack[i] \in MainPcs <=> i = Len(stack)
    BY DEF JobInv
  <2>2. Top \notin MainPcs
    BY DEF MainPcs
  <2>3. QED
    BY <1>1, <2>1, <2>2
<1>3. Len(stack) > 1
  BY <1>1, <1>2, AboveOne, Zenon
<1>4. QED
  BY <1>1, <1>3, ReturnOne DEF Return

\* The one- and two-element sequences that the job's actions name.
LEMMA Named ==
  /\ \A a \in Pcs : <<a>> \in Seq(Pcs) /\ <<a>> # <<>>
  /\ \A a, b \in Pcs : <<a, b>> \in Seq(Pcs) /\ <<a, b>> # <<>>
<1>1. \A a \in Pcs : Len(<<a>>) # Len(<<>>)
  OBVIOUS
<1>2. \A a, b \in Pcs : Len(<<a, b>>) # Len(<<>>)
  OBVIOUS
<1>3. QED
  BY <1>1, <1>2

\* A step that only changes the stack.
LEMMA StackTypeStep ==
  ASSUME TypeOK, stack' \in Seq(Pcs), stack' # <<>>,
         UNCHANGED <<row, terminating, job_ti, runner, task, env, callbacks>>
  PROVE  TypeOK'
  BY DEF TypeOK, runner, task, env

ChildStates == {"none", "forked", "boot", "exec", "writing", "leaving", "killed", "dead"}

\* Every step keeps every variable in its type.
LEMMA TypeStep ==
  ASSUME JobInv, [Next]_vars
  PROVE  TypeOK'
<1> USE DEF job, runner, task, env, ChildStates
<1>0. TypeOK
  BY DEF JobInv
<1>1. CASE JobCheck \/ JobClaim \/ JobSendBack
  <2>1. stack' \in Seq(Pcs) /\ stack' # <<>>
    <3>1. Goto(<<"claim">>) \/ Goto(<<"send_back">>) \/ Goto(<<"start">>) \/ Goto(<<"done">>)
      BY <1>1 DEF JobCheck, JobClaim, JobSendBack
    <3>2. QED
      BY <1>0, <3>1, GotoType, Named, ZenonT(40) DEF Pcs
  <2>2. row' \in TI /\ job_ti' \in TI
    <3>1. row \in TI /\ job_ti \in TI
      BY <1>0 DEF TypeOK
    <3>2. QED
      BY <1>1, <3>1, WrittenTypes, Zenon DEF JobCheck, JobClaim, JobSendBack
  <2>3. UNCHANGED <<terminating, runner, task, env, callbacks>>
    BY <1>1 DEF JobCheck, JobClaim, JobSendBack
  <2>4. QED
    BY <1>0, <2>1, <2>2, <2>3 DEF TypeOK
<1>2. CASE JobFork \/ JobStarted
  <2>1. Goto(<<"started">>) \/ Goto(<<"loop">>)
    BY <1>2 DEF JobFork, JobStarted
  <2>2. stack' \in Seq(Pcs) /\ stack' # <<>>
    BY <1>0, <2>1, GotoType, Named, ZenonT(40) DEF Pcs
  <2>3. QED
    BY <1>0, <1>2, <2>2 DEF JobFork, JobStarted, TypeOK
<1>3. CASE JobLoop
  <2>1. Goto(<<"kill">>) \/ Goto(<<"rc">>)
    BY <1>3 DEF JobLoop
  <2>2. stack' \in Seq(Pcs) /\ stack' # <<>>
    BY <1>0, <2>1, GotoType, Named, ZenonT(40) DEF Pcs
  <2>3. QED
    BY <1>0, <1>3, <2>2, StackTypeStep DEF JobLoop
<1>4. CASE JobReturnCode
  <2>1. Goto(<<"exit", "kill">>) \/ Goto(<<"wait">>) \/ Goto(<<"heartbeat">>)
    BY <1>4 DEF JobReturnCode
  <2>2. stack' \in Seq(Pcs) /\ stack' # <<>>
    BY <1>0, <2>1, GotoType, Named, ZenonT(40) DEF Pcs
  <2>3. QED
    BY <1>0, <1>4, <2>2, StackTypeStep DEF JobReturnCode
<1>5. CASE JobWait
  <2>1. Goto(<<"exit", "kill">>) \/ Goto(<<"heartbeat">>)
    BY <1>5 DEF JobWait
  <2>2. stack' \in Seq(Pcs) /\ stack' # <<>>
    BY <1>0, <2>1, GotoType, Named, ZenonT(40) DEF Pcs
  <2>3. rc' \in BOOLEAN
    <3>1. rc' = rc \/ rc' = TRUE \/ rc' = FALSE
      BY <1>5 DEF JobWait
    <3>2. QED
      BY <1>0, <3>1, Zenon DEF TypeOK
  <2>4. process' \in {"none", "set"} /\ UNCHANGED <<row, terminating, job_ti, sig, forgotten, task, env, callbacks>>
    BY <1>0, <1>5 DEF JobWait, TypeOK
  <2>5. QED
    BY <1>0, <2>2, <2>3, <2>4 DEF TypeOK
<1>6. CASE JobHeartbeat
  <2>1. \/ Goto(<<"term", "loop">>) \/ Goto(<<"decide">>) \/ Goto(<<"loop">>) \/ Goto(<<"kill">>)
    BY <1>6, Zenon DEF JobHeartbeat
  <2>2. stack' \in Seq(Pcs) /\ stack' # <<>>
    <3>1. "term" \in Pcs /\ "decide" \in Pcs /\ "loop" \in Pcs /\ "kill" \in Pcs
      BY DEF Pcs
    <3>2. CASE Goto(<<"term", "loop">>)
      BY <1>0, <3>1, <3>2, GotoType, Named, Zenon
    <3>3. CASE Goto(<<"decide">>) \/ Goto(<<"loop">>) \/ Goto(<<"kill">>)
      BY <1>0, <3>1, <3>3, GotoType, Named, Zenon
    <3>4. QED
      BY <2>1, <3>2, <3>3
  <2>3. missed' \in 0..MissLimit /\ job_ti' \in TI
    BY <1>0, <1>6, JobAssumption DEF JobHeartbeat, TypeOK
  <2>4. /\ UNCHANGED <<row, terminating, runner, task, zombie, sigterms, edits, rival, callbacks>>
        /\ restarting' = FALSE
    BY <1>6 DEF JobHeartbeat
  <2>5. QED
    BY <1>0, <2>2, <2>3, <2>4, Zenon DEF TypeOK
<1>7. CASE JobHeartbeatFails
  <2>1. Goto(<<"kill">>) \/ Goto(<<"loop">>)
    BY <1>7 DEF JobHeartbeatFails
  <2>2. stack' \in Seq(Pcs) /\ stack' # <<>>
    BY <1>0, <2>1, GotoType, Named, ZenonT(40) DEF Pcs
  <2>3. missed' \in 0..MissLimit
    BY <1>0, <1>7, JobAssumption DEF JobHeartbeatFails, TypeOK, late
  <2>4. UNCHANGED <<row, terminating, job_ti, runner, task, zombie, sigterms, edits, rival,
                    restarting, callbacks>>
    BY <1>7 DEF JobHeartbeatFails
  <2>5. QED
    BY <1>0, <2>2, <2>3, <2>4 DEF TypeOK
<1>8. CASE JobDecide
  <2>1. Goto(<<"loop">>) \/ Goto(<<"term", "hb_callback">>)
    BY <1>8 DEF JobDecide
  <2>2. stack' \in Seq(Pcs) /\ stack' # <<>>
    BY <1>0, <2>1, GotoType, Named, ZenonT(40) DEF Pcs
  <2>3. QED
    BY <1>0, <1>8, <2>2, ZenonT(40) DEF JobDecide, TypeOK
<1>9. CASE JobHbCallback
  <2>1. stack' \in Seq(Pcs) /\ stack' # <<>>
    BY <1>0, <1>9, GotoType, Named, Zenon DEF JobHbCallback, Pcs
  <2>2. callbacks' \in Nat
    BY <1>0, <1>9 DEF JobHbCallback, RunFinishedCallback, TypeOK
  <2>3. UNCHANGED <<row, job_ti, runner, task, env>> /\ terminating' = TRUE
    BY <1>9 DEF JobHbCallback
  <2>4. QED
    BY <1>0, <2>1, <2>2, <2>3 DEF TypeOK
<1>10. CASE JobTerm \/ JobReap
  <2>1. stack' \in Seq(Pcs) /\ stack' # <<>>
    <3>1. Top \in {"term", "reap"}
      BY <1>10 DEF JobTerm, JobReap
    <3>2. Return \/ UNCHANGED stack \/ Goto(<<"reap">>) \/ stack' = <<"done">> \/ stack' = <<"kill">>
      BY <1>10, Zenon DEF JobTerm, JobReap, Reaped, Raise
    <3>3. CASE Return \/ UNCHANGED stack
      BY <1>0, <3>1, <3>3, ReturnType DEF TypeOK
    <3>4. CASE Goto(<<"reap">>)
      BY <1>0, <3>4, GotoType, Named, Zenon DEF Pcs
    <3>5. CASE stack' = <<"done">> \/ stack' = <<"kill">>
      <4>1. "done" \in Pcs /\ "kill" \in Pcs
        BY DEF Pcs
      <4>2. QED
        BY <3>5, <4>1, Named, Zenon
    <3>6. QED
      BY <3>2, <3>3, <3>4, <3>5
  <2>2. rc' \in BOOLEAN /\ forgotten' \in BOOLEAN
    <3>1. (rc' = rc \/ rc' = TRUE) /\ (forgotten' = forgotten \/ forgotten' = TRUE)
      BY <1>10 DEF JobTerm, JobReap, Reaped
    <3>2. QED
      BY <1>0, <3>1, Zenon DEF TypeOK
  <2>3. /\ process' \in {"none", "set"} /\ sig' \in {"no", "sent", "handled"}
        /\ child' \in ChildStates
        /\ UNCHANGED <<row, terminating, job_ti, child_ti, env, callbacks>>
    BY <1>0, <1>10 DEF JobTerm, JobReap, Reaped, TypeOK
  <2>4. QED
    BY <1>0, <2>1, <2>2, <2>3 DEF TypeOK
<1>11. CASE JobExit
  <2>1. Goto(<<"exit_fail">>) \/ Goto(<<"exit_callback">>)
    BY <1>11 DEF JobExit
  <2>2. stack' \in Seq(Pcs) /\ stack' # <<>>
    BY <1>0, <2>1, GotoType, Named, ZenonT(40) DEF Pcs
  <2>3. QED
    BY <1>0, <1>11, <2>2 DEF JobExit, TypeOK
<1>12. CASE JobExitFail
  <2>1. stack' \in Seq(Pcs) /\ stack' # <<>>
    BY <1>0, <1>12, GotoType, Named DEF JobExitFail, Pcs
  <2>2. row' \in TI /\ job_ti' \in TI
    <3>1. job_ti \in TI
      BY <1>0 DEF TypeOK
    <3>2. QED
      BY <1>12, <3>1, WrittenTypes, Zenon DEF JobExitFail
  <2>3. UNCHANGED <<terminating, runner, task, env, callbacks>>
    BY <1>12 DEF JobExitFail
  <2>4. QED
    BY <1>0, <2>1, <2>2, <2>3 DEF TypeOK
<1>13. CASE JobExitCallback
  <2>1. stack' \in Seq(Pcs) /\ stack' # <<>>
    BY <1>0, <1>13, GotoType, Named, Zenon DEF JobExitCallback, Pcs
  <2>2. callbacks' \in Nat
    BY <1>0, <1>13 DEF JobExitCallback, RunFinishedCallback, TypeOK
  <2>3. UNCHANGED <<row, terminating, job_ti, runner, task, env>>
    BY <1>13 DEF JobExitCallback
  <2>4. QED
    BY <1>0, <2>1, <2>2, <2>3 DEF TypeOK
<1>14. CASE JobMiniScheduler
  <2>1. stack' \in Seq(Pcs) /\ stack' # <<>>
    BY <1>14, ReturnType DEF JobMiniScheduler
  <2>2. QED
    BY <1>0, <1>14, <2>1, StackTypeStep DEF JobMiniScheduler
<1>15. CASE JobKill
  <2>1. stack' \in Seq(Pcs) /\ stack' # <<>>
    BY <1>0, <1>15, GotoType, Named, Zenon DEF JobKill, Pcs
  <2>2. QED
    BY <1>0, <1>15, <2>1, StackTypeStep DEF JobKill
<1>16. CASE Sigterm
  <2>1. stack' \in Seq(Pcs) /\ Len(stack') = Len(stack) + 2 /\ Len(stack) \in Nat
    <3>1. stack \in Seq(Pcs) /\ stack # <<>> /\ "term" \in Pcs /\ "exit" \in Pcs
      BY <1>0 DEF TypeOK, Pcs
    <3>2. QED
      BY <1>16, <3>1, PushTwo DEF Sigterm
  <2>2. Len(stack') # 0 /\ Len(<<>>) = 0
    BY <2>1
  <2>3. stack' # <<>>
    BY <2>2, Zenon
  <2>4. sigterms' \in Nat
    BY <1>0, <1>16 DEF Sigterm, TypeOK
  <2>5. UNCHANGED <<row, terminating, job_ti, runner, task, missed, zombie, edits, rival,
                    restarting, callbacks>>
    BY <1>16 DEF Sigterm
  <2>6. QED
    BY <1>0, <2>1, <2>3, <2>4, <2>5 DEF TypeOK
<1>17. CASE ChildSetpgid \/ ChildExit \/ ChildEnds \/ ChildKilled
  BY <1>0, <1>17 DEF ChildSetpgid, ChildExit, ChildEnds, ChildKilled, TypeOK
<1>18. CASE ChildOutcome \/ ChildSigterm
  <2>1. child_ti' \in TI
    <3>1. row \in TI /\ child_ti \in TI
      BY <1>0 DEF TypeOK
    <3>2. ChildAirflowException => child_ti' \in TI
      BY <3>1, WrittenTypes, ZenonT(40) DEF ChildAirflowException
    <3>3. CASE ChildOutcome
      BY <3>1, <3>2, <3>3, WrittenTypes, Zenon DEF ChildOutcome
    <3>4. CASE ChildSigterm
      BY <3>1, <3>2, <3>4 DEF ChildSigterm
    <3>5. QED
      BY <1>18, <3>3, <3>4
  <2>2. /\ child' \in ChildStates
        /\ sig' \in {"no", "sent", "handled"}
        /\ UNCHANGED <<row, job, process, rc, forgotten, env, callbacks>>
    BY <1>0, <1>18 DEF ChildOutcome, ChildSigterm, ChildAirflowException, TypeOK
  <2>3. QED
    BY <1>0, <2>1, <2>2 DEF TypeOK
<1>19. CASE ChildStart \/ ChildWrite
  <2>1. row' \in TI /\ child_ti' \in TI
    <3>1. row \in TI /\ child_ti \in TI
      BY <1>0 DEF TypeOK
    <3>2. QED
      BY <1>19, <3>1, WrittenTypes, Zenon DEF ChildStart, ChildWrite
  <2>2. /\ child' \in ChildStates
        /\ UNCHANGED <<job, runner, env, callbacks>>
    BY <1>19 DEF ChildStart, ChildWrite
  <2>3. QED
    BY <1>0, <2>1, <2>2 DEF TypeOK
<1>20. CASE Mark \/ Clear \/ TakeOver \/ OtherFinishes
  <2>1. row' \in TI
    <3>1. row \in TI
      BY <1>0 DEF TypeOK
    <3>2. CASE Mark \/ TakeOver
      BY <3>1, <3>2, WrittenTypes, ZenonT(40) DEF Mark, TakeOver
    <3>3. CASE Clear
      BY <3>1, <3>3, WrittenTypes, ZenonT(40) DEF Clear
    <3>4. CASE OtherFinishes
      BY <3>1, <3>4, WrittenTypes, ZenonT(40) DEF OtherFinishes
    <3>5. QED
      BY <1>20, <3>2, <3>3, <3>4
  <2>2. UNCHANGED <<job, runner, task, missed, zombie, sigterms, callbacks>>
    BY <1>20, Zenon DEF Mark, Clear, TakeOver, OtherFinishes
  <2>6. edits' \in Nat
    <3>1. edits' = edits \/ edits' = edits + 1
      BY <1>20, Zenon DEF Mark, Clear, TakeOver, OtherFinishes
    <3>2. edits \in Nat
      BY <1>0 DEF TypeOK
    <3>3. QED
      BY <3>1, <3>2
  <2>3. rival' \in BOOLEAN
    <3>1. rival' = rival \/ rival' = TRUE \/ rival' = FALSE
      BY <1>20, Zenon DEF Mark, Clear, TakeOver, OtherFinishes
    <3>2. QED
      BY <1>0, <3>1, Zenon DEF TypeOK
  <2>4. restarting' \in BOOLEAN
    <3>1. restarting' = restarting \/ restarting' = (restarting \/ row.owner = "self")
      BY <1>20, Zenon DEF Mark, Clear, TakeOver, OtherFinishes
    <3>2. QED
      BY <1>0, <3>1, Zenon DEF TypeOK
  <2>5. QED
    BY <1>0, <2>1, <2>2, <2>3, <2>4, <2>6 DEF TypeOK
<1>21. CASE Stall
  BY <1>0, <1>21, JobAssumption DEF Stall, TypeOK
<1>22. CASE JobKilled
  <2>1. stack' \in Seq(Pcs) /\ stack' # <<>>
    BY <1>22, Named DEF JobKilled, Pcs
  <2>2. missed' \in 0..MissLimit
    BY <1>22, JobAssumption DEF JobKilled
  <2>3. QED
    BY <1>0, <1>22, <2>1, <2>2 DEF JobKilled, TypeOK
<1>23. CASE FindZombie \/ ReadZombie
  <2>1. row \in TI
    BY <1>0 DEF TypeOK
  <2>2. zombie' \in {<<>>, <<"queued">>} \cup ({"read"} \X TI)
    BY <1>23, <2>1 DEF FindZombie, ReadZombie
  <2>3. UNCHANGED <<row, job, runner, task, missed, sigterms, edits, rival, restarting, callbacks>>
    BY <1>23 DEF FindZombie, ReadZombie
  <2>4. QED
    BY <1>0, <2>2, <2>3 DEF TypeOK
<1>24. CASE HandleZombie
  <2>1. zombie[2] \in TI
    <3>1. zombie \in {"read"} \X TI
      BY <1>0, <1>24 DEF HandleZombie, TypeOK
    <3>2. QED
      BY <3>1
  <2>2. row' \in TI
    BY <1>24, <2>1, WrittenTypes, Zenon DEF HandleZombie
  <2>3. QED
    BY <1>0, <1>24, <2>2 DEF HandleZombie, TypeOK
<1>25. CASE UNCHANGED vars
  BY <1>0, <1>25 DEF vars, TypeOK
<1>26. QED
  BY <1>1, <1>2, <1>3, <1>4, <1>5, <1>6, <1>7, <1>8, <1>9, <1>10, <1>11, <1>12, <1>13, <1>14,
     <1>15, <1>16, <1>17, <1>18, <1>19, <1>20, <1>21, <1>22, <1>23, <1>24, <1>25
     DEF Next, JobStep, Terminated

-----------------------------------------------------------------------------
(* The invariant.                                                          *)

\* The callbacks that _execute may still run, at m.
MayCall(m, term) ==
  IF \/ m \in {"check", "claim", "send_back", "start", "started", "rc", "wait", "decide",
               "hb_callback"}
     \/ m \in {"loop", "heartbeat"} /\ ~term
  THEN 1 ELSE 0

\* MainStep with the callbacks that _execute may still run spelled out.
LEMMA MainGoto ==
  ASSUME JobInv, TypeOK', Top \in MainPcs, NEW m \in MainPcs,
         \/ /\ Goto(<<m>>) \/ Goto(<<"term", m>>)
            /\ callbacks' + MayCall(m, terminating') <= callbacks + MayCall(Top, terminating)
         \/ /\ Goto(<<"exit", m>>) /\ m # "done"
            /\ callbacks' + 1 + MayCall(m, terminating') <= callbacks + MayCall(Top, terminating),
         sigterms' = sigterms, m \in {"check", "claim", "send_back", "start"} => Fresh',
         RunnerInv', m = "done" => ~Held' \/ ~Goto(<<m>>)
  PROVE  JobInv'
<1>1. m \in Pcs /\ "term" \in Pcs /\ "exit" \in Pcs
  BY DEF MainPcs, Pcs
<1>2. <<m>> \in Seq(Pcs) /\ <<"term", m>> \in Seq(Pcs) /\ <<"exit", m>> \in Seq(Pcs)
  BY <1>1, Named
<1>3. /\ Goto(<<m>>) <=> stack' = <<m>>
      /\ Goto(<<"term", m>>) <=> stack' = <<"term", m>>
      /\ Goto(<<"exit", m>>) <=> stack' = <<"exit", m>>
  BY <1>2, MainAlone DEF Goto
<1>4. May = MayCall(Top, terminating)
  BY MainAlone DEF May, MainMayCall, MayCall
<1>5. May' = MayCall(m, terminating')
  <2>1. Bottom' = m
    <3>1. \/ stack' = <<m>> \/ stack' = <<"term", m>> \/ stack' = <<"exit", m>>
      BY <1>3
    <3>2. /\ Len(<<m>>) = 1 /\ <<m>>[1] = m
          /\ Len(<<"term", m>>) = 2 /\ <<"term", m>>[2] = m
          /\ Len(<<"exit", m>>) = 2 /\ <<"exit", m>>[2] = m
      OBVIOUS
    <3>3. QED
      BY <3>1, <3>2, Zenon DEF Bottom
  <2>2. QED
    BY <2>1 DEF May, MainMayCall, MayCall
<1>6. stack' = <<"done">> => ~Held'
  <2>1. SUFFICES ASSUME stack' = <<"done">> PROVE ~Held'
    OBVIOUS
  <2>2. \/ stack' = <<m>> \/ stack' = <<"term", m>> \/ stack' = <<"exit", m>>
    BY <1>3
  <2>3. m = "done" /\ stack' = <<m>>
    BY <2>1, <2>2
  <2>4. QED
    BY <1>3, <2>3
<1>7. \/ stack' = <<m>> /\ callbacks' + May' <= callbacks + May
      \/ stack' = <<"term", m>> /\ callbacks' + May' <= callbacks + May
      \/ stack' = <<"exit", m>> /\ m # "done" /\ callbacks' + 1 + May' <= callbacks + May
  BY <1>3, <1>4, <1>5, Zenon
<1>8. QED
  BY <1>6, <1>7, MainStep

\* Before these points, and in the loop of a job that is not terminating,
\* _execute may come to run a callback; at the end it may not.
LEMMA Mays ==
  /\ \A t : \A m \in {"check", "claim", "send_back", "start", "started", "rc", "wait", "decide",
                     "hb_callback"} : MayCall(m, t) = 1
  /\ \A t : \A m \in {"kill", "done", "dead"} : MayCall(m, t) = 0
  /\ \A m \in {"loop", "heartbeat"} : MayCall(m, TRUE) = 0 /\ MayCall(m, FALSE) = 1
  /\ \A t : MayCall("loop", t) = MayCall("heartbeat", t)
  /\ \A t, m : MayCall(m, t) \in {0, 1}
  BY DEF MayCall

\* _execute goes on, or calls terminate(), without a callback.
LEMMA MainTo ==
  ASSUME JobInv, TypeOK', NEW m \in MainPcs, Top \in MainPcs, Goto(<<m>>) \/ Goto(<<"term", m>>),
         \/ MayCall(Top, terminating) = 1
         \/ MayCall(m, terminating') = 0
         \/ MayCall(m, terminating') = MayCall(Top, terminating),
         UNCHANGED <<callbacks, sigterms>>,
         m \in {"check", "claim", "send_back", "start"} => Fresh',
         RunnerInv', m = "done" => ~Held' \/ ~Goto(<<m>>)
  PROVE  JobInv'
<1>1. MayCall(m, terminating') <= MayCall(Top, terminating)
  <2>1. MayCall(m, terminating') \in {0, 1} /\ MayCall(Top, terminating) \in {0, 1}
    BY Mays
  <2>2. QED
    BY <2>1
<1>2. callbacks' + MayCall(m, terminating') <= callbacks + MayCall(Top, terminating)
  <2>1. callbacks \in Nat /\ callbacks' = callbacks
    BY DEF JobInv, TypeOK
  <2>2. MayCall(m, terminating') \in {0, 1} /\ MayCall(Top, terminating) \in {0, 1}
    BY Mays
  <2>3. QED
    BY <1>1, <2>1, <2>2
<1>3. QED
  BY <1>2, MainGoto, Zenon

\* _execute calls handle_task_exit.
LEMMA MainExit ==
  ASSUME JobInv, TypeOK', Top \in MainPcs, Goto(<<"exit", "kill">>), MayCall(Top, terminating) = 1,
         UNCHANGED <<callbacks, sigterms>>, RunnerInv'
  PROVE  JobInv'
<1>1. callbacks' + 1 + MayCall("kill", terminating') <= callbacks + MayCall(Top, terminating)
  <2>1. callbacks \in Nat /\ callbacks' = callbacks /\ MayCall("kill", terminating') = 0
    BY Mays DEF JobInv, TypeOK
  <2>2. QED
    BY <2>1
<1>2. "kill" \in MainPcs /\ "kill" # "done" /\ "kill" \notin {"check", "claim", "send_back", "start"}
  BY DEF MainPcs
<1>3. QED
  BY <1>1, <1>2, MainGoto, Zenon

\* A forked process stays within the reach of terminate().
LEMMA RunnerStep ==
  ASSUME JobInv, [Next]_vars
  PROVE  RunnerInv'
<1> USE DEF job, runner, task, env
<1>0. RunnerInv /\ (sig # "no" => InReach)
  BY DEF JobInv, RunnerInv
<1>1. Top \in MainPcs \ {"started", "dead"} => InReach
  BY <1>0, MainAlone DEF RunnerInv
<1>2. CASE JobFork
  <2>1. Top \in MainPcs /\ Top = "start" /\ Goto(<<"started">>)
    BY <1>2 DEF JobFork, MainPcs
  <2>2. Fresh
    BY <2>1, MainAlone DEF JobInv
  <2>3. Bottom' = "started"
    <3>1. <<"started">> \in Seq(Pcs)
      BY Named DEF Pcs
    <3>2. stack' = <<"started">>
      BY <2>1, <3>1, MainAlone DEF Goto
    <3>3. QED
      BY <3>2 DEF Bottom
  <2>4. UNCHANGED <<process, rc, sig, forgotten>> /\ ~rc
    BY <1>2, <1>0, <2>2 DEF JobFork, RunnerInv, Alive, Fresh
  <2>5. QED
    BY <2>2, <2>3, <2>4 DEF RunnerInv, Fresh
<1>3. CASE JobStarted
  BY <1>0, <1>3 DEF JobStarted, RunnerInv, InReach, Alive
<1>4. CASE JobWait \/ JobDecide
  <2>1. Top \in MainPcs \ {"started", "dead"}
    BY <1>4 DEF JobWait, JobDecide, MainPcs
  <2>2. InReach
    BY <1>1, <2>1
  <2>3. CASE JobWait
    BY <1>0, <2>2, <2>3 DEF JobWait, RunnerInv, InReach, Alive
  <2>4. CASE JobDecide
    BY <1>0, <2>2, <2>4 DEF JobDecide, RunnerInv, InReach, Alive
  <2>5. QED
    BY <1>4, <2>3, <2>4
<1>5. CASE JobTerm
  <2>1. CASE process = "set"
    BY <1>0, <1>5, <2>1 DEF JobTerm, Reaped, RunnerInv, InReach, Alive
  <2>2. CASE process # "set"
    <3>1. Top \notin MainPcs /\ Return /\ UNCHANGED <<runner, task>>
      BY <1>5, <2>2 DEF JobTerm, MainPcs
    <3>2. Bottom' = Bottom
      BY <3>1, StaysBelow
    <3>3. QED
      BY <1>0, <3>1, <3>2 DEF RunnerInv, InReach, Alive
  <2>3. QED
    BY <2>1, <2>2
<1>6. CASE JobReap
  <2>1. InReach
    <3>1. Top = "reap"
      BY <1>6 DEF JobReap
    <3>2. stack \in Seq(Pcs) /\ stack # <<>>
      BY DEF JobInv, TypeOK
    <3>3. 1 \in 1..Len(stack) /\ stack[1] = "reap"
      BY <3>1, <3>2 DEF Top
    <3>4. sig # "no"
      BY <3>3 DEF JobInv
    <3>5. QED
      BY <1>0, <3>4
  <2>2. QED
    BY <1>0, <1>6, <2>1 DEF JobReap, Reaped, RunnerInv, InReach, Alive
<1>7. CASE \/ ChildSetpgid \/ ChildStart \/ ChildOutcome \/ ChildWrite \/ ChildExit \/ ChildSigterm
           \/ ChildEnds \/ ChildKilled
  <2>1. /\ Alive /\ UNCHANGED <<stack, process, rc, forgotten>>
        /\ sig' = "no" => sig = "no"
        /\ sig' # "no" => sig # "no"
    BY <1>7 DEF ChildSetpgid, ChildStart, ChildOutcome, ChildWrite, ChildExit, ChildSigterm,
                ChildEnds, ChildKilled, ChildAirflowException, Alive
  <2>2. QED
    BY <1>0, <2>1 DEF RunnerInv, InReach, Alive, Bottom
<1>8. CASE \/ JobCheck \/ JobClaim \/ JobSendBack \/ JobLoop \/ JobReturnCode \/ JobHeartbeat
           \/ JobHeartbeatFails \/ JobHbCallback \/ JobKill
  <2>1. UNCHANGED <<process, rc, sig, forgotten, child>>
    BY <1>8, Zenon DEF JobCheck, JobClaim, JobSendBack, JobLoop, JobReturnCode, JobHeartbeat,
                       JobHeartbeatFails, JobHbCallback, JobKill
  <2>2. Top \in MainPcs \ {"started", "dead"}
    BY <1>8 DEF JobCheck, JobClaim, JobSendBack, JobLoop, JobReturnCode, JobHeartbeat,
                JobHeartbeatFails, JobHbCallback, JobKill, MainPcs
  <2>3. InReach
    BY <1>1, <2>2
  <2>4. QED
    BY <1>0, <2>1, <2>3 DEF RunnerInv, InReach, Alive
<1>9. CASE JobExit \/ JobExitFail \/ JobExitCallback \/ JobMiniScheduler \/ Sigterm
  <2>1. UNCHANGED <<process, rc, sig, forgotten, child>>
    BY <1>9, Zenon DEF JobExit, JobExitFail, JobExitCallback, JobMiniScheduler, Sigterm
  <2>2. \/ Top \notin MainPcs /\ \E a \in Pcs : Goto(<<a>>)
        \/ Top \notin MainPcs /\ Return
        \/ Sigterm
    BY <1>9 DEF JobExit, JobExitFail, JobExitCallback, JobMiniScheduler, MainPcs, Pcs
  <2>3. Bottom' = Bottom
    BY <2>2, StaysBelow
  <2>4. QED
    BY <1>0, <2>1, <2>3 DEF RunnerInv, InReach, Alive
<1>10. CASE JobKilled
  <2>1. stack' = <<"dead">> /\ UNCHANGED <<process, rc, sig, forgotten, child>>
    BY <1>10 DEF JobKilled
  <2>2. Bottom' = "dead"
    BY <2>1 DEF Bottom
  <2>3. QED
    BY <1>0, <2>1, <2>2 DEF RunnerInv, InReach, Alive
<1>11. CASE \/ Mark \/ Clear \/ TakeOver \/ OtherFinishes \/ Stall
            \/ FindZombie \/ ReadZombie \/ HandleZombie \/ UNCHANGED vars
  <2>1. UNCHANGED <<stack, process, rc, sig, forgotten, child>>
    BY <1>11, Zenon DEF Mark, Clear, TakeOver, OtherFinishes, Stall, FindZombie, ReadZombie,
                        HandleZombie, vars
  <2>2. QED
    BY <1>0, <2>1 DEF RunnerInv, InReach, Alive, Bottom
<1>12. QED
  BY <1>2, <1>3, <1>4, <1>5, <1>6, <1>7, <1>8, <1>9, <1>10, <1>11 DEF Next, JobStep, Terminated

\* Every step keeps the invariant.
LEMMA JobInvStep ==
  ASSUME JobInv, [Next]_vars
  PROVE  JobInv'
<1> USE DEF job, runner, task, env
<1>0. TypeOK' /\ callbacks \in Nat /\ callbacks' \in Nat
  BY TypeStep DEF JobInv, TypeOK
<1>1. RunnerInv'
  BY RunnerStep
<1>2. /\ {"check", "claim", "send_back", "start", "started", "loop", "rc", "wait", "heartbeat", "decide",
          "hb_callback", "kill", "done"} \subseteq MainPcs
      /\ terminating \in BOOLEAN
  BY DEF MainPcs, JobInv, TypeOK
<1>3. CASE JobCheck \/ JobClaim \/ JobSendBack
  <2>1. /\ Top \in {"check", "claim", "send_back"}
        /\ UNCHANGED <<terminating, callbacks, sigterms, child, process, sig, rc>>
        /\ \E m \in {"claim", "send_back", "start", "done"} : Goto(<<m>>)
    BY <1>3 DEF JobCheck, JobClaim, JobSendBack
  <2>2. Fresh
    BY <1>2, <2>1, MainAlone DEF JobInv
  <2>3. Fresh' /\ ~Held'
    BY <2>1, <2>2 DEF Fresh, Held, Alive
  <2>4. MayCall(Top, terminating) = 1
    BY <2>1, Mays
  <2>5. PICK m \in {"claim", "send_back", "start", "done"} : Goto(<<m>>)
    BY <2>1
  <2>6. QED
    BY <1>0, <1>1, <1>2, <2>1, <2>3, <2>4, <2>5, MainTo, Zenon
<1>4. CASE JobFork \/ JobStarted
  <2>1. /\ Top \in {"start", "started"} /\ (Goto(<<"started">>) \/ Goto(<<"loop">>))
        /\ UNCHANGED <<terminating, callbacks, sigterms>>
    BY <1>4 DEF JobFork, JobStarted
  <2>2. MayCall(Top, terminating) = 1
    BY <2>1, Mays
  <2>3. QED
    BY <1>0, <1>1, <1>2, <2>1, <2>2, MainTo, ZenonT(40)
<1>5. CASE JobLoop
  <2>1. Top = "loop" /\ UNCHANGED <<terminating, callbacks, sigterms, child, process>>
    BY <1>5 DEF JobLoop
  <2>3. CASE Goto(<<"kill">>)
    <3>1. MayCall("kill", terminating') = 0
      BY Mays
    <3>2. QED
      BY <1>0, <1>1, <1>2, <2>1, <2>3, <3>1, MainTo, Zenon
  <2>4. CASE ~terminating /\ Goto(<<"rc">>)
    <3>1. MayCall(Top, terminating) = 1
      BY <1>2, <2>1, <2>4, Mays, Zenon
    <3>2. QED
      BY <1>0, <1>1, <1>2, <2>1, <2>4, <3>1, MainTo, Zenon
  <2>5. QED
    BY <1>5, <2>3, <2>4, Zenon DEF JobLoop
<1>6. CASE JobReturnCode
  <2>1. /\ Top = "rc" /\ UNCHANGED <<terminating, callbacks, sigterms, child, process>>
        /\ Goto(<<"exit", "kill">>) \/ Goto(<<"wait">>) \/ Goto(<<"heartbeat">>)
    BY <1>6 DEF JobReturnCode
  <2>3. MayCall(Top, terminating) = 1
    BY <2>1, Mays
  <2>4. CASE Goto(<<"exit", "kill">>)
    BY <1>0, <1>1, <1>2, <2>1, <2>3, <2>4, MainExit
  <2>5. CASE Goto(<<"wait">>)
    BY <1>0, <1>1, <1>2, <2>1, <2>3, <2>5, MainTo, Zenon
  <2>6. CASE Goto(<<"heartbeat">>)
    BY <1>0, <1>1, <1>2, <2>1, <2>3, <2>6, MainTo, Zenon
  <2>7. QED
    BY <2>1, <2>4, <2>5, <2>6
<1>7. CASE JobWait
  <2>1. /\ Top = "wait" /\ UNCHANGED <<terminating, callbacks, sigterms, child>>
        /\ Goto(<<"exit", "kill">>) \/ Goto(<<"heartbeat">>)
        /\ process' = process \/ child = "dead"
    BY <1>7 DEF JobWait
  <2>3. MayCall(Top, terminating) = 1
    BY <2>1, Mays
  <2>4. CASE Goto(<<"exit", "kill">>)
    BY <1>0, <1>1, <1>2, <2>1, <2>3, <2>4, MainExit
  <2>5. CASE Goto(<<"heartbeat">>)
    BY <1>0, <1>1, <1>2, <2>1, <2>3, <2>5, MainTo, ZenonT(40)
  <2>6. QED
    BY <2>1, <2>4, <2>5
<1>8. CASE JobHeartbeat
  <2>1. Top = "heartbeat" /\ UNCHANGED <<terminating, callbacks, sigterms, child, process>>
    BY <1>8 DEF JobHeartbeat
  <2>3. CASE Goto(<<"term", "loop">>) \/ Goto(<<"loop">>)
    <3>1. MayCall("loop", terminating') = MayCall(Top, terminating)
      BY <2>1, Mays
    <3>2. QED
      BY <1>0, <1>1, <1>2, <2>1, <2>3, <3>1, MainTo
  <2>4. CASE ~terminating /\ Goto(<<"decide">>)
    <3>1. MayCall(Top, terminating) = 1
      BY <1>2, <2>1, <2>4, Mays, Zenon
    <3>2. QED
      BY <1>0, <1>1, <1>2, <2>1, <2>4, <3>1, MainTo, Zenon
  <2>5. CASE Goto(<<"kill">>)
    <3>1. MayCall("kill", terminating') = 0
      BY Mays
    <3>2. QED
      BY <1>0, <1>1, <1>2, <2>1, <2>5, <3>1, MainTo, Zenon
  <2>6. QED
    BY <1>8, <2>3, <2>4, <2>5, Zenon DEF JobHeartbeat
<1>9. CASE JobHeartbeatFails
  <2>1. /\ Top = "heartbeat" /\ UNCHANGED <<terminating, callbacks, sigterms, child, process>>
        /\ Goto(<<"kill">>) \/ Goto(<<"loop">>)
    BY <1>9 DEF JobHeartbeatFails
  <2>3. MayCall("loop", terminating') = MayCall(Top, terminating) /\ MayCall("kill", terminating') = 0
    BY <2>1, Mays
  <2>4. CASE Goto(<<"kill">>)
    BY <1>0, <1>1, <1>2, <2>1, <2>3, <2>4, MainTo, Zenon
  <2>5. CASE Goto(<<"loop">>)
    BY <1>0, <1>1, <1>2, <2>1, <2>3, <2>5, MainTo, Zenon
  <2>6. QED
    BY <2>1, <2>4, <2>5
<1>10. CASE JobDecide
  <2>1. /\ Top = "decide" /\ UNCHANGED <<terminating, callbacks, sigterms, child>>
        /\ Goto(<<"loop">>) \/ Goto(<<"term", "hb_callback">>)
    BY <1>10 DEF JobDecide
  <2>2. MayCall(Top, terminating) = 1
    BY <2>1, Mays
  <2>3. CASE Goto(<<"loop">>)
    BY <1>0, <1>1, <1>2, <2>1, <2>2, <2>3, MainTo, Zenon
  <2>4. CASE Goto(<<"term", "hb_callback">>)
    BY <1>0, <1>1, <1>2, <2>1, <2>2, <2>4, MainTo, Zenon
  <2>5. QED
    BY <2>1, <2>3, <2>4
<1>11. CASE JobHbCallback
  <2>1. /\ Top = "hb_callback" /\ UNCHANGED <<sigterms, child, process>>
        /\ Goto(<<"loop">>) /\ terminating' = TRUE
        /\ callbacks' = callbacks \/ callbacks' = callbacks + 1
    BY <1>11 DEF JobHbCallback, RunFinishedCallback
  <2>3. MayCall(Top, terminating) = 1 /\ MayCall("loop", terminating') = 0
    BY <2>1, Mays, ZenonT(40)
  <2>4. callbacks' + MayCall("loop", terminating') <= callbacks + MayCall(Top, terminating)
    <3>1. ASSUME NEW c \in Nat, NEW d, d = c \/ d = c + 1, NEW x, x = 0, NEW y, y = 1
          PROVE  d + x <= c + y
      BY <3>1
    <3>2. QED
      BY <1>0, <2>1, <2>3, <3>1, Zenon
  <2>5. QED
    BY <1>0, <1>1, <1>2, <2>1, <2>4, MainGoto, Zenon
<1>12. CASE JobKill
  <2>1. /\ Top = "kill" /\ UNCHANGED <<terminating, callbacks, sigterms, child, process>>
        /\ Goto(<<"term", "done">>)
    BY <1>12 DEF JobKill
  <2>2. ~Goto(<<"done">>)
    <3>1. /\ <<"term", "done">> \o Tail(stack) = <<"term", "done">>
          /\ <<"done">> \o Tail(stack) = <<"done">>
      <4>1. <<"term", "done">> \in Seq(Pcs) /\ <<"done">> \in Seq(Pcs)
        BY Named DEF Pcs
      <4>2. Top \in MainPcs
        BY <1>2, <2>1
      <4>3. QED
        BY <4>1, <4>2, MainAlone, Zenon
    <3>2. <<"term", "done">> # <<"done">>
      OBVIOUS
    <3>3. QED
      BY <2>1, <3>1, <3>2, Zenon DEF Goto
  <2>4. MayCall("done", terminating') = 0
    BY Mays
  <2>5. QED
    BY <1>0, <1>1, <1>2, <2>1, <2>2, <2>4, MainTo
<1>13. CASE JobTerm \/ JobReap
  <2>1. Top \in {"term", "reap"} /\ UNCHANGED <<terminating, callbacks, sigterms>>
    BY <1>13 DEF JobTerm, JobReap
  <2>2. RunnerInv
    BY DEF JobInv
  <2>3. Top = "reap" => InReach /\ ~Fresh
    <3>1. stack \in Seq(Pcs) /\ stack # <<>>
      BY DEF JobInv, TypeOK
    <3>2. Top = "reap" => 1 \in 1..Len(stack) /\ stack[1] = "reap"
      BY <3>1 DEF Top
    <3>3. Top = "reap" => sig # "no"
      BY <3>2 DEF JobInv
    <3>4. QED
      BY <2>2, <3>3 DEF RunnerInv, Fresh
  <2>4. CASE /\ Return /\ child' = child /\ sig' = sig
             /\ \/ process # "set" /\ UNCHANGED runner
                \/ process = "set" /\ (child = "dead" \/ forgotten')
    <3>1. Bottom = "done" => ~Held'
      BY <2>2, <2>4 DEF RunnerInv, InReach, Held, Alive
    <3>2. Fresh => Fresh'
      BY <2>4 DEF Fresh
    <3>3. QED
      BY <1>0, <1>1, <2>1, <2>4, <3>1, <3>2, ReturnStep
  <2>5. CASE Top = "term" /\ process = "set" /\ sig' = "sent" /\ Goto(<<"reap">>) /\ child' = child
    BY <1>0, <1>1, <2>1, <2>5, ReapStep
  <2>6. CASE Top = "reap" /\ process # "set" /\ Raise /\ UNCHANGED <<runner, child>>
    <3>1. ~Held'
      BY <2>3, <2>6 DEF InReach, Held, Alive
    <3>2. stack' = <<"done">> \/ stack' = <<"kill">>
      BY <2>6 DEF Raise
    <3>3. QED
      BY <1>0, <1>1, <2>1, <3>1, <3>2, CutStep
  <2>7. CASE Top = "reap" /\ Alive /\ UNCHANGED <<stack, runner>>
    <3>1. Held' => Held
      BY <2>7 DEF Held, Alive
    <3>2. QED
      BY <1>0, <1>1, <2>1, <2>3, <2>7, <3>1, SameStack
  <2>8. QED
    <3>1. CASE JobTerm
      BY <3>1, <2>4, <2>5 DEF JobTerm, Reaped
    <3>2. CASE JobReap
      BY <3>2, <2>4, <2>6, <2>7 DEF JobReap, Reaped
    <3>3. QED
      BY <1>13, <3>1, <3>2
<1>14. CASE JobExit
  <2>1. /\ Goto(<<"exit_fail">>) \/ Goto(<<"exit_callback">>)
        /\ Top \in ExitPcs /\ terminating' = TRUE /\ UNCHANGED <<task, runner, sigterms, callbacks>>
    BY <1>14 DEF JobExit, ExitPcs
  <2>2. QED
    BY <1>0, <1>1, <2>1, ExitStep DEF ExitPcs, CallPcs
<1>15. CASE JobExitFail
  <2>1. /\ Top \in ExitPcs /\ Goto(<<"exit_callback">>)
        /\ UNCHANGED <<terminating, task, runner, sigterms, callbacks>>
    BY <1>15 DEF JobExitFail, ExitPcs
  <2>2. QED
    BY <1>0, <1>1, <2>1, ExitStep DEF ExitPcs, CallPcs
<1>16. CASE JobExitCallback
  <2>1. /\ Top \in ExitPcs /\ Goto(<<"mini">>) /\ callbacks' <= callbacks + 1
        /\ UNCHANGED <<terminating, task, runner, sigterms>>
    BY <1>0, <1>16 DEF JobExitCallback, RunFinishedCallback, ExitPcs
  <2>2. "mini" \in CallPcs /\ "mini" \notin ExitPcs
    BY DEF CallPcs, ExitPcs
  <2>3. QED
    BY <1>0, <1>1, <2>1, <2>2, ExitStep
<1>17. CASE JobMiniScheduler
  <2>1. /\ Top = "mini" /\ Return
        /\ UNCHANGED <<terminating, callbacks, sigterms, child, process, sig, rc>>
    BY <1>17 DEF JobMiniScheduler
  <2>2. QED
    BY <1>0, <1>1, <2>1, ReturnStep DEF Fresh
<1>18. CASE Sigterm
  BY <1>0, <1>1, <1>18, PushStep
<1>19. CASE \/ ChildSetpgid \/ ChildStart \/ ChildOutcome \/ ChildWrite \/ ChildExit \/ ChildSigterm
            \/ ChildEnds \/ ChildKilled
  <2>1. /\ UNCHANGED <<stack, terminating, callbacks, sigterms, process, forgotten>> /\ Alive
        /\ sig # "no" => sig' # "no"
    BY <1>19 DEF ChildSetpgid, ChildStart, ChildOutcome, ChildWrite, ChildExit, ChildSigterm,
                 ChildEnds, ChildKilled, Alive
  <2>2. ~Fresh /\ (Held' => Held)
    BY <2>1 DEF Fresh, Held, Alive
  <2>3. QED
    BY <1>0, <1>1, <2>1, <2>2, SameStack
<1>20. CASE \/ Mark \/ Clear \/ TakeOver \/ OtherFinishes \/ Stall
            \/ FindZombie \/ ReadZombie \/ HandleZombie \/ UNCHANGED vars
  <2>1. UNCHANGED <<stack, terminating, callbacks, sigterms, runner, child>>
    BY <1>20, Zenon DEF Mark, Clear, TakeOver, OtherFinishes, Stall, FindZombie, ReadZombie, HandleZombie, vars
  <2>2. QED
    BY <1>0, <1>1, <2>1, SameStack DEF Fresh, Held, Alive
<1>21. CASE JobKilled
  <2>1. stack' = <<"dead">> /\ UNCHANGED <<callbacks, sigterms>>
    BY <1>21 DEF JobKilled
  <2>2. QED
    BY <1>0, <1>1, <2>1, CutStep
<1>22. QED
  BY <1>3, <1>4, <1>5, <1>6, <1>7, <1>8, <1>9, <1>10, <1>11, <1>12, <1>13, <1>14, <1>15, <1>16,
     <1>17, <1>18, <1>19, <1>20, <1>21 DEF Next, JobStep, Terminated

\* The job's initial state has one callback to come.
LEMMA JobInvInit ==
  ASSUME Init
  PROVE  JobInv
<1>1. stack = <<"check">> /\ stack \in Seq(Pcs) /\ stack # <<>> /\ Len(stack) = 1
  BY Named DEF Init, Pcs
<1>2. TypeOK
  <2>1. row \in TI /\ job_ti \in TI /\ child_ti \in TI
    BY JobAssumption DEF Init, TI, TaskInstanceState
  <2>2. missed \in 0..MissLimit
    BY JobAssumption DEF Init
  <2>3. /\ process \in {"none", "set"} /\ sig \in {"no", "sent", "handled"}
        /\ child = "none"
        /\ callbacks \in Nat /\ sigterms \in Nat /\ edits \in Nat
    BY DEF Init
  <2>4. /\ terminating \in BOOLEAN /\ rc \in BOOLEAN /\ forgotten \in BOOLEAN
        /\ zombie \in {<<>>, <<"queued">>} \cup ({"read"} \X TI)
        /\ rival \in BOOLEAN /\ restarting \in BOOLEAN
    BY Zenon DEF Init
  <2>5. QED
    BY <1>1, <2>1, <2>2, <2>3, <2>4, Zenon DEF TypeOK
<1>3. Top = "check" /\ Bottom = "check" /\ "check" \in MainPcs
  BY <1>1 DEF Top, Bottom, MainPcs
<1>4. \A i \in 1..Len(stack) : (stack[i] \in MainPcs <=> i = Len(stack)) /\ stack[i] # "reap"
  BY <1>1, <1>3
<1>5. Cardinality(ExitFrames) = 0
  <2>1. ExitFrames = {}
    BY <1>1 DEF ExitFrames
  <2>2. QED
    BY <2>1, FS_EmptySet
<1>6. callbacks + Cardinality(ExitFrames) + (IF MainMayCall THEN 1 ELSE 0) <= 1 + sigterms
  BY <1>3, <1>5 DEF Init, MainMayCall
<1>7. QED
  BY <1>1, <1>2, <1>3, <1>4, <1>6, SMTT(30) DEF JobInv, Init, NoOrphanTask, Alive, RunnerInv, InReach, Fresh

\* JobInv is an invariant, whatever the retries, the faults and the bounds:
\* the job's control stack has _execute at its bottom and nowhere else, and a
\* forked process is within the reach of terminate() unless the job is just
\* starting it, is dead, or has given it up.
THEOREM JobInvariant == Spec => []JobInv
<1>1. Init => JobInv
  BY JobInvInit
<1>2. JobInv /\ [Next]_vars => JobInv'
  BY JobInvStep
<1>3. QED
  BY <1>1, <1>2, PTL DEF Spec

\* Every variable of the job, the task and the row keeps its type.
THEOREM JobTypeCorrect == Spec => []TypeOK
<1>1. JobInv => TypeOK
  BY DEF JobInv
<1>2. QED
  BY <1>1, JobInvariant, PTL

\* The job ends before its task only if terminate() gave the task up, which it
\* does when the process has no group of its own yet, or outlives SIGKILL:
\* however many SIGTERMs interrupt it and wherever they do, also in terminate()
\* itself, whose exception then skips every handler but the finally.
THEOREM NoOrphan == Spec => []NoOrphanTask
<1>1. JobInv => NoOrphanTask
  BY DEF JobInv
<1>2. QED
  BY <1>1, JobInvariant, PTL

\* The finished callback runs at most once plus once for every SIGTERM, for
\* any number of marks, clears, take-overs and faults.
THEOREM CallbackBound == Spec => []CallbacksBounded
<1>1. ASSUME JobInv PROVE CallbacksBounded
  <2>1. callbacks \in Nat /\ sigterms \in Nat /\ Cardinality(ExitFrames) \in Nat
    BY <1>1, FramesFinite DEF JobInv, TypeOK
  <2>2. callbacks + Cardinality(ExitFrames) + (IF MainMayCall THEN 1 ELSE 0) <= 1 + sigterms
    BY <1>1 DEF JobInv
  <2>3. QED
    BY <2>1, <2>2 DEF CallbacksBounded
<1>2. JobInv => CallbacksBounded
  BY <1>1
<1>3. QED
  BY <1>2, JobInvariant, PTL

=============================================================================
