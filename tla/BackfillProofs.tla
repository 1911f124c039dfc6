--------------------------- MODULE BackfillProofs ---------------------------
(*****************************************************************************)
(* Theorems about Backfill, for any number of entities, workers and         *)
(* starts, any batch size and any limit of attempts. They assume that a     *)
(* chain is not doubled: the administrator starts the operation only when   *)
(* no task of it is left, and no host dies with a task that has already     *)
(* sent its successor. Tasks may die, and apply_async may fail, as often    *)
(* as the constants allow.                                                  *)
(*****************************************************************************)
EXTENDS Backfill, FiniteSetTheorems, TLAPS

NotDoubled == Patient /\ FaultBudget["host"] = 0

(* What a task with work before it knows is still so: the batch can still  *)
(* be tried, the open record is its own, and complete is no older than the *)
(* records.                                                                *)
Batching == {"mark", "start", "item", "count"}
Holds(w) ==
  /\ batch[w] # {} => pc[w] \in Batching
  /\ item[w] # {} => pc[w] = "item"
  /\ complete[w] => Left = {}
  /\ batch[w] \cap item[w] = {}
  /\ \A e \in batch[w] : Eligible(e)
  /\ \A e \in item[w] : record[e] = "RUNNING"

IInv ==
  /\ TypeOK
  /\ AttemptsBounded
  /\ OneChain
  /\ \A w \in Workers : Holds(w)
  /\ CompleteMeansNothingLeft

LEMMA InitInvariant == Init => IInv
<1> SUFFICES ASSUME Init PROVE IInv
  OBVIOUS
<1> USE BackfillAssumption
<1>1. TypeOK
  BY DEF Init, TypeOK, RecordStatuses, States, Pcs
<1>2. AttemptsBounded
  BY DEF Init, AttemptsBounded
<1>3. OneChain
  BY DEF Init, OneChain, Working
<1>4. \A w \in Workers : Holds(w)
  BY DEF Init, Holds
<1>5. CompleteMeansNothingLeft
  BY DEF Init, CompleteMeansNothingLeft
<1> QED
  BY <1>1, <1>2, <1>3, <1>4, <1>5 DEF IInv
-----------------------------------------------------------------------------
(* Types.                                                                  *)

(* Every variable keeps its type, with or without a doubled chain.         *)
LEMMA TypeStep == TypeOK /\ [Next]_vars => TypeOK'
<1> SUFFICES ASSUME TypeOK, [Next]_vars PROVE TypeOK'
  OBVIOUS
<1> USE BackfillAssumption DEF TypeOK, RecordStatuses, States, Pcs, Goto,
        records, operation, working
<1>1. CASE AdminStarts
  BY <1>1 DEF AdminStarts
<1>2. CASE TimePasses
  BY <1>2 DEF TimePasses
<1>3. ASSUME NEW w \in Workers, Select(w) PROVE TypeOK'
  <2>1. Left \subseteq Entities
    BY DEF Left
  <2>2. CASE Left = {} \/ (state = "COMPLETE" /\ ~Trailers)
    <3>1. complete' = [complete EXCEPT ![w] = TRUE] /\ UNCHANGED batch /\ Goto(w, "summary")
      BY <1>3, <2>2 DEF Select
    <3> QED
      BY <1>3, <3>1 DEF Select
  <2>3. CASE ~(Left = {} \/ (state = "COMPLETE" /\ ~Trailers))
    <3>1. PICK chosen \in SUBSET Left : batch' = [batch EXCEPT ![w] = chosen]
      BY <1>3, <2>3 DEF Select
    <3>2. batch' \in [Workers -> SUBSET Entities]
      BY <3>1, <2>1
    <3> QED
      BY <1>3, <2>3, <3>2 DEF Select
  <2> QED
    BY <2>2, <2>3
<1>4. ASSUME NEW w \in Workers, Mark(w) PROVE TypeOK'
  BY <1>4 DEF Mark
<1>5. ASSUME NEW w \in Workers, StartItem(w) PROVE TypeOK'
  BY <1>5 DEF StartItem
<1>6. ASSUME NEW w \in Workers, FinishItem(w) PROVE TypeOK'
  BY <1>6 DEF FinishItem
<1>7. ASSUME NEW w \in Workers, Count(w) PROVE TypeOK'
  BY <1>7 DEF Count
<1>8. ASSUME NEW w \in Workers, Summarise(w) PROVE TypeOK'
  BY <1>8 DEF Summarise
<1>9. ASSUME NEW w \in Workers, Pause(w) PROVE TypeOK'
  BY <1>9 DEF Pause
<1>10. ASSUME NEW w \in Workers, Continue(w) PROVE TypeOK'
  BY <1>10 DEF Continue
<1>11. ASSUME NEW w \in Workers, Publish(w) PROVE TypeOK'
  BY <1>11 DEF Publish
<1>12. ASSUME NEW w \in Workers, Acknowledge(w) PROVE TypeOK'
  BY <1>12 DEF Acknowledge, Forget
<1>13. ASSUME NEW w \in Workers, CannotPublish(w) PROVE TypeOK'
  BY <1>13 DEF CannotPublish, Forget, Strike, Faults
<1>14. ASSUME NEW w \in Workers, TaskDies(w) PROVE TypeOK'
  BY <1>14 DEF TaskDies, Forget, Strike, Faults
<1>15. ASSUME NEW w \in Workers, HostDies(w) PROVE TypeOK'
  BY <1>15 DEF HostDies, Forget, Strike, Faults
<1>16. CASE UNCHANGED vars
  BY <1>16 DEF vars
<1> QED
  BY <1>1, <1>2, <1>3, <1>4, <1>5, <1>6, <1>7, <1>8, <1>9, <1>10, <1>11, <1>12,
     <1>13, <1>14, <1>15, <1>16 DEF Next, TaskStep

(* The statuses, counters and messages of a backfill keep their types in   *)
(* every behaviour of the code, whatever fails.                            *)
THEOREM TypeCorrect == Safety => []TypeOK
<1>1. Init => TypeOK
  BY InitInvariant DEF IInv
<1> QED
  BY <1>1, TypeStep, PTL DEF Safety
-----------------------------------------------------------------------------
(* One chain.                                                              *)

(* While a task has work before it nothing waits and no other has.         *)
LEMMA WorksAlone ==
  ASSUME OneChain, NEW w \in Workers, Working(w)
  PROVE  waiting = 0 /\ \A v \in Workers : v # w => ~Working(v)
  BY DEF OneChain

(* A step that moves one task on, without sending anything, keeps the      *)
(* chain single.                                                           *)
LEMMA ChainGoesOn ==
  ASSUME TypeOK, OneChain, NEW w \in Workers, Working(w), UNCHANGED waiting,
         NEW label, Goto(w, label)
  PROVE  OneChain'
<1>1. \A v \in Workers : v # w => ~Working(v)'
  BY WorksAlone DEF Working, Goto, TypeOK
<1> QED
  BY <1>1, WorksAlone DEF OneChain

(* So does one that lets the task go and leaves one message at most.       *)
LEMMA ChainHandsOver ==
  ASSUME TypeOK, OneChain, NEW w \in Workers, Working(w), waiting' \in {waiting, waiting + 1},
         NEW label \in {"idle", "ack"}, Goto(w, label)
  PROVE  OneChain'
<1>1. \A v \in Workers : ~Working(v)'
  BY WorksAlone DEF Working, Goto, TypeOK
<1>2. waiting' \in {0, 1}
  BY WorksAlone
<1> QED
  BY <1>1, <1>2 DEF OneChain

(* And one that ends a task which has no work left.                        *)
LEMMA ChainLetsGo ==
  ASSUME TypeOK, OneChain, NEW w \in Workers, ~Working(w), UNCHANGED waiting,
         Goto(w, "idle")
  PROVE  OneChain'
<1>1. \A v \in Workers : Working(v)' => Working(v)
  BY DEF Working, Goto, TypeOK
<1> QED
  BY <1>1 DEF OneChain

LEMMA OneChainStep ==
  ASSUME NotDoubled, TypeOK, OneChain, [Next]_vars
  PROVE  OneChain'
<1> USE BackfillAssumption
<1>1. CASE AdminStarts
  <2>1. Quiet /\ waiting' = waiting + 1 /\ UNCHANGED pc
    BY <1>1 DEF AdminStarts, NotDoubled, working
  <2>2. waiting' = 1 /\ \A w \in Workers : ~Working(w)'
    BY <2>1 DEF Quiet, Working, TypeOK
  <2> QED
    BY <2>2 DEF OneChain
<1>2. CASE TimePasses
  BY <1>2 DEF TimePasses, OneChain, Working, working
<1>3. ASSUME NEW w \in Workers, Select(w) PROVE OneChain'
  <2>1. waiting = 1 /\ waiting' = 0
    BY <1>3 DEF Select, OneChain, TypeOK
  <2>2. \A v \in Workers : ~Working(v)
    BY <2>1 DEF OneChain
  <2>3. \A v \in Workers : v # w => ~Working(v)'
    BY <1>3, <2>2 DEF Select, Goto, Working, TypeOK
  <2> QED
    BY <2>1, <2>3 DEF OneChain
<1>4. ASSUME NEW w \in Workers, Mark(w) PROVE OneChain'
  BY <1>4, ChainGoesOn DEF Mark, Working
<1>5. ASSUME NEW w \in Workers, StartItem(w) PROVE OneChain'
  BY <1>5, ChainGoesOn DEF StartItem, Working
<1>6. ASSUME NEW w \in Workers, FinishItem(w) PROVE OneChain'
  BY <1>6, ChainGoesOn DEF FinishItem, Working
<1>7. ASSUME NEW w \in Workers, Count(w) PROVE OneChain'
  BY <1>7, ChainGoesOn DEF Count, Working
<1>8. ASSUME NEW w \in Workers, Summarise(w) PROVE OneChain'
  BY <1>8, ChainGoesOn DEF Summarise, Working
<1>9. ASSUME NEW w \in Workers, Pause(w) PROVE OneChain'
  BY <1>9, ChainGoesOn DEF Pause, Working
<1>10. ASSUME NEW w \in Workers, Continue(w) PROVE OneChain'
  BY <1>10, ChainGoesOn DEF Continue, Working
<1>11. ASSUME NEW w \in Workers, Publish(w) PROVE OneChain'
  BY <1>11, ChainHandsOver DEF Publish, Working
<1>12. ASSUME NEW w \in Workers, Acknowledge(w) PROVE OneChain'
  BY <1>12, ChainLetsGo DEF Acknowledge, Forget, Working
<1>13. ASSUME NEW w \in Workers, CannotPublish(w) PROVE OneChain'
  BY <1>13, ChainHandsOver DEF CannotPublish, Forget, Working
<1>14. ASSUME NEW w \in Workers, TaskDies(w) PROVE OneChain'
  <2>1. CASE Working(w)
    BY <1>14, <2>1, ChainHandsOver DEF TaskDies, Forget
  <2>2. CASE ~Working(w)
    BY <1>14, <2>2, ChainLetsGo DEF TaskDies, Forget
  <2> QED
    BY <2>1, <2>2
<1>15. ASSUME NEW w \in Workers, HostDies(w) PROVE OneChain'
  BY <1>15 DEF HostDies, Strike, NotDoubled, TypeOK, Faults
<1>16. CASE UNCHANGED vars
  BY <1>16 DEF vars, OneChain, Working, working
<1> QED
  BY <1>1, <1>2, <1>3, <1>4, <1>5, <1>6, <1>7, <1>8, <1>9, <1>10, <1>11, <1>12,
     <1>13, <1>14, <1>15, <1>16 DEF Next, TaskStep
-----------------------------------------------------------------------------
(* What the tasks know, and the properties that follow from it.            *)

(* What holds of every task, and what COMPLETE means, survives a step in   *)
(* which nothing a task relies on changes but its own variables.           *)
LEMMA OthersHold ==
  ASSUME OneChain, \A v \in Workers : Holds(v),
         NEW w \in Workers, Working(w), NEW v \in Workers, v # w,
         batch'[v] = batch[v], item'[v] = item[v], complete'[v] = complete[v],
         Left' \subseteq Left
  PROVE  Holds(v)'
<1>1. ~Working(v)
  BY WorksAlone
<1>2. batch[v] = {} /\ item[v] = {}
  BY <1>1 DEF Holds, Working, Batching
<1> QED
  BY <1>2 DEF Holds

(* Eligible and Left depend on the records alone.                          *)
LEMMA SameRecords ==
  ASSUME UNCHANGED records
  PROVE  /\ Left' = Left
         /\ \A e \in Entities : Eligible(e)' = Eligible(e)
         /\ AttemptsBounded' = AttemptsBounded
  BY DEF records, Left, Eligible, AttemptsBounded

(* The parts of IInv that the steps below preserve together.               *)
Known ==
  /\ AttemptsBounded
  /\ \A w \in Workers : Holds(w)
  /\ CompleteMeansNothingLeft

(* A task lets go: what it knew is forgotten, the records stay.            *)
LEMMA ForgetKeepsKnown ==
  ASSUME TypeOK, Known, NEW w \in Workers, Forget(w), UNCHANGED records,
         state' \in {state, "FAILED"}
  PROVE  Known'
<1>1. \A v \in Workers : Holds(v)'
  BY SameRecords DEF Forget, Goto, Holds, Known, TypeOK, Working, records
<1> QED
  BY <1>1, SameRecords DEF Known, CompleteMeansNothingLeft

(* A working task moves on, outside the loop or into it.                   *)
LEMMA MoveKeepsHolds ==
  ASSUME TypeOK, OneChain, \A v \in Workers : Holds(v),
         NEW w \in Workers, Working(w), pc[w] # "item",
         NEW label, Goto(w, label), label \in Batching \/ pc[w] \notin Batching,
         UNCHANGED records, UNCHANGED <<batch, item, complete>>
  PROVE  \A v \in Workers : Holds(v)'
<1>1. Left' = Left /\ \A e \in Entities : Eligible(e)' = Eligible(e)
  BY SameRecords
<1>2. ASSUME NEW v \in Workers PROVE Holds(v)'
  <2>1. CASE v = w
    <3>1. batch'[v] # {} => pc'[v] \in Batching
      BY <2>1 DEF Holds, Goto, TypeOK
    <3>2. item'[v] = {}
      BY <2>1 DEF Holds
    <3> QED
      BY <1>1, <3>1, <3>2, <2>1 DEF Holds, TypeOK
  <2>2. CASE v # w
    BY <1>1, <2>2, OthersHold
  <2> QED
    BY <2>1, <2>2
<1> QED
  BY <1>2

LEMMA SelectKeepsKnown ==
  ASSUME TypeOK, OneChain, Known, NEW w \in Workers, Select(w)
  PROVE  Known'
<1>1. UNCHANGED records /\ UNCHANGED state /\ UNCHANGED item
  BY DEF Select, operation
<1>2. Left' = Left /\ \A e \in Entities : Eligible(e)' = Eligible(e)
  BY <1>1, SameRecords
<1>3. \A v \in Workers : ~Working(v)
  BY DEF Select, OneChain, TypeOK
<1>4. \A v \in Workers : batch[v] = {} /\ item[v] = {}
  BY <1>3 DEF Known, Holds, Working, Batching
<1>5. \A v \in Workers : Holds(v)'
  <2>1. CASE Left = {} \/ (state = "COMPLETE" /\ ~Trailers)
    <3>1. UNCHANGED batch
      BY <2>1 DEF Select
    <3>2. Left' = {}
      BY <1>2, <2>1 DEF Known, CompleteMeansNothingLeft
    <3> QED
      BY <1>1, <1>4, <3>1, <3>2 DEF Holds
  <2>2. CASE ~(Left = {} \/ (state = "COMPLETE" /\ ~Trailers))
    <3>1. PICK chosen \in SUBSET Left : batch' = [batch EXCEPT ![w] = chosen]
      BY <2>2 DEF Select
    <3>2. UNCHANGED complete /\ Goto(w, "mark")
      BY <2>2 DEF Select
    <3>3. \A e \in chosen : e \in Entities /\ Eligible(e)
      BY DEF Left
    <3>4. Holds(w)'
      BY <1>1, <1>2, <1>4, <3>1, <3>2, <3>3 DEF Holds, Known, Goto, Batching, TypeOK
    <3>5. ASSUME NEW v \in Workers, v # w PROVE Holds(v)'
      BY <1>1, <1>2, <1>4, <3>1, <3>2, <3>5 DEF Holds, Known, TypeOK
    <3> QED
      BY <3>4, <3>5
  <2> QED
    BY <2>1, <2>2
<1> QED
  BY <1>1, <1>2, <1>5, SameRecords DEF Known, CompleteMeansNothingLeft

(* The record of an entity that may be tried is opened: it was not DONE,   *)
(* and there was an attempt left.                                          *)
LEMMA StartItemKeepsKnown ==
  ASSUME TypeOK, OneChain, Known, NEW w \in Workers, StartItem(w)
  PROVE  Known' /\ \A e \in Entities : record[e] = "DONE" => record'[e] = "DONE"
<1> USE BackfillAssumption
<1>1. PICK e \in batch[w] :
        /\ record' = [record EXCEPT ![e] = "RUNNING"]
        /\ attempts' = [attempts EXCEPT ![e] = @ + 1]
        /\ batch' = [batch EXCEPT ![w] = @ \ {e}]
        /\ item' = [item EXCEPT ![w] = {e}]
  BY DEF StartItem
<1>2. e \in Entities /\ Eligible(e) /\ Working(w)
  BY DEF Known, Holds, TypeOK, StartItem, Working
<1>3. record[e] # "DONE" /\ attempts[e] < MaxAttempts
  BY <1>2 DEF Eligible
<1>4. \A x \in Entities : Eligible(x)' => Eligible(x)
  BY <1>1, <1>2, <1>3 DEF Eligible, TypeOK
<1>5. \A x \in Entities \ {e} : Eligible(x) => Eligible(x)'
  BY <1>1 DEF Eligible, TypeOK
<1>6. Left' \subseteq Left
  BY <1>4 DEF Left
<1>7. UNCHANGED complete /\ Goto(w, "item") /\ UNCHANGED state
  BY DEF StartItem, operation
<1>8. Holds(w)'
  BY <1>1, <1>2, <1>5, <1>6, <1>7 DEF Known, Holds, TypeOK, Batching, Goto
<1>9. ASSUME NEW v \in Workers, v # w PROVE Holds(v)'
  <2>1. batch'[v] = batch[v] /\ item'[v] = item[v] /\ complete'[v] = complete[v]
    BY <1>1, <1>7, <1>9 DEF TypeOK
  <2> QED
    BY <1>2, <1>6, <1>9, <2>1, OthersHold DEF Known
<1>10. AttemptsBounded'
  BY <1>1, <1>2, <1>3 DEF Known, AttemptsBounded, TypeOK
<1>11. CompleteMeansNothingLeft'
  BY <1>6, <1>7 DEF Known, CompleteMeansNothingLeft
<1> QED
  BY <1>1, <1>2, <1>3, <1>8, <1>9, <1>10, <1>11 DEF Known, TypeOK

(* The record that is closed is the one the task opened.                   *)
LEMMA FinishItemKeepsKnown ==
  ASSUME TypeOK, OneChain, Known, NEW w \in Workers, FinishItem(w)
  PROVE  Known' /\ \A e \in Entities : record[e] = "DONE" => record'[e] = "DONE"
<1>1. PICK outcome \in {"DONE", "FAILED"} :
        record' = [e \in Entities |-> IF e \in item[w] THEN outcome ELSE record[e]]
  BY DEF FinishItem
<1>2. \A e \in item[w] : record[e] = "RUNNING"
  BY DEF Known, Holds
<1>3. UNCHANGED <<attempts, batch, complete, state>> /\ item' = [item EXCEPT ![w] = {}]
  BY DEF FinishItem, operation
<1>4. \A x \in Entities : Eligible(x)' => Eligible(x)
  BY <1>1, <1>2, <1>3 DEF Eligible, TypeOK
<1>5. \A x \in Entities \ item[w] : Eligible(x) => Eligible(x)'
  BY <1>1, <1>3 DEF Eligible, TypeOK
<1>6. Left' \subseteq Left
  BY <1>4 DEF Left
<1>7. Working(w)
  BY DEF FinishItem, Working
<1>8. Holds(w)'
  <2>1. PICK stop \in BOOLEAN : Goto(w, IF stop \/ batch[w] = {} THEN "count" ELSE "start")
    BY DEF FinishItem
  <2>2. pc'[w] \in Batching
    BY <2>1 DEF Goto, Batching, TypeOK
  <2>3. item'[w] = {}
    BY <1>3 DEF TypeOK
  <2>4. \A e \in batch'[w] : Eligible(e)'
    BY <1>3, <1>5 DEF Known, Holds, TypeOK
  <2>5. complete'[w] => Left' = {}
    BY <1>3, <1>6 DEF Known, Holds
  <2> QED
    BY <2>2, <2>3, <2>4, <2>5 DEF Holds
<1>9. ASSUME NEW v \in Workers, v # w PROVE Holds(v)'
  <2>1. batch'[v] = batch[v] /\ item'[v] = item[v] /\ complete'[v] = complete[v]
    BY <1>3, <1>9 DEF TypeOK
  <2> QED
    BY <1>6, <1>7, <1>9, <2>1, OthersHold DEF Known
<1>10. AttemptsBounded' /\ CompleteMeansNothingLeft'
  BY <1>3, <1>6 DEF Known, AttemptsBounded, CompleteMeansNothingLeft
<1>11. \A e \in Entities : record[e] = "DONE" => record'[e] = "DONE"
  BY <1>1, <1>2
<1> QED
  BY <1>8, <1>9, <1>10, <1>11 DEF Known

LEMMA CountKeepsKnown ==
  ASSUME TypeOK, OneChain, Known, NEW w \in Workers, Count(w)
  PROVE  Known'
<1>1. UNCHANGED records /\ UNCHANGED state /\ UNCHANGED item /\ Working(w)
  BY DEF Count, operation, Working
<1>2. Left' = Left /\ \A e \in Entities : Eligible(e)' = Eligible(e)
  BY <1>1, SameRecords
<1>3. complete' = [complete EXCEPT ![w] = Left = {}] /\ batch' = [batch EXCEPT ![w] = {}]
  BY DEF Count
<1>4. Holds(w)'
  <2>1. complete'[w] => Left' = {}
    BY <1>2, <1>3 DEF TypeOK
  <2>2. batch'[w] = {}
    BY <1>3 DEF TypeOK
  <2>3. item[w] = {}
    BY DEF Count, Known, Holds
  <2> QED
    BY <1>1, <2>1, <2>2, <2>3 DEF Holds
<1>5. ASSUME NEW v \in Workers, v # w PROVE Holds(v)'
  <2>1. batch'[v] = batch[v] /\ item'[v] = item[v] /\ complete'[v] = complete[v]
    BY <1>1, <1>3, <1>5 DEF TypeOK
  <2> QED
    BY <1>1, <1>2, <1>5, <2>1, OthersHold DEF Known
<1> QED
  BY <1>1, <1>2, <1>4, <1>5, SameRecords DEF Known, CompleteMeansNothingLeft

(* COMPLETE is only written by a task that found nothing left.             *)
LEMMA SummariseKeepsKnown ==
  ASSUME TypeOK, OneChain, Known, NEW w \in Workers, Summarise(w)
  PROVE  Known'
<1>1. UNCHANGED records /\ UNCHANGED <<batch, item, complete>> /\ Working(w)
  BY DEF Summarise, Working
<1>2. PICK label \in {"pause", "ack", "continue"} : Goto(w, label)
  BY DEF Summarise
<1>3. \A v \in Workers : Holds(v)'
  BY <1>1, <1>2, MoveKeepsHolds DEF Known, Summarise, Batching
<1>4. CompleteMeansNothingLeft'
  <2>1. complete[w] => Left = {}
    BY DEF Known, Holds
  <2>2. state' = IF complete[w] THEN "COMPLETE" ELSE "PAUSED"
    BY DEF Summarise
  <2> QED
    BY <1>1, <2>1, <2>2, SameRecords DEF CompleteMeansNothingLeft
<1> QED
  BY <1>1, <1>3, <1>4, SameRecords DEF Known

(* Every step keeps what the tasks know, and no step opens a DONE record.  *)
LEMMA KnownStep ==
  ASSUME NotDoubled, TypeOK, OneChain, Known, [Next]_vars
  PROVE  Known' /\ \A e \in Entities : record[e] = "DONE" => record'[e] = "DONE"
<1> DEFINE Kept == \A e \in Entities : record[e] = "DONE" => record'[e] = "DONE"
<1>1. CASE UNCHANGED records /\ UNCHANGED state /\ UNCHANGED working
  <2>1. \A w \in Workers : Holds(w)'
    BY <1>1, SameRecords DEF Known, Holds, working, records, TypeOK
  <2> QED
    BY <1>1, <2>1, SameRecords DEF Known, CompleteMeansNothingLeft, records
<1>2. CASE AdminStarts \/ TimePasses \/ UNCHANGED vars
  BY <1>1, <1>2 DEF AdminStarts, TimePasses, vars, operation
<1>3. ASSUME NEW w \in Workers, Select(w) PROVE Known' /\ Kept
  BY <1>3, SelectKeepsKnown DEF Select, records
<1>4. ASSUME NEW w \in Workers, Mark(w) PROVE Known' /\ Kept
  <2>1. \A v \in Workers : Holds(v)'
    BY <1>4, MoveKeepsHolds DEF Mark, Known, Working, Batching
  <2>2. CompleteMeansNothingLeft' /\ AttemptsBounded'
    BY <1>4, SameRecords DEF Mark, Known, CompleteMeansNothingLeft
  <2> QED
    BY <1>4, <2>1, <2>2 DEF Mark, Known, records
<1>5. ASSUME NEW w \in Workers, StartItem(w) PROVE Known' /\ Kept
  BY <1>5, StartItemKeepsKnown
<1>6. ASSUME NEW w \in Workers, FinishItem(w) PROVE Known' /\ Kept
  BY <1>6, FinishItemKeepsKnown
<1>7. ASSUME NEW w \in Workers, Count(w) PROVE Known' /\ Kept
  BY <1>7, CountKeepsKnown DEF Count, records
<1>8. ASSUME NEW w \in Workers, Summarise(w) PROVE Known' /\ Kept
  BY <1>8, SummariseKeepsKnown DEF Summarise, records
<1>9. ASSUME NEW w \in Workers, Pause(w) \/ Continue(w) \/ Publish(w) PROVE Known' /\ Kept
  <2>1. UNCHANGED records /\ UNCHANGED <<batch, item, complete>>
    BY <1>9 DEF Pause, Continue, Publish
  <2>2. PICK label : Goto(w, label)
    BY <1>9 DEF Pause, Continue, Publish
  <2>3. Working(w) /\ pc[w] # "item" /\ pc[w] \notin Batching
    BY <1>9 DEF Pause, Continue, Publish, Working, Batching
  <2>4. \A v \in Workers : Holds(v)'
    BY <2>1, <2>2, <2>3, MoveKeepsHolds DEF Known
  <2>5. state' \in {state, "PAUSED", "RUNNING"}
    BY <1>9 DEF Pause, Continue, Publish, operation
  <2>6. CompleteMeansNothingLeft' /\ AttemptsBounded'
    BY <2>1, <2>5, SameRecords DEF Known, CompleteMeansNothingLeft
  <2> QED
    BY <2>1, <2>4, <2>6 DEF Known, records
<1>10. ASSUME NEW w \in Workers, Acknowledge(w) PROVE Known' /\ Kept
  BY <1>10, ForgetKeepsKnown DEF Acknowledge, records
<1>11. ASSUME NEW w \in Workers, CannotPublish(w) PROVE Known' /\ Kept
  BY <1>11, ForgetKeepsKnown DEF CannotPublish, records
<1>12. ASSUME NEW w \in Workers, TaskDies(w) \/ HostDies(w) PROVE Known' /\ Kept
  BY <1>12, ForgetKeepsKnown DEF TaskDies, HostDies, records, operation
<1> QED
  BY <1>2, <1>3, <1>4, <1>5, <1>6, <1>7, <1>8, <1>9, <1>10, <1>11, <1>12
     DEF Next, TaskStep
-----------------------------------------------------------------------------
(* The invariant, and the theorems.                                        *)

LEMMA Inductive ==
  ASSUME NotDoubled
  PROVE  Safety => []IInv
<1>1. IInv /\ [Next]_vars => IInv'
  BY TypeStep, OneChainStep, KnownStep DEF IInv, Known
<1> QED
  BY <1>1, InitInvariant, PTL DEF Safety

(* However many entities, workers, resumptions and dying tasks there are,  *)
(* no record of a chain that is not doubled is tried more often than       *)
(* BACKFILL_MAX_ATTEMPTS allows.                                           *)
THEOREM AttemptsStop ==
  ASSUME NotDoubled
  PROVE  Safety => []AttemptsBounded
  BY Inductive, PTL DEF IInv

(* _continue never makes two chains out of one.                            *)
THEOREM ChainStaysSingle ==
  ASSUME NotDoubled
  PROVE  Safety => []OneChain
  BY Inductive, PTL DEF IInv

(* When the operation says COMPLETE, which neither start_backfill nor run  *)
(* ever takes back, every record is DONE or has used up its attempts.      *)
THEOREM CompleteIsTrue ==
  ASSUME NotDoubled
  PROVE  Safety => []CompleteMeansNothingLeft
  BY Inductive, PTL DEF IInv

(* Successful records are never repeated by a chain that is not doubled.   *)
THEOREM SuccessIsKept ==
  ASSUME NotDoubled
  PROVE  Safety => SuccessKept
<1>1. IInv /\ [Next]_vars =>
        [\A e \in Entities : record[e] = "DONE" => record'[e] = "DONE"]_vars
  BY KnownStep DEF IInv, Known
<1> QED
  BY <1>1, Inductive, PTL DEF Safety, SuccessKept
=============================================================================
