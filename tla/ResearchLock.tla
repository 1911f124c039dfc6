---------------------------- MODULE ResearchLock ----------------------------
(***************************************************************************)
(* What the unique column research_runs.active_key is meant to give: one   *)
(* lock for each thing that is researched.  A run takes the lock of its    *)
(* key at most once in its life, somebody works on a key only under its    *)
(* lock, one worker at a time, and giving the lock back ends that work.    *)
(* ResearchRuns is shown to implement this module.                         *)
(***************************************************************************)
CONSTANTS Keys,     \* what can be locked: movies and named jobs
          Runs,     \* identifiers of runs
          Workers,  \* those that work
          NoRun     \* nobody holds the lock: not a run

VARIABLES holder,   \* the run that holds each lock, or NoRun
          spent,    \* runs that have held a lock: none of them takes another
          busy      \* who works on each key

vars == <<holder, spent, busy>>

TypeOK ==
  /\ holder \in [Keys -> Runs \cup {NoRun}]
  /\ spent \subseteq Runs
  /\ busy \in [Keys -> SUBSET Workers]

Init ==
  /\ holder = [k \in Keys |-> NoRun]
  /\ spent = {}
  /\ busy = [k \in Keys |-> {}]

Acquire(k, r) ==
  /\ holder[k] = NoRun
  /\ r \notin spent
  /\ holder' = [holder EXCEPT ![k] = r]
  /\ spent' = spent \cup {r}
  /\ UNCHANGED busy

StartWork(k, w) ==
  /\ holder[k] # NoRun
  /\ busy[k] = {}
  /\ busy' = [busy EXCEPT ![k] = {w}]
  /\ UNCHANGED <<holder, spent>>

StopWork(k) ==
  /\ busy[k] # {}
  /\ busy' = [busy EXCEPT ![k] = {}]
  /\ UNCHANGED <<holder, spent>>

Release(k) ==
  /\ holder[k] # NoRun
  /\ holder' = [holder EXCEPT ![k] = NoRun]
  /\ busy' = [busy EXCEPT ![k] = {}]
  /\ UNCHANGED spent

Next ==
  \E k \in Keys :
    \/ \E r \in Runs : Acquire(k, r)
    \/ \E w \in Workers : StartWork(k, w)
    \/ StopWork(k)
    \/ Release(k)

Spec == Init /\ [][Next]_vars
=============================================================================
