--------------------------- MODULE ProviderControl ---------------------------
(***************************************************************************)
(* The controls around one metered OTT provider, used by several workers   *)
(* at once: request budgets, the circuit breaker kept in the provider's    *)
(* health row, and the cache of answers (app/services/ott/                 *)
(* provider_controls.py, refresh_movie of app/services/ott/intelligence.py)*)
(* A caller runs refresh_movie in a database session of its own: what it   *)
(* read of the health row is its copy, and commit writes back the columns  *)
(* whose value it changed.                                                 *)
(***************************************************************************)
EXTENDS Integers, FiniteSets

CONSTANTS
  Callers, Wanted,
  DailyLimit, MonthlyLimit,   \* 0: no limit
  FailureThreshold,           \* OTT_PROVIDER_FAILURE_THRESHOLD
  MaxDays, MaxCalls,          \* bounds: days, and calls ever made
  NoCaller

ASSUME ControlAssumption ==
  /\ DailyLimit \in Nat /\ MonthlyLimit \in Nat
  /\ FailureThreshold \in Nat \ {0}
  /\ MaxDays \in Nat /\ MaxCalls \in Nat
  /\ IsFiniteSet(Callers) /\ Callers # {} /\ NoCaller \notin Callers

VARIABLES
  health,    \* committed row: failures, and the pause circuit_open_until
  day,       \* the DAY row of today: exists and used
  month,     \* the MONTH row
  rowLock,   \* caller whose transaction holds the period rows
  caller,    \* per caller: pc, movie, its copy of health and of the day row
  cache,     \* per movie: what is cached, NONE or expired included
  absent,    \* movies with an observation "not available" of today
  today,
  calls,     \* history: calls made today and this month, and of them those
             \* whose debit was lost with the process
  strays     \* history: calls made since the circuit opened, while it is open

controlVars == <<health, day, month, rowLock, caller, cache, absent, today, calls, strays>>

Pauses == {"none", "open", "past"}
ProviderAnswers == {"some", "empty"}
Health == [failures : 0 .. MaxCalls, pause : Pauses]
Idle == [pc |-> "idle", movie |-> "none", seen |-> [failures |-> 0, pause |-> "none"]]

ControlTypeOK ==
  /\ health \in Health
  /\ day \in [exists : BOOLEAN, used : 0 .. MaxCalls]
  /\ month \in [exists : BOOLEAN, used : 0 .. MaxCalls]
  /\ rowLock \in Callers \cup {NoCaller}
  /\ caller \in [Callers -> [pc : {"idle", "reserve", "insert", "call", "empty", "some"},
                             movie : Wanted \cup {"none"}, seen : Health]]
  /\ cache \in [Wanted -> {"NONE"} \cup ProviderAnswers]
  /\ absent \subseteq Wanted
  /\ today \in 0 .. MaxDays
  /\ calls \in [today : 0 .. MaxCalls, month : 0 .. MaxCalls,
                lostToday : 0 .. MaxCalls, lostMonth : 0 .. MaxCalls]
  /\ strays \in 0 .. MaxCalls

ControlInit ==
  /\ health = [failures |-> 0, pause |-> "none"]
  /\ day = [exists |-> FALSE, used |-> 0]
  /\ month = [exists |-> FALSE, used |-> 0]
  /\ rowLock = NoCaller
  /\ caller = [w \in Callers |-> Idle]
  /\ cache = [m \in Wanted |-> "NONE"]
  /\ absent = {}
  /\ today = 0
  /\ calls = [today |-> 0, month |-> 0, lostToday |-> 0, lostMonth |-> 0]
  /\ strays = 0

Is(w, pc) == caller[w].pc = pc
Become(w, pc) == caller' = [caller EXCEPT ![w].pc = pc]
Done(w) == caller' = [caller EXCEPT ![w] = Idle]

-----------------------------------------------------------------------------
(* A cached answer is used without touching budget or health.              *)
ServeCached(w, m) ==
  /\ Is(w, "idle") /\ cache[m] # "NONE"
  /\ absent' = IF cache[m] = "empty" THEN absent \cup {m} ELSE absent
  /\ UNCHANGED <<health, day, month, rowLock, caller, cache, today, calls, strays>>

(* execute up to reserve: the health row is read once, and an open circuit *)
(* refuses the call.  The variant never asks.                              *)
CircuitUnasked == FALSE
CircuitOpen == health.pause = "open"

Look(w, m) ==
  /\ Is(w, "idle") /\ cache[m] = "NONE"
  /\ ~CircuitOpen
  /\ caller' = [caller EXCEPT ![w] = [pc |-> "reserve", movie |-> m, seen |-> health]]
  /\ UNCHANGED <<health, day, month, rowLock, cache, absent, today, calls, strays>>

(* _period finds no row of the new day: it inserts one, and of two workers *)
(* the unique key refuses the later.                                       *)
FindNoPeriod(w) ==
  /\ Is(w, "reserve") /\ ~day.exists
  /\ Become(w, "insert")
  /\ UNCHANGED <<health, day, month, rowLock, cache, absent, today, calls, strays>>

(* with_for_update; the variant reads the rows without it.                 *)
RowsUnlocked == TRUE
RowsFree == rowLock = NoCaller

Spent == \/ DailyLimit # 0 /\ day.used + 1 > DailyLimit
         \/ MonthlyLimit # 0 /\ month.used + 1 > MonthlyLimit

(* reserve holds both rows FOR UPDATE until the commit after the call.     *)
Reserve(w) ==
  /\ \/ Is(w, "reserve") /\ day.exists
     \/ Is(w, "insert") /\ ~day.exists
  /\ RowsFree /\ ~Spent /\ calls.month < MaxCalls
  /\ rowLock' = w
  /\ Become(w, "call")
  /\ calls' = [calls EXCEPT !.today = @ + 1, !.month = @ + 1]
  /\ strays' = IF health.pause = "open" THEN strays + 1 ELSE strays
  /\ UNCHANGED <<health, day, month, cache, absent, today>>

(* ProviderQuotaExhausted: the rows as read, or just created, are          *)
(* committed.                                                              *)
Exhausted(w) ==
  /\ \/ Is(w, "reserve") /\ day.exists
     \/ Is(w, "insert") /\ ~day.exists
  /\ RowsFree /\ Spent
  /\ day' = [day EXCEPT !.exists = TRUE]
  /\ month' = [month EXCEPT !.exists = TRUE]
  /\ Done(w)
  /\ UNCHANGED <<health, rowLock, cache, absent, today, calls, strays>>

(* The insert that lost: the session has to be rolled back, and the        *)
(* refresh of this movie ends with the next statement.                     *)
InsertRefused(w) ==
  /\ Is(w, "insert") /\ day.exists
  /\ Done(w)
  /\ UNCHANGED <<health, day, month, rowLock, cache, absent, today, calls, strays>>

(* commit: the debit and the columns of health this caller changed.        *)
Debit == /\ day' = [exists |-> TRUE, used |-> day.used + 1]
         /\ month' = [exists |-> TRUE, used |-> month.used + 1]
         /\ rowLock' = NoCaller

Written(copy, new) ==
  [failures |-> IF new.failures = copy.failures THEN health.failures ELSE new.failures,
   pause |-> IF new.pause = copy.pause /\ new.pause # "open" THEN health.pause ELSE new.pause]

Succeed(w, answer) ==
  /\ Is(w, "call")
  /\ Debit
  /\ health' = Written(caller[w].seen, [failures |-> 0, pause |-> "none"])
  /\ strays' = IF health'.pause = "open" THEN strays ELSE 0
  /\ Become(w, answer)
  /\ UNCHANGED <<cache, absent, today, calls>>

(* _failure: nothing is cached and nothing observed.                       *)
Fail(w) ==
  /\ Is(w, "call")
  /\ Debit
  /\ LET seen == caller[w].seen
         failures == seen.failures + 1
     IN \E pause \in IF failures >= FailureThreshold THEN {"open", "past"} ELSE {seen.pause} :
          /\ pause = "past" /\ failures >= FailureThreshold => health.pause = "past"
          /\ health' = Written(seen, [failures |-> failures, pause |-> pause])
  /\ strays' = IF health.pause = "open" /\ health'.pause = "open" THEN strays ELSE 0
  /\ Done(w)
  /\ UNCHANGED <<cache, absent, today, calls>>

(* cache.put, then the evidence, or the observation that there is none.    *)
Store(w) ==
  /\ caller[w].pc \in ProviderAnswers
  /\ cache' = [cache EXCEPT ![caller[w].movie] = caller[w].pc]
  /\ absent' = IF Is(w, "empty") THEN absent \cup {caller[w].movie} ELSE absent
  /\ Done(w)
  /\ UNCHANGED <<health, day, month, rowLock, today, calls, strays>>

(* The process dies: its transaction goes, and with it the debit of a call *)
(* that was made.                                                          *)
Die(w) ==
  /\ ~Is(w, "idle")
  /\ Done(w)
  /\ IF Is(w, "call")
       THEN /\ rowLock' = NoCaller
            /\ calls' = [calls EXCEPT !.lostToday = @ + 1, !.lostMonth = @ + 1]
       ELSE UNCHANGED <<rowLock, calls>>
  /\ UNCHANGED <<health, day, month, cache, absent, today, strays>>

PauseEnds ==
  /\ health.pause = "open"
  /\ health' = [health EXCEPT !.pause = "past"]
  /\ strays' = 0
  /\ UNCHANGED <<day, month, rowLock, caller, cache, absent, today, calls>>

Expire(m) ==
  /\ cache[m] # "NONE"
  /\ cache' = [cache EXCEPT ![m] = "NONE"]
  /\ UNCHANGED <<health, day, month, rowLock, caller, absent, today, calls, strays>>

(* The next day has a row of its own.  Midnight falls between calls here:  *)
(* a call that spans it is debited to the day it was reserved on.          *)
Midnight ==
  /\ today < MaxDays /\ RowsFree
  /\ \A w \in Callers : Is(w, "idle")
  /\ today' = today + 1
  /\ day' = [exists |-> FALSE, used |-> 0]
  /\ calls' = [calls EXCEPT !.today = 0, !.lostToday = 0]
  /\ absent' = {}
  /\ UNCHANGED <<health, month, rowLock, caller, cache, strays>>

ControlNext ==
  \/ \E w \in Callers :
       \/ \E m \in Wanted : ServeCached(w, m) \/ Look(w, m)
       \/ FindNoPeriod(w) \/ Reserve(w) \/ Exhausted(w) \/ InsertRefused(w)
       \/ \E a \in ProviderAnswers : Succeed(w, a)
       \/ Fail(w) \/ Store(w) \/ Die(w)
  \/ PauseEnds \/ Midnight
  \/ \E m \in Wanted : Expire(m)

ControlSpec == ControlInit /\ [][ControlNext]_controlVars

-----------------------------------------------------------------------------
(* However many workers ask at once, the calls of a day and of a month     *)
(* stay within their limits, but for those of a process that died in       *)
(* between.                                                                *)
ProviderBudgetKept ==
  /\ DailyLimit # 0 => calls.today - calls.lostToday <= DailyLimit
  /\ MonthlyLimit # 0 => calls.month - calls.lostMonth <= MonthlyLimit

(* While the circuit is open, the only calls are those of workers that had *)
(* looked before it opened, one each, without the one that opened it.      *)
FewStrays == strays < Cardinality(Callers)

=============================================================================
