-------------------------- MODULE CatalogueProofs ---------------------------
(*****************************************************************************)
(* Theorems about the repair of the whole catalogue, RepairChain, for any   *)
(* number of runners and scans, any catalogue and any faults, and about     *)
(* the instance that checks it together with the seven other parts:         *)
(* whichever part moves, its variables keep their types.                    *)
(*****************************************************************************)
EXTENDS MCCatalogue, ImportProofs, OfferProofs, UpkeepProofs

-----------------------------------------------------------------------------
(* The repair orchestrator.                                                *)
Work == [at : {"rest", "batch", "reload", "close", "send"}, stage : 0 .. HealthPass,
         from : 0 .. Catalogued, to : Nat]

RepairTyped ==
  /\ repairAt \in Nat
  /\ actor \in [Actors -> Work]
  /\ \A s \in Scanners : actor[s].at \in {"rest", "batch"}
  /\ healthAt \in 0 .. Catalogued /\ looked \subseteq 1 .. Catalogued
  /\ overtaken \in BOOLEAN /\ straddled \in BOOLEAN

(* The cursor may stand at n: every stage before it has answered.          *)
Ready(n) == overtaken \/ \A stage \in 0 .. HealthPass - 1 : stage < n => stage \in answered

(* What a run read was ready, and so is what it will write; a backfill     *)
(* moves the cursor no further than the research, the research starts the  *)
(* health pass and only that ends it.                                      *)
RunInOrder(a) ==
  /\ Ready(actor[a].stage) /\ Ready(actor[a].to)
  /\ ActorAt(a, "reload") => actor[a].stage <= Research /\ actor[a].stage \in answered
  /\ ActorAt(a, "close") =>
       /\ actor[a].stage < Research => overtaken \/ actor[a].to <= Research
       /\ actor[a].stage = Research => actor[a].to \in {Stay, HealthPass}
       /\ actor[a].stage = HealthPass => actor[a].to \in {Stay, Over}
  /\ ActorAt(a, "batch") => actor[a].to = Stay

(* A scan reads on where everything before is scanned; the one that ended  *)
(* the cycle found the last movie scanned.                                 *)
Scanning(a) == ActorAt(a, "batch") /\ (a \in Scanners \/ actor[a].stage = HealthPass)
EndsPass(a) == ActorAt(a, "close") /\ actor[a].stage = HealthPass /\ actor[a].to = Over

ScanInOrder(a) ==
  /\ Scanning(a) => 1 .. actor[a].from \subseteq looked
  /\ EndsPass(a) => looked = 1 .. Catalogued

RepairInv ==
  /\ RepairTyped
  /\ Ready(repairAt)
  /\ \A a \in Actors : RunInOrder(a)
  /\ ~straddled => /\ 1 .. healthAt \subseteq looked
                   /\ \A a \in Actors : ScanInOrder(a)
                   /\ repairAt >= Over /\ ~overtaken => looked = 1 .. Catalogued

-----------------------------------------------------------------------------
LEMMA StageNumbers ==
  /\ Research \in Nat \ {0} /\ HealthPass = Research + 1 /\ Over = Research + 2
  /\ HealthPass \in Nat /\ Over \in Nat /\ Stay = 0
BY RepairAssumption DEF Research, HealthPass, Over, Stay

LEMMA AtRestTyped == AtRest \in Work /\ AtRest.at = "rest" /\ AtRest.stage = 0 /\ AtRest.to = Stay
BY StageNumbers, RepairAssumption DEF AtRest, Work

LEMMA ReadyAtStart == Ready(0)
BY DEF Ready

(* Where a scan ends, everything it passed over is scanned.                *)
LEMMA ScanPasses ==
  ASSUME NEW from \in 0 .. Catalogued
  PROVE  /\ HealthAfter(from) \in 0 .. Catalogued
         /\ Unscanned(from) \subseteq 1 .. Catalogued
         /\ 1 .. HealthAfter(from) \subseteq (1 .. from) \cup Unscanned(from)
         /\ CycleComplete(from) => from = Catalogued
<1>1. Catalogued \in Nat /\ ScanBatch \in Nat \ {0} /\ from \in Nat
  BY RepairAssumption
<1>2. CASE Unscanned(from) = {}
  <2>1. from = Catalogued
    <3>1. from + 1 \notin Unscanned(from)
      BY <1>2
    <3> QED
      BY <1>1, <3>1 DEF Unscanned
  <2> QED
    BY <1>1, <1>2, <2>1 DEF HealthAfter
<1>3. CASE Unscanned(from) # {}
  <2> DEFINE last == IF from + ScanBatch <= Catalogued THEN from + ScanBatch ELSE Catalogued
  <2>1. last \in Unscanned(from) /\ \A n \in Unscanned(from) : n <= last
    BY <1>1, <1>3 DEF Unscanned
  <2>2. /\ HealthAfter(from) \in Unscanned(from)
        /\ \A n \in Unscanned(from) : n <= HealthAfter(from)
    BY <1>3, <2>1 DEF HealthAfter
  <2>3. Unscanned(from) \subseteq 1 .. Catalogued
    BY <1>1 DEF Unscanned
  <2>4. 1 .. HealthAfter(from) \subseteq (1 .. from) \cup Unscanned(from)
    BY <1>1, <2>2 DEF Unscanned
  <2> QED
    BY <1>3, <2>2, <2>3, <2>4 DEF CycleComplete
<1> QED
  BY <1>2, <1>3

LEMMA RepairInvInit == RepairInit => RepairInv
<1> SUFFICES ASSUME RepairInit PROVE RepairInv
  OBVIOUS
<1>1. \A a \in Actors : actor[a] = AtRest
  BY DEF RepairInit
<1>2. RepairTyped
  <2>1. actor \in [Actors -> Work]
    BY AtRestTyped DEF RepairInit
  <2>2. \A s \in Scanners : actor[s].at \in {"rest", "batch"}
    BY <1>1, AtRestTyped DEF Actors
  <2>3. repairAt \in Nat /\ healthAt \in 0 .. Catalogued /\ looked \subseteq 1 .. Catalogued
    BY RepairAssumption DEF RepairInit
  <2>4. overtaken \in BOOLEAN /\ straddled \in BOOLEAN
    BY DEF RepairInit
  <2> QED
    BY <2>1, <2>2, <2>3, <2>4 DEF RepairTyped
<1>3. \A a \in Actors : RunInOrder(a) /\ ScanInOrder(a)
  BY <1>1, AtRestTyped, ReadyAtStart DEF RunInOrder, ScanInOrder, Scanning, EndsPass, ActorAt, Stay
<1>4. Ready(repairAt) /\ ~(repairAt >= Over) /\ 1 .. healthAt \subseteq looked
  BY ReadyAtStart, StageNumbers DEF RepairInit
<1> QED
  BY <1>2, <1>3, <1>4 DEF RepairInv

(* A step that moves one worker on and takes nothing back.                 *)
LEMMA OneMoves ==
  ASSUME RepairInv, NEW a \in Actors, NEW new \in Work, Becomes(a, new),
         UNCHANGED <<repairAt, healthAt, overtaken, straddled, looked>>,
         answered \subseteq answered',
         a \in Scanners => new.at \in {"rest", "batch"},
         RunInOrder(a)', ~straddled => ScanInOrder(a)'
  PROVE  RepairInv'
<1>1. /\ actor' \in [Actors -> Work] /\ actor'[a] = new
      /\ \A b \in Actors \ {a} : actor'[b] = actor[b]
  BY DEF Becomes, RepairInv, RepairTyped
<1>2. RepairTyped'
  BY <1>1 DEF RepairInv, RepairTyped, Actors
<1>3. \A n \in Nat : Ready(n) => Ready(n)'
  BY DEF Ready
<1>4. Ready(repairAt)'
  BY DEF Ready, RepairInv
<1>5. ASSUME NEW b \in Actors \ {a} PROVE RunInOrder(b)' /\ (~straddled => ScanInOrder(b)')
  <2>1. actor'[b] = actor[b] /\ RunInOrder(b) /\ (~straddled => ScanInOrder(b))
    BY <1>1 DEF RepairInv
  <2>2. RunInOrder(b)'
    BY <2>1 DEF RunInOrder, Ready, ActorAt
  <2>3. ~straddled => ScanInOrder(b)'
    BY <2>1 DEF ScanInOrder, Scanning, EndsPass, ActorAt
  <2> QED
    BY <2>2, <2>3
<1> QED
  BY <1>2, <1>4, <1>5 DEF RepairInv

LEMMA BeginRunStep == ASSUME RepairInv, NEW r \in Runners, BeginRun(r) PROVE RepairInv'
<1>0. r \in Actors /\ r \notin Scanners
  BY RepairAssumption DEF Actors
<1>1. CASE repairAt >= Over
  <2>1. UNCHANGED <<repairAt, actor, healthAt, repairHistory>>
    BY <1>1 DEF BeginRun
  <2> QED
    BY <2>1 DEF RepairInv, RepairTyped, Ready, RunInOrder, ScanInOrder, Scanning, EndsPass, ActorAt, repairHistory
<1>2. CASE ~(repairAt >= Over)
  <2> DEFINE new == [at |-> "batch", stage |-> repairAt, to |-> Stay,
                     from |-> IF repairAt = HealthPass THEN healthAt ELSE 0]
  <2>1. Becomes(r, new) /\ UNCHANGED <<repairAt, healthAt, answered, looked, overtaken, straddled>>
    BY <1>2 DEF BeginRun, repairHistory
  <2>2. new \in Work
    BY <1>2, StageNumbers, RepairAssumption DEF Work, RepairInv, RepairTyped
  <2>3. actor'[r] = new
    BY <1>0, <2>1 DEF Becomes, RepairInv, RepairTyped
  <2>4. RunInOrder(r)'
    <3>1. Ready(repairAt)' /\ Ready(Stay)'
      BY <2>1, ReadyAtStart DEF Ready, RepairInv, Stay
    <3> QED
      BY <2>1, <2>3, <3>1 DEF RunInOrder, ActorAt
  <2>5. ~straddled => ScanInOrder(r)'
    BY <1>0, <2>1, <2>3 DEF ScanInOrder, Scanning, EndsPass, ActorAt, RepairInv
  <2> HIDE DEF new
  <2> QED
    BY <1>0, <2>1, <2>2, <2>4, <2>5, OneMoves
<1> QED
  BY <1>1, <1>2

(* A batch that answers adds its stage to those that have.                 *)
LEMMA BatchEndsStep == ASSUME RepairInv, NEW r \in Runners, BatchEnds(r) PROVE RepairInv'
<1>0. /\ r \in Actors /\ r \notin Scanners /\ actor[r] \in Work
      /\ RunInOrder(r) /\ ActorAt(r, "batch") /\ actor[r].stage <= Research
  BY RepairAssumption DEF Actors, RepairInv, RepairTyped, BatchEnds
<1>1. UNCHANGED <<repairAt, healthAt, looked, overtaken, straddled>>
  BY DEF BatchEnds, orchestrator
<1>2. CASE Becomes(r, [actor[r] EXCEPT !.at = "close"]) /\ UNCHANGED answered
  <2> DEFINE new == [actor[r] EXCEPT !.at = "close"]
  <2>1. /\ new \in Work /\ new.at = "close" /\ new.stage = actor[r].stage /\ new.to = Stay
        /\ actor'[r] = new
    BY <1>0, <1>2 DEF Work, RunInOrder, Becomes, RepairInv, RepairTyped
  <2>2. RunInOrder(r)'
    BY <1>0, <1>1, <1>2, <2>1, StageNumbers DEF RunInOrder, ActorAt, Ready
  <2>3. ScanInOrder(r)'
    BY <1>0, <2>1, StageNumbers DEF ScanInOrder, Scanning, EndsPass, ActorAt
  <2> HIDE DEF new
  <2> QED
    BY <1>0, <1>1, <1>2, <2>1, <2>2, <2>3, OneMoves DEF new
<1>3. CASE /\ answered' = answered \cup {actor[r].stage}
           /\ Becomes(r, [actor[r] EXCEPT !.at = "reload"])
  <2> DEFINE new == [actor[r] EXCEPT !.at = "reload"]
  <2>1. /\ new \in Work /\ new.at = "reload" /\ new.stage = actor[r].stage /\ new.to = Stay
        /\ actor'[r] = new
    BY <1>0, <1>3 DEF Work, RunInOrder, Becomes, RepairInv, RepairTyped
  <2>2. actor[r].stage \in 0 .. Research
    BY <1>0, StageNumbers DEF Work
  <2>3. Ready(actor[r].stage)' /\ Ready(actor[r].to)'
    BY <1>0, <1>1, <1>3, <2>1, <2>2, StageNumbers DEF Ready, RunInOrder
  <2>4. RunInOrder(r)'
    BY <1>3, <2>1, <2>2, <2>3, StageNumbers DEF RunInOrder, ActorAt
  <2>5. ScanInOrder(r)'
    BY <1>0, <2>1, <2>2, StageNumbers DEF ScanInOrder, Scanning, EndsPass, ActorAt
  <2> HIDE DEF new
  <2> QED
    BY <1>0, <1>1, <1>3, <2>1, <2>4, <2>5, OneMoves DEF new
<1> QED
  BY <1>2, <1>3 DEF BatchEnds

(* state.cursor += 1: the stage after the one that answered, or a batch    *)
(* was overtaken.                                                          *)
LEMMA ReloadStep == ASSUME RepairInv, NEW r \in Runners, Reload(r) PROVE RepairInv'
<1> DEFINE new == [actor[r] EXCEPT !.at = "close", !.to = repairAt + 1]
<1>0. /\ r \in Actors /\ r \notin Scanners /\ actor[r] \in Work /\ repairAt \in Nat
      /\ RunInOrder(r) /\ ActorAt(r, "reload") /\ actor[r].stage < Research
  BY RepairAssumption DEF Actors, RepairInv, RepairTyped, Reload
<1>1. /\ Becomes(r, new) /\ overtaken' = (overtaken \/ repairAt # actor[r].stage)
      /\ UNCHANGED <<repairAt, healthAt, answered, looked, straddled>>
  BY DEF Reload, orchestrator
<1>2. /\ new \in Work /\ new.at = "close" /\ new.stage = actor[r].stage /\ new.to = repairAt + 1
      /\ actor' \in [Actors -> Work] /\ actor'[r] = new
      /\ \A b \in Actors \ {r} : actor'[b] = actor[b]
  <2>1. new \in Work /\ new.at = "close" /\ new.stage = actor[r].stage /\ new.to = repairAt + 1
    <3> DEFINE next == repairAt + 1
    <3>1. next \in Nat
      BY <1>0
    <3> HIDE DEF next
    <3>2. [actor[r] EXCEPT !.at = "close", !.to = next] \in Work
      BY <1>0, <3>1 DEF Work
    <3> QED
      BY <1>0, <3>2 DEF Work, next
  <2> HIDE DEF new
  <2> QED
    BY <1>0, <1>1, <2>1 DEF Becomes, RepairInv, RepairTyped
<1> HIDE DEF new
<1>3. overtaken' \in BOOLEAN /\ (overtaken => overtaken')
  BY <1>1 DEF RepairInv, RepairTyped
<1>4. RepairTyped'
  <2>1. \A s \in Scanners : actor'[s].at \in {"rest", "batch"}
    BY <1>0, <1>2 DEF RepairInv, RepairTyped, Actors
  <2> QED
    BY <1>1, <1>2, <1>3, <2>1 DEF RepairInv, RepairTyped
<1>5. Ready(repairAt)'
  BY <1>1, <1>3 DEF Ready, RepairInv
<1>6. RunInOrder(r)'
  <2>0. actor[r].stage \in Nat
    BY <1>0 DEF Work
  <2>1. CASE overtaken'
    BY <1>0, <1>2, <2>0, <2>1, StageNumbers DEF RunInOrder, ActorAt, Ready
  <2>2. CASE ~overtaken'
    <3>1. ~overtaken /\ repairAt = actor[r].stage
      BY <1>1, <2>2
    <3>2. actor[r].stage < Research /\ actor[r].stage \in answered
      BY <1>0 DEF RunInOrder
    <3>3. Ready(repairAt)
      BY DEF RepairInv
    <3>4. Ready(actor[r].stage)' /\ Ready(actor[r].to)'
      BY <1>0, <1>1, <1>2, <3>1, <3>2, <3>3, StageNumbers DEF Ready
    <3> QED
      BY <1>0, <1>2, <3>1, <3>2, <3>4, StageNumbers DEF RunInOrder, ActorAt
  <2> QED
    BY <2>1, <2>2
<1>7. ASSUME NEW b \in Actors \ {r} PROVE RunInOrder(b)' /\ (~straddled => ScanInOrder(b)')
  <2>1. actor'[b] = actor[b] /\ RunInOrder(b) /\ (~straddled => ScanInOrder(b))
    BY <1>2 DEF RepairInv
  <2>2. RunInOrder(b)'
    BY <1>1, <1>3, <2>1 DEF RunInOrder, Ready, ActorAt
  <2>3. ~straddled => ScanInOrder(b)'
    BY <1>1, <2>1 DEF ScanInOrder, Scanning, EndsPass, ActorAt
  <2> QED
    BY <2>2, <2>3
<1>8. ScanInOrder(r)'
  BY <1>0, <1>2, StageNumbers DEF ScanInOrder, Scanning, EndsPass, ActorAt
<1> QED
  BY <1>1, <1>3, <1>4, <1>5, <1>6, <1>7, <1>8 DEF RepairInv

(* The row of data_health is read to be reset; read 0, it starts the       *)
(* health pass here.                                                       *)
LEMMA ReadHealthStep == ASSUME RepairInv, NEW r \in Runners, ReadHealth(r) PROVE RepairInv'
<1> DEFINE new == [actor[r] EXCEPT !.at = "close", !.to = HealthPass, !.from = healthAt]
<1>0. /\ r \in Actors /\ r \notin Scanners /\ actor[r] \in Work
      /\ repairAt \in Nat /\ healthAt \in 0 .. Catalogued
      /\ RunInOrder(r) /\ ActorAt(r, "reload") /\ actor[r].stage = Research
  BY RepairAssumption DEF Actors, RepairInv, RepairTyped, ReadHealth
<1>1. /\ Becomes(r, new) /\ overtaken' = (overtaken \/ repairAt # actor[r].stage)
      /\ UNCHANGED <<repairAt, healthAt, answered>>
  BY DEF ReadHealth, orchestrator
<1>2. \/ healthAt = 0 /\ looked' = {} /\ straddled' = (\E a \in Actors \ {r} : InScan(a))
      \/ UNCHANGED <<looked, straddled>>
  BY DEF ReadHealth, PassBegins
<1>3. /\ new \in Work /\ new.at = "close" /\ new.stage = Research /\ new.to = HealthPass
      /\ actor' \in [Actors -> Work] /\ actor'[r] = new
      /\ \A b \in Actors \ {r} : actor'[b] = actor[b]
  <2>1. new \in Work /\ new.at = "close" /\ new.stage = Research /\ new.to = HealthPass
    BY <1>0, StageNumbers DEF Work
  <2> HIDE DEF new
  <2> QED
    BY <1>0, <1>1, <2>1 DEF Becomes, RepairInv, RepairTyped
<1> HIDE DEF new
<1>4. overtaken' \in BOOLEAN /\ (overtaken => overtaken')
  BY <1>1 DEF RepairInv, RepairTyped
<1>5. RepairTyped'
  <2>1. \A s \in Scanners : actor'[s].at \in {"rest", "batch"}
    BY <1>0, <1>3 DEF RepairInv, RepairTyped, Actors
  <2>2. looked' \subseteq 1 .. Catalogued /\ straddled' \in BOOLEAN
    BY <1>2 DEF RepairInv, RepairTyped
  <2> QED
    BY <1>0, <1>1, <1>3, <1>4, <2>1, <2>2 DEF RepairTyped
<1>6. Ready(repairAt)'
  BY <1>1, <1>4 DEF Ready, RepairInv
<1>7. RunInOrder(r)'
  <2>1. Research \in answered /\ Ready(Research)
    BY <1>0 DEF RunInOrder
  <2>2. Ready(Research)' /\ Ready(HealthPass)'
    BY <1>1, <1>4, <2>1, StageNumbers DEF Ready
  <2>3. Ready(actor[r].stage)' /\ Ready(actor[r].to)'
    BY <1>3, <2>2 DEF Ready
  <2> QED
    BY <1>3, <2>3, StageNumbers DEF RunInOrder, ActorAt
<1>8. ASSUME NEW b \in Actors \ {r} PROVE RunInOrder(b)'
  <2>1. actor'[b] = actor[b] /\ RunInOrder(b)
    BY <1>3 DEF RepairInv
  <2> QED
    BY <1>1, <1>4, <2>1 DEF RunInOrder, Ready, ActorAt
<1>9. ScanInOrder(r)'
  BY <1>0, <1>3, StageNumbers DEF ScanInOrder, Scanning, EndsPass, ActorAt
<1>10. ASSUME ~straddled'
       PROVE  /\ 1 .. healthAt' \subseteq looked'
              /\ \A b \in Actors : ScanInOrder(b)'
              /\ repairAt' >= Over /\ ~overtaken' => looked' = 1 .. Catalogued
  <2>1. CASE healthAt = 0 /\ looked' = {} /\ straddled' = (\E a \in Actors \ {r} : InScan(a))
    <3>1. 1 .. healthAt' \subseteq looked'
      BY <1>1, <2>1
    <3>2. ASSUME NEW b \in Actors \ {r} PROVE ScanInOrder(b)'
      <4>1. ~InScan(b)
        BY <1>10, <2>1
      <4> QED
        BY <1>3, <4>1 DEF InScan, ScanInOrder, Scanning, EndsPass, ActorAt
    <3>3. repairAt' >= Over => overtaken'
      <4>1. repairAt' >= Over => repairAt # actor[r].stage
        BY <1>0, <1>1, StageNumbers
      <4> QED
        BY <1>1, <4>1
    <3> QED
      BY <1>9, <3>1, <3>2, <3>3
  <2>2. CASE UNCHANGED <<looked, straddled>>
    <3>1. ASSUME NEW b \in Actors \ {r} PROVE ScanInOrder(b)'
      BY <1>3, <1>10, <2>2 DEF RepairInv, ScanInOrder, Scanning, EndsPass, ActorAt
    <3> QED
      BY <1>1, <1>4, <1>9, <1>10, <2>2, <3>1 DEF RepairInv
  <2> QED
    BY <1>2, <2>1, <2>2
<1> QED
  BY <1>5, <1>6, <1>7, <1>8, <1>10 DEF RepairInv

LEMMA BeginHealthScanStep ==
  ASSUME RepairInv, NEW s \in Scanners, BeginHealthScan(s) PROVE RepairInv'
<1> DEFINE new == [AtRest EXCEPT !.at = "batch", !.from = healthAt]
<1>1. /\ Becomes(s, new) /\ s \in Actors
      /\ UNCHANGED <<repairAt, healthAt, answered, looked, overtaken, straddled>>
  BY DEF BeginHealthScan, orchestrator, repairHistory, Actors
<1>2. /\ new \in Work /\ new.at = "batch" /\ new.stage = 0 /\ new.to = Stay /\ new.from = healthAt
  <2>1. healthAt \in 0 .. Catalogued /\ 0 \in 0 .. HealthPass /\ Stay \in Nat
    BY StageNumbers DEF RepairInv, RepairTyped
  <2> QED
    BY <2>1 DEF AtRest, Work
<1> HIDE DEF new
<1>3. actor'[s] = new
  BY <1>1 DEF Becomes, RepairInv, RepairTyped
<1>4. RunInOrder(s)'
  <2>1. Ready(0)'
    BY DEF Ready
  <2> QED
    BY <1>2, <1>3, <2>1, StageNumbers DEF RunInOrder, ActorAt
<1>5. ~straddled => ScanInOrder(s)'
  BY <1>1, <1>2, <1>3 DEF ScanInOrder, Scanning, EndsPass, ActorAt, RepairInv
<1> QED
  BY <1>1, <1>2, <1>4, <1>5, OneMoves

LEMMA SendAgainStep == ASSUME RepairInv, NEW r \in Runners, SendAgain(r) PROVE RepairInv'
<1>1. /\ Becomes(r, AtRest) /\ r \in Actors
      /\ UNCHANGED <<repairAt, healthAt, answered, looked, overtaken, straddled>>
  BY DEF SendAgain, orchestrator, repairHistory, Actors
<1>2. actor'[r] = AtRest
  BY <1>1 DEF Becomes, RepairInv, RepairTyped
<1>3. RunInOrder(r)' /\ ScanInOrder(r)'
  BY <1>2, AtRestTyped, StageNumbers DEF RunInOrder, ScanInOrder, Scanning, EndsPass, ActorAt, Ready
<1> QED
  BY <1>1, <1>3, AtRestTyped, OneMoves

LEMMA ActorDiesStep == ASSUME RepairInv, NEW a \in Actors, ActorDies(a) PROVE RepairInv'
<1>1. /\ Becomes(a, AtRest)
      /\ UNCHANGED <<repairAt, healthAt, answered, looked, overtaken, straddled>>
  BY DEF ActorDies, orchestrator, repairHistory
<1>2. actor'[a] = AtRest
  BY <1>1 DEF Becomes, RepairInv, RepairTyped
<1>3. RunInOrder(a)' /\ ScanInOrder(a)'
  BY <1>2, AtRestTyped, StageNumbers DEF RunInOrder, ScanInOrder, Scanning, EndsPass, ActorAt, Ready
<1> QED
  BY <1>1, <1>3, AtRestTyped, OneMoves

(* scan moves the cursor of data_health to where it has scanned, or back   *)
(* to the start when there was nothing left.                               *)
LEMMA EndHealthScanStep ==
  ASSUME RepairInv, NEW a \in Actors, EndHealthScan(a) PROVE RepairInv'
<1> DEFINE from == actor[a].from
<1> DEFINE new == IF a \in Scanners THEN AtRest
                  ELSE [actor[a] EXCEPT !.at = "close", !.to = IF CycleComplete(from) THEN Over ELSE Stay]
<1>1. /\ Scanning(a) /\ ActorAt(a, "batch") /\ healthAt' = HealthAfter(from) /\ looked' = looked \cup Unscanned(from)
      /\ Becomes(a, new)
      /\ UNCHANGED <<repairAt, answered, overtaken, straddled>>
  BY DEF EndHealthScan, Scanning, orchestrator
<1>2. actor[a] \in Work /\ from \in 0 .. Catalogued
  BY DEF RepairInv, RepairTyped, Work
<1>3. /\ HealthAfter(from) \in 0 .. Catalogued
      /\ Unscanned(from) \subseteq 1 .. Catalogued
      /\ 1 .. HealthAfter(from) \subseteq (1 .. from) \cup Unscanned(from)
      /\ CycleComplete(from) => from = Catalogued
  BY <1>2, ScanPasses
<1>4. /\ new \in Work
      /\ a \in Scanners => new = AtRest
      /\ a \notin Scanners => /\ new.at = "close" /\ new.stage = HealthPass
                              /\ new.to \in {Stay, Over}
                              /\ new.to = Over => CycleComplete(from)
  <2>1. Over \in Nat /\ Stay \in Nat /\ Stay # Over
    BY StageNumbers
  <2>2. CASE a \in Scanners
    BY <2>2, AtRestTyped
  <2>3. CASE a \notin Scanners
    BY <1>1, <1>2, <2>1, <2>3 DEF Work, Scanning
  <2> QED
    BY <2>2, <2>3
<1>5. /\ actor' \in [Actors -> Work] /\ actor'[a] = new
      /\ \A b \in Actors \ {a} : actor'[b] = actor[b]
  BY <1>1, <1>4 DEF Becomes, RepairInv, RepairTyped
<1> HIDE DEF new, from
<1>6. RepairTyped'
  <2>1. \A s \in Scanners : actor'[s].at \in {"rest", "batch"}
    BY <1>4, <1>5, AtRestTyped DEF RepairInv, RepairTyped, Actors
  <2> QED
    BY <1>1, <1>3, <1>5, <2>1 DEF RepairInv, RepairTyped
<1>7. Ready(repairAt)'
  BY <1>1 DEF Ready, RepairInv
<1>8. RunInOrder(a)'
  <2>1. CASE a \in Scanners
    BY <1>4, <1>5, <2>1, AtRestTyped, StageNumbers DEF RunInOrder, ActorAt, Ready
  <2>2. CASE a \notin Scanners
    <3>1. Ready(HealthPass)
      BY <1>1, <2>2 DEF RepairInv, RunInOrder, Scanning
    <3>2. Ready(HealthPass)' /\ Ready(Over)' /\ Ready(Stay)'
      BY <1>1, <3>1, StageNumbers DEF Ready
    <3>3. Ready(actor[a].stage)' /\ Ready(actor[a].to)'
      BY <1>4, <1>5, <2>2, <3>2 DEF Ready
    <3> QED
      BY <1>4, <1>5, <2>2, <3>3, StageNumbers DEF RunInOrder, ActorAt
  <2> QED
    BY <2>1, <2>2
<1>9. ASSUME NEW b \in Actors \ {a} PROVE RunInOrder(b)'
  BY <1>1, <1>5 DEF RepairInv, RunInOrder, Ready, ActorAt
<1>10. ASSUME ~straddled
       PROVE  /\ 1 .. healthAt' \subseteq looked'
              /\ \A b \in Actors : ScanInOrder(b)'
              /\ repairAt >= Over /\ ~overtaken => looked' = 1 .. Catalogued
  <2>1. 1 .. from \subseteq looked /\ looked \subseteq looked' /\ looked' \subseteq 1 .. Catalogued
    BY <1>1, <1>3, <1>10 DEF RepairInv, RepairTyped, ScanInOrder, from
  <2>2. 1 .. healthAt' \subseteq looked'
    BY <1>1, <1>3, <2>1
  <2>3. CycleComplete(from) => looked' = 1 .. Catalogued
    BY <1>3, <2>1
  <2>4. ScanInOrder(a)'
    BY <1>4, <1>5, <2>3, AtRestTyped DEF ScanInOrder, Scanning, EndsPass, ActorAt
  <2>5. ASSUME NEW b \in Actors \ {a} PROVE ScanInOrder(b)'
    <3>1. ScanInOrder(b) /\ actor'[b] = actor[b]
      BY <1>5, <1>10 DEF RepairInv
    <3> QED
      BY <2>1, <3>1 DEF ScanInOrder, Scanning, EndsPass, ActorAt
  <2> QED
    BY <1>10, <2>1, <2>2, <2>4, <2>5 DEF RepairInv
<1> QED
  BY <1>1, <1>6, <1>7, <1>8, <1>9, <1>10 DEF RepairInv

(* The end of the task writes what was ready; the research starts the      *)
(* health pass anew unless it did when it read the row, and a scan in      *)
(* flight then is straddled.                                               *)
LEMMA CloseRunStep == ASSUME RepairInv, NEW r \in Runners, CloseRun(r) PROVE RepairInv'
<1> DEFINE new == [AtRest EXCEPT !.at = "send"]
<1> DEFINE anew == actor[r].stage = Research /\ actor[r].to # Stay /\ actor[r].from # 0
<1>1. /\ ActorAt(r, "close") /\ Becomes(r, new)
      /\ repairAt' = IF actor[r].to = Stay THEN repairAt ELSE actor[r].to
      /\ anew => healthAt' = 0 /\ looked' = {} /\ straddled' = (\E a \in Actors \ {r} : InScan(a))
      /\ ~anew => UNCHANGED <<healthAt, looked, straddled>>
      /\ UNCHANGED <<answered, overtaken>>
  BY DEF CloseRun, PassBegins, RepairAfter
<1>0. /\ r \in Actors /\ r \notin Scanners /\ actor[r] \in Work /\ RunInOrder(r)
  BY RepairAssumption DEF Actors, RepairInv, RepairTyped
<1>2. /\ new \in Work /\ new.at = "send" /\ new.stage = 0 /\ new.to = Stay
  BY AtRestTyped DEF AtRest, Work
<1>3. /\ actor' \in [Actors -> Work] /\ actor'[r] = new
      /\ \A b \in Actors \ {r} : actor'[b] = actor[b]
  BY <1>0, <1>1, <1>2 DEF Becomes, RepairInv, RepairTyped
<1> HIDE DEF new, anew
<1>4. repairAt' \in Nat /\ Ready(repairAt)'
  BY <1>0, <1>1 DEF Ready, RunInOrder, RepairInv, RepairTyped, Work
<1>5. healthAt' \in 0 .. Catalogued /\ looked' \subseteq 1 .. Catalogued /\ straddled' \in BOOLEAN
  <2>1. CASE anew
    BY <1>1, <2>1, RepairAssumption
  <2>2. CASE ~anew
    BY <1>1, <2>2 DEF RepairInv, RepairTyped
  <2> QED
    BY <2>1, <2>2
<1>6. RepairTyped'
  <2>1. \A s \in Scanners : actor'[s].at \in {"rest", "batch"}
    BY <1>0, <1>3 DEF RepairInv, RepairTyped, Actors
  <2> QED
    BY <1>1, <1>3, <1>4, <1>5, <2>1 DEF RepairInv, RepairTyped
<1>7. RunInOrder(r)' /\ ScanInOrder(r)'
  BY <1>2, <1>3, StageNumbers DEF RunInOrder, ScanInOrder, Scanning, EndsPass, ActorAt, Ready
<1>8. ASSUME NEW b \in Actors \ {r} PROVE RunInOrder(b)'
  BY <1>1, <1>3 DEF RepairInv, RunInOrder, Ready, ActorAt
<1>9. ASSUME ~straddled'
      PROVE  /\ 1 .. healthAt' \subseteq looked'
             /\ \A b \in Actors : ScanInOrder(b)'
             /\ repairAt' >= Over /\ ~overtaken' => looked' = 1 .. Catalogued
  <2>1. CASE anew
    <3>1. repairAt' = HealthPass /\ healthAt' = 0 /\ \A a \in Actors \ {r} : ~InScan(a)
      BY <1>0, <1>1, <1>9, <2>1 DEF RunInOrder, anew
    <3>2. ASSUME NEW b \in Actors \ {r} PROVE ScanInOrder(b)'
      BY <1>3, <3>1 DEF InScan, ScanInOrder, Scanning, EndsPass, ActorAt
    <3> QED
      BY <1>7, <3>1, <3>2, StageNumbers
  <2>2. CASE ~anew
    <3>1. UNCHANGED <<healthAt, looked, straddled>> /\ ~straddled
      BY <1>1, <1>9, <2>2
    <3>2. ASSUME NEW b \in Actors \ {r} PROVE ScanInOrder(b)'
      BY <1>3, <3>1 DEF RepairInv, ScanInOrder, Scanning, EndsPass, ActorAt
    <3>3. ASSUME repairAt' >= Over, ~overtaken' PROVE looked' = 1 .. Catalogued
      <4>1. CASE actor[r].to = Stay
        BY <1>1, <3>1, <3>3, <4>1 DEF RepairInv
      <4>2. CASE actor[r].to # Stay
        <5>1. actor[r].to >= Over /\ actor[r].stage \in 0 .. HealthPass
          BY <1>0, <1>1, <3>3, <4>2 DEF Work
        <5>2. actor[r].stage = HealthPass /\ actor[r].to = Over
          BY <1>0, <1>1, <3>3, <4>2, <5>1, StageNumbers DEF RunInOrder, Work
        <5> QED
          BY <1>0, <1>1, <3>1, <5>2 DEF RepairInv, ScanInOrder, EndsPass
      <4> QED
        BY <4>1, <4>2
    <3> QED
      BY <1>7, <3>1, <3>2, <3>3 DEF RepairInv
  <2> QED
    BY <2>1, <2>2
<1> QED
  BY <1>4, <1>6, <1>7, <1>8, <1>9 DEF RepairInv

LEMMA RepairInvStep == RepairInv /\ [RepairNext]_repairVars => RepairInv'
<1> SUFFICES ASSUME RepairInv, [RepairNext]_repairVars PROVE RepairInv'
  OBVIOUS
<1>1. ASSUME NEW r \in Runners, \/ BeginRun(r) \/ BatchEnds(r) \/ Reload(r) \/ ReadHealth(r)
                               \/ CloseRun(r) \/ SendAgain(r)
      PROVE  RepairInv'
  BY <1>1, BeginRunStep, BatchEndsStep, ReloadStep, ReadHealthStep, CloseRunStep, SendAgainStep
<1>2. ASSUME NEW s \in Scanners, BeginHealthScan(s) PROVE RepairInv'
  BY <1>2, BeginHealthScanStep
<1>3. ASSUME NEW a \in Actors, EndHealthScan(a) \/ ActorDies(a) PROVE RepairInv'
  BY <1>3, EndHealthScanStep, ActorDiesStep
<1>4. CASE StartRepair \/ UNCHANGED repairVars
  <2>1. UNCHANGED <<repairAt, actor, healthAt, answered, looked, overtaken, straddled>>
    BY <1>4 DEF StartRepair, repairVars, orchestrator, repairHistory
  <2> QED
    BY <2>1 DEF RepairInv, RepairTyped, Ready, RunInOrder, ScanInOrder, Scanning, EndsPass, ActorAt
<1> QED
  BY <1>1, <1>2, <1>3, <1>4 DEF RepairNext

LEMMA RepairInvHolds == RepairSpec => []RepairInv
<1>1. RepairInit => RepairInv
  BY RepairInvInit
<1>2. RepairInv /\ [RepairNext]_repairVars => RepairInv'
  BY RepairInvStep
<1> QED
  BY <1>1, <1>2, PTL DEF RepairSpec

(* However many chains of the orchestrator there are and whatever dies, no *)
(* stage is passed over that has not answered that it is done, unless a    *)
(* batch was overtaken (repair_orchestrator).                              *)
THEOREM RepairStagesInSequence == RepairSpec => []StagesInSequence
<1>1. RepairInv => StagesInSequence
  BY DEF RepairInv, Ready, StagesInSequence
<1> QED
  BY <1>1, RepairInvHolds, PTL

(* When the orchestrator is through, every movie was scanned since the     *)
(* research was done, by whichever of the two kinds of scan                *)
(* (repair_orchestrator, DataHealthService.scan).                          *)
THEOREM RepairEndsWithWholePass == RepairSpec => []HealthPassWhole
<1>1. RepairInv => HealthPassWhole
  BY DEF RepairInv, HealthPassWhole
<1> QED
  BY <1>1, RepairInvHolds, PTL

-----------------------------------------------------------------------------
(* A chain of the orchestrator is a message or a run: only a start and a   *)
(* lost host make one more.                                                *)
BusyRunners == {r \in Runners : actor[r].at # "rest"}

ChainsCounted ==
  /\ status \in {"IDLE", "RUNNING", "COMPLETE"}
  /\ answered \subseteq 0 .. Research
  /\ repairStarts \in 0 .. MaxRepairStarts /\ repairFaults \in 0 .. MaxRepairFaults
  /\ runs \in Nat
  /\ runs + Cardinality(BusyRunners) <= repairStarts + repairFaults

LEMMA BusyFinite == IsFiniteSet(BusyRunners) /\ Cardinality(BusyRunners) \in Nat
BY RepairAssumption, FS_Subset, FS_CardinalityType DEF BusyRunners

LEMMA BusyAfter ==
  ASSUME RepairInv, NEW a \in Actors, NEW new \in Work, Becomes(a, new)
  PROVE  /\ a \in Scanners => BusyRunners' = BusyRunners
         /\ a \in Runners /\ new.at # "rest" => BusyRunners' = BusyRunners \cup {a}
         /\ a \in Runners /\ new.at = "rest" => BusyRunners' = BusyRunners \ {a}
<1>1. actor'[a] = new /\ \A b \in Actors \ {a} : actor'[b] = actor[b]
  BY DEF Becomes, RepairInv, RepairTyped
<1> QED
  BY <1>1, RepairAssumption DEF BusyRunners, Actors

LEMMA CountedAfter ==
  ASSUME RepairInv, ChainsCounted, NEW r \in Runners, NEW new \in Work, Becomes(r, new)
  PROVE  Cardinality(BusyRunners') =
           IF new.at # "rest" /\ actor[r].at = "rest" THEN Cardinality(BusyRunners) + 1
           ELSE IF new.at = "rest" /\ actor[r].at # "rest" THEN Cardinality(BusyRunners) - 1
           ELSE Cardinality(BusyRunners)
<1>1. r \in Actors /\ (r \in BusyRunners <=> actor[r].at # "rest")
  BY DEF Actors, BusyRunners
<1>2. /\ new.at # "rest" => BusyRunners' = BusyRunners \cup {r}
      /\ new.at = "rest" => BusyRunners' = BusyRunners \ {r}
  BY <1>1, BusyAfter
<1> QED
  BY <1>1, <1>2, BusyFinite, FS_AddElement, FS_RemoveElement

LEMMA ChainsStep ==
  ASSUME RepairInv, ChainsCounted, [RepairNext]_repairVars
  PROVE  ChainsCounted'
<1> DEFINE busy == Cardinality(BusyRunners)
<1>0. busy \in Nat /\ MaxRepairStarts \in Nat /\ MaxRepairFaults \in Nat
  BY BusyFinite, RepairAssumption
<1>1. CASE UNCHANGED repairVars
  BY <1>1 DEF repairVars, orchestrator, repairHistory, ChainsCounted, BusyRunners
<1>2. CASE StartRepair
  <2>1. BusyRunners' = BusyRunners /\ UNCHANGED <<status, answered, repairFaults>>
        /\ runs' = runs + 1 /\ repairStarts < MaxRepairStarts /\ repairStarts' = repairStarts + 1
    BY <1>2 DEF StartRepair, BusyRunners, orchestrator, repairHistory
  <2> QED
    BY <1>0, <2>1 DEF ChainsCounted
<1>3. ASSUME NEW r \in Runners, BeginRun(r) PROVE ChainsCounted'
  <2>1. /\ actor[r].at = "rest" /\ runs > 0 /\ runs' = runs - 1
        /\ UNCHANGED <<answered, repairStarts, repairFaults>> /\ status' \in {"COMPLETE", status}
    BY <1>3 DEF BeginRun, ActorAt, repairHistory
  <2>2. Cardinality(BusyRunners') \in {busy, busy + 1}
    <3>1. CASE repairAt >= Over
      BY <1>3, <3>1 DEF BeginRun, BusyRunners
    <3>2. CASE ~(repairAt >= Over)
      <4> DEFINE new == [at |-> "batch", stage |-> repairAt, to |-> Stay,
                         from |-> IF repairAt = HealthPass THEN healthAt ELSE 0]
      <4>1. Becomes(r, new) /\ new \in Work /\ new.at # "rest"
        BY <1>3, <3>2, StageNumbers, RepairAssumption DEF BeginRun, Work, RepairInv, RepairTyped
      <4> HIDE DEF new
      <4> QED
        BY <2>1, <4>1, CountedAfter
    <3> QED
      BY <3>1, <3>2
  <2> QED
    BY <1>0, <2>1, <2>2 DEF ChainsCounted
<1>4. ASSUME NEW r \in Runners, NEW new \in Work, Becomes(r, new),
             actor[r].at # "rest", new.at # "rest",
             UNCHANGED <<runs, repairStarts, repairFaults>>,
             status' \in {"RUNNING", status}, answered' \subseteq 0 .. Research
      PROVE  ChainsCounted'
  <2>1. Cardinality(BusyRunners') = busy
    BY <1>4, CountedAfter
  <2> QED
    BY <1>0, <1>4, <2>1 DEF ChainsCounted
<1>5. ASSUME NEW r \in Runners, BatchEnds(r) \/ Reload(r) \/ ReadHealth(r) \/ CloseRun(r)
      PROVE  ChainsCounted'
  <2>1. r \in Actors /\ actor' \in [Actors -> Work] /\ actor[r] \in Work
    <3>1. RepairInv'
      BY <1>5, BatchEndsStep, ReloadStep, ReadHealthStep, CloseRunStep
    <3> QED
      BY <3>1 DEF Actors, RepairInv, RepairTyped
  <2>2. \E new : Becomes(r, new) /\ new.at # "rest"
    <3>1. CASE BatchEnds(r)
      <4>1. [actor[r] EXCEPT !.at = "close"].at = "close" /\ [actor[r] EXCEPT !.at = "reload"].at = "reload"
        BY <2>1 DEF Work
      <4> QED
        BY <3>1, <4>1 DEF BatchEnds
    <3>2. CASE Reload(r)
      <4>1. [actor[r] EXCEPT !.at = "close", !.to = repairAt + 1].at = "close"
        BY <2>1 DEF Work
      <4> QED
        BY <3>2, <4>1 DEF Reload
    <3>3. CASE ReadHealth(r)
      <4>1. [actor[r] EXCEPT !.at = "close", !.to = HealthPass, !.from = healthAt].at = "close"
        BY <2>1 DEF Work
      <4> QED
        BY <3>3, <4>1 DEF ReadHealth
    <3>4. CASE CloseRun(r)
      BY <3>4 DEF CloseRun, AtRest
    <3> QED
      BY <1>5, <3>1, <3>2, <3>3, <3>4
  <2>3. PICK new : Becomes(r, new) /\ new.at # "rest"
    BY <2>2
  <2>4. new \in Work
    BY <2>1, <2>3 DEF Becomes, RepairInv, RepairTyped
  <2>5. actor[r].at # "rest" /\ UNCHANGED <<runs, repairStarts, repairFaults>> /\ status' \in {"RUNNING", status}
    BY <1>5 DEF BatchEnds, Reload, ReadHealth, CloseRun, ActorAt, orchestrator
  <2>6. answered' \subseteq 0 .. Research
    <3>1. CASE BatchEnds(r)
      <4>1. actor[r].stage \in 0 .. Research
        BY <2>1, <3>1, StageNumbers DEF BatchEnds, Work
      <4> QED
        BY <3>1, <4>1 DEF BatchEnds, ChainsCounted
    <3>2. CASE Reload(r) \/ ReadHealth(r) \/ CloseRun(r)
      BY <3>2 DEF Reload, ReadHealth, CloseRun, ChainsCounted
    <3> QED
      BY <1>5, <3>1, <3>2
  <2> QED
    BY <1>4, <2>3, <2>4, <2>5, <2>6
<1>6. ASSUME NEW r \in Runners, SendAgain(r) PROVE ChainsCounted'
  <2>1. /\ Becomes(r, AtRest) /\ actor[r].at # "rest" /\ runs' = runs + 1
        /\ UNCHANGED <<status, answered, repairStarts, repairFaults>>
    BY <1>6 DEF SendAgain, ActorAt, orchestrator, repairHistory
  <2>2. Cardinality(BusyRunners') = busy - 1
    BY <2>1, AtRestTyped, CountedAfter
  <2> QED
    BY <1>0, <2>1, <2>2 DEF ChainsCounted
<1>7. ASSUME NEW a \in Actors, ActorDies(a) PROVE ChainsCounted'
  <2>1. /\ Becomes(a, AtRest) /\ actor[a].at # "rest"
        /\ repairFaults < MaxRepairFaults /\ repairFaults' = repairFaults + 1
        /\ runs' \in IF a \in Scanners THEN {runs}
                     ELSE runs .. runs + (IF ActorAt(a, "send") THEN 2 ELSE 1)
        /\ UNCHANGED <<status, answered, repairStarts>>
    BY <1>7 DEF ActorDies, ActorAt, orchestrator, repairHistory
  <2>2. CASE a \in Scanners
    <3>1. BusyRunners' = BusyRunners
      BY <2>1, <2>2, AtRestTyped, BusyAfter
    <3> QED
      BY <1>0, <2>1, <2>2, <3>1 DEF ChainsCounted
  <2>3. CASE a \notin Scanners
    <3>1. a \in Runners /\ Cardinality(BusyRunners') = busy - 1
      BY <2>1, <2>3, AtRestTyped, CountedAfter DEF Actors
    <3> QED
      BY <1>0, <2>1, <2>3, <3>1 DEF ChainsCounted
  <2> QED
    BY <2>2, <2>3
<1>8. ASSUME NEW s \in Scanners, NEW new \in Work, Becomes(s, new),
             UNCHANGED <<status, runs, answered, repairStarts, repairFaults>>
      PROVE  ChainsCounted'
  <2>1. BusyRunners' = BusyRunners
    BY <1>8, BusyAfter DEF Actors
  <2> QED
    BY <1>8, <2>1 DEF ChainsCounted
<1>9. ASSUME NEW a \in Actors, EndHealthScan(a) PROVE ChainsCounted'
  <2>0. UNCHANGED <<status, runs, answered, repairStarts, repairFaults>>
    BY <1>9 DEF EndHealthScan, orchestrator
  <2>1. CASE a \in Scanners
    <3>1. Becomes(a, AtRest)
      BY <1>9, <2>1 DEF EndHealthScan
    <3> QED
      BY <1>8, <2>0, <2>1, <3>1, AtRestTyped
  <2>2. CASE a \notin Scanners
    <3> DEFINE new == [actor[a] EXCEPT !.at = "close",
                                       !.to = IF CycleComplete(actor[a].from) THEN Over ELSE Stay]
    <3>1. a \in Runners /\ Becomes(a, new) /\ actor[a].at # "rest" /\ actor[a] \in Work
      BY <1>9, <2>2 DEF EndHealthScan, Actors, ActorAt, RepairInv, RepairTyped
    <3>2. new \in Work /\ new.at # "rest"
      BY <3>1, StageNumbers DEF Work
    <3> HIDE DEF new
    <3> QED
      BY <1>4, <2>0, <3>1, <3>2 DEF ChainsCounted
  <2> QED
    BY <2>1, <2>2
<1>10. ASSUME NEW s \in Scanners, BeginHealthScan(s) PROVE ChainsCounted'
  <2> DEFINE new == [AtRest EXCEPT !.at = "batch", !.from = healthAt]
  <2>1. healthAt \in 0 .. Catalogued /\ 0 \in 0 .. HealthPass /\ Stay \in Nat
    BY StageNumbers DEF RepairInv, RepairTyped
  <2>2. new \in Work
    BY <2>1 DEF AtRest, Work
  <2>3. Becomes(s, new) /\ UNCHANGED <<status, runs, answered, repairStarts, repairFaults>>
    BY <1>10 DEF BeginHealthScan, orchestrator, repairHistory
  <2> HIDE DEF new
  <2> QED
    BY <1>8, <2>2, <2>3
<1> QED
  BY <1>1, <1>2, <1>3, <1>5, <1>6, <1>7, <1>9, <1>10 DEF RepairNext

(* Every value of the orchestrator is one its code can put there; above    *)
(* all, there are no more messages of its task than starts and lost hosts  *)
(* account for (repair_orchestrator sends itself again once).              *)
THEOREM RepairTypesHold == RepairSpec => []RepairTypeOK
<1>1. RepairInit => ChainsCounted
  <2> SUFFICES ASSUME RepairInit PROVE ChainsCounted
    OBVIOUS
  <2>1. BusyRunners = {}
    BY AtRestTyped DEF RepairInit, BusyRunners, Actors
  <2>2. Cardinality(BusyRunners) = 0
    BY <2>1, FS_EmptySet
  <2> QED
    BY <2>2, RepairAssumption DEF RepairInit, ChainsCounted
<1>2. RepairInv /\ ChainsCounted /\ [RepairNext]_repairVars => ChainsCounted'
  BY ChainsStep
<1>3. RepairInv /\ ChainsCounted => RepairTypeOK
  <2> SUFFICES ASSUME RepairInv, ChainsCounted PROVE RepairTypeOK
    OBVIOUS
  <2>1. runs \in 0 .. MaxRepairStarts + MaxRepairFaults
    BY BusyFinite, RepairAssumption DEF ChainsCounted
  <2>2. DOMAIN actor = Actors /\ \A a \in Actors : actor[a] \in Work
    BY DEF RepairInv, RepairTyped
  <2> QED
    BY <2>1, <2>2 DEF RepairInv, RepairTyped, ChainsCounted, RepairTypeOK, Work
<1> QED
  BY <1>1, <1>2, <1>3, RepairInvHolds, PTL DEF RepairSpec

-----------------------------------------------------------------------------
(* The parts together.  A step of the whole is a step of each part or      *)
(* leaves it alone, so each keeps what it keeps alone.                     *)
LEMMA PartSteps ==
  [PartsNext]_partVars =>
    /\ [RequestNext]_requestVars /\ [DiscoveryNext]_discoveryVars
    /\ [CatalogueNext]_catalogueVars /\ [ReconNext]_reconVars
    /\ [ControlNext]_controlVars /\ [ImageNext]_imageVars
    /\ [NoticeNext]_noticeVars /\ [RepairNext]_repairVars
    /\ UNCHANGED part
<1> QED
  BY DEF PartsNext, partVars

(* Every variable of every part holds what its code can put there, with    *)
(* its bounds: the requests, discovery, the import, the evidence, the      *)
(* provider's control, artwork, the notices and the repair.                *)
THEOREM PartsTypesHold == PartsSpec => []PartsTypeOK
<1>1. PartsInit => /\ RequestInit /\ DiscoveryInit /\ CatalogueInit /\ ReconInit
                   /\ ControlInit /\ ImageInit /\ NoticeInit /\ RepairInit /\ part \in Parts
  BY DEF PartsInit
<1>2. PartsSpec => RequestSpec /\ DiscoverySpec
  BY <1>1, PartSteps, PTL DEF PartsSpec, RequestSpec, DiscoverySpec
<1>3. PartsSpec => CatalogueSpec /\ ReconSpec
  BY <1>1, PartSteps, PTL DEF PartsSpec, CatalogueSpec, ReconSpec
<1>4. PartsSpec => ControlSpec /\ RepairSpec
  BY <1>1, PartSteps, PTL DEF PartsSpec, ControlSpec, RepairSpec
<1>5. PartsSpec => []ImageTypeOK
  BY <1>1, PartSteps, ImageTypesKept, PTL DEF PartsSpec
<1>6. PartsSpec => []NoticeTypeOK
  BY <1>1, PartSteps, NoticeTypesKept, PTL DEF PartsSpec
<1>7. PartsSpec => []RequestTypeOK /\ []DiscoveryTypeOK
  BY <1>2, RequestsTyped, DiscoveryTypesHold, PTL
<1>8. PartsSpec => []CatalogueTypeOK /\ []ReconTypeOK
  BY <1>3, CatalogueTypesHold, ReconTypesHold, PTL
<1>9. PartsSpec => []ControlTypeOK /\ []RepairTypeOK
  BY <1>4, ControlTypesHold, RepairTypesHold, PTL
<1>10. PartsSpec => [](part \in Parts)
  <2>1. part \in Parts /\ UNCHANGED part => (part \in Parts)'
    OBVIOUS
  <2> QED
    BY <1>1, <2>1, PartSteps, PTL DEF PartsSpec
<1>11. /\ RequestTypeOK /\ DiscoveryTypeOK /\ CatalogueTypeOK /\ ReconTypeOK
       /\ ControlTypeOK /\ ImageTypeOK /\ NoticeTypeOK /\ RepairTypeOK /\ part \in Parts
       => PartsTypeOK
  BY DEF PartsTypeOK
<1> QED
  BY <1>5, <1>6, <1>7, <1>8, <1>9, <1>10, <1>11, PTL
=============================================================================
