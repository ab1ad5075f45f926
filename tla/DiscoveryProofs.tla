---------------------------- MODULE DiscoveryProofs ----------------------------
(***************************************************************************)
(* While no read of a configuration object is lost for good, the scans     *)
(* under way have seen a growing set of configuration objects, each scan   *)
(* all that there were when the mapper answered it.  Of two scans with one *)
(* answer each, both are therefore about the same object, which is why no  *)
(* scan makes a second volume object and ends the daemon.                  *)
(***************************************************************************)
EXTENDS Discovery, FiniteSetTheorems, TLAPS

(* A read in its retry delay has a retry left; a scan that has ended waits *)
(* for nothing.                                                            *)
ReadsOK ==
  \A s \in ScanIds, p \in Paths :
    /\ scans[s].read[p] = "wait" => scans[s].retries[p] > 0
    /\ scans[s].read[p] # "none" => scans[s].stage = "info"

(* The configuration objects scan s was told of, answered or still asked.  *)
Told(s) == scans[s].respData \cup {p \in Paths : scans[s].read[p] # "none"}

Active(s) == scans[s].stage \in {"info", "ended"}

ToldOK   == \A s \in ScanIds : Active(s) => Told(s) # {} /\ Told(s) \subseteq configs
Nested   == \A s, t \in ScanIds : Active(s) /\ Active(t) =>
              Told(s) \subseteq Told(t) \/ Told(t) \subseteq Told(s)
ObjectOK == \A p \in Paths : objects[p] = "object" =>
              p \in configs /\ \A s \in ScanIds : Active(s) => p \in Told(s)

Snapshots == "read" \notin lost => ToldOK /\ Nested /\ ObjectOK

IInv == TypeOK /\ ReadsOK /\ Snapshots

Scans == [stage    : {"free", "mapper", "info", "ended"},
          read     : [Paths -> {"none", "call", "wait"}],
          retries  : [Paths -> 0 .. MaxRetries],
          respData : SUBSET Paths]

-----------------------------------------------------------------------------
(* Errors are counted up to their bound.                                   *)
LEMMA FailTypes ==
  ASSUME errors \in 0 .. MaxErrors, Fail PROVE errors' \in 0 .. MaxErrors
BY DiscoveryAssumption DEF Fail

(* A scan that is not under way.                                           *)
LEMMA FreeIsScan == Free \in Scans
BY DiscoveryAssumption DEF Free, Scans

(* A scan with one answer or none.                                         *)
LEMMA OneAnswer ==
  ASSUME NEW S \in SUBSET Paths, ~TooMany(S), NEW p \in S, NEW q \in S
  PROVE  p = q
<1>1. IsFiniteSet(S)
  BY DiscoveryAssumption, FS_Subset
<1>2. Cardinality(S) \in Nat /\ Cardinality(S) <= 1
  BY <1>1, FS_CardinalityType DEF TooMany
<1>3. Cardinality(S) # 0
  BY <1>1, FS_EmptySet
<1>4. Cardinality(S) = 1
  BY <1>2, <1>3
<1>5. PICK x : S = {x}
  BY <1>1, <1>4, FS_Singleton
<1> QED BY <1>5

-----------------------------------------------------------------------------
(* The types, and the reads of each scan.                                  *)
LEMMA InitIInv == Init => IInv
<1> SUFFICES ASSUME Init PROVE IInv
  OBVIOUS
<1>1. \A s \in ScanIds : scans[s] = Free
  BY DEF Init
<1>2. TypeOK
  <2>1. scans \in [ScanIds -> Scans]
    BY FreeIsScan DEF Init
  <2>2. queued \in 0 .. MaxQueued /\ errors \in 0 .. MaxErrors
    BY DiscoveryAssumption DEF Init, MaxQueued
  <2>3. objects \in [Paths -> {"absent", "null", "object"}]
    BY DEF Init
  <2> QED BY <2>1, <2>2, <2>3 DEF Init, TypeOK, Scans
<1>3. ReadsOK
  BY <1>1 DEF ReadsOK, Free
<1>4. Snapshots
  <2>1. \A s \in ScanIds : ~Active(s)
    BY <1>1 DEF Active, Free
  <2>2. \A p \in Paths : objects[p] = "absent"
    BY DEF Init
  <2> QED BY <2>1, <2>2 DEF Snapshots, ToldOK, Nested, ObjectOK
<1> QED BY <1>2, <1>3, <1>4 DEF IInv

(* A death of the daemon leaves what it starts with.                       *)
LEMMA DieKeeps == TypeOK /\ Die /\ (Fail \/ UNCHANGED errors) => IInv'
<1> SUFFICES ASSUME TypeOK, Die, Fail \/ UNCHANGED errors PROVE IInv'
  OBVIOUS
<1>1. \A s \in ScanIds : scans'[s] = Free
  BY DEF Die
<1>2. TypeOK'
  <2>1. scans' \in [ScanIds -> Scans]
    BY FreeIsScan DEF Die
  <2>2. queued' \in 0 .. MaxQueued /\ errors' \in 0 .. MaxErrors
    BY FailTypes DEF Die, MaxQueued, TypeOK
  <2>3. objects' \in [Paths -> {"absent", "null", "object"}]
    BY DEF Die
  <2> QED BY <2>1, <2>2, <2>3 DEF Die, TypeOK, Scans
<1>3. ReadsOK'
  BY <1>1 DEF ReadsOK, Free
<1>4. Snapshots'
  <2>1. \A s \in ScanIds : ~Active(s)'
    BY <1>1 DEF Active, Free
  <2>2. \A p \in Paths : objects'[p] = "absent"
    BY DEF Die
  <2> QED BY <2>1, <2>2 DEF Snapshots, ToldOK, Nested, ObjectOK
<1> QED BY <1>2, <1>3, <1>4 DEF IInv

(* A scan that gives up its place, or asks the mapper, is not active: the  *)
(* others have been told what they had been told.                          *)
LEMMA InactiveKeeps ==
  ASSUME IInv, NEW s \in ScanIds, NEW new \in Scans,
         new.stage \in {"free", "mapper"}, \A p \in Paths : new.read[p] = "none",
         scans' = [scans EXCEPT ![s] = new],
         configs' = configs, objects' = objects, lost \subseteq lost'
  PROVE  ReadsOK' /\ Snapshots'
<1>0. scans \in [ScanIds -> Scans]
  BY DEF IInv, TypeOK, Scans
<1>1. scans'[s] = new /\ \A t \in ScanIds \ {s} : scans'[t] = scans[t]
  BY <1>0
<1>2. ReadsOK'
  BY <1>1 DEF IInv, ReadsOK
<1>3. ~Active(s)'
  BY <1>1 DEF Active
<1>4. \A t \in ScanIds \ {s} : Active(t)' = Active(t) /\ Told(t)' = Told(t)
  BY <1>1 DEF Active, Told
<1>5. Snapshots'
  <2> SUFFICES ASSUME "read" \notin lost' PROVE (ToldOK /\ Nested /\ ObjectOK)'
    BY DEF Snapshots
  <2>1. ToldOK /\ Nested /\ ObjectOK
    BY DEF IInv, Snapshots
  <2>2. ToldOK'
    BY <1>3, <1>4, <2>1 DEF ToldOK
  <2>3. Nested'
    BY <1>3, <1>4, <2>1 DEF Nested
  <2>4. ObjectOK'
    BY <1>3, <1>4, <2>1 DEF ObjectOK
  <2> QED BY <2>2, <2>3, <2>4
<1> QED BY <1>2, <1>5

(* A scan that goes on with all it was told of, or that starts to ask.     *)
LEMMA ToldKeeps ==
  ASSUME IInv, NEW s \in ScanIds, Active(s), NEW new \in Scans,
         new.stage \in {"info", "ended"},
         new.respData \cup {p \in Paths : new.read[p] # "none"} = Told(s)
           \/ "read" \in lost',
         scans' = [scans EXCEPT ![s] = new],
         configs' = configs, objects' = objects, lost \subseteq lost'
  PROVE  Snapshots'
<1>0. scans \in [ScanIds -> Scans]
  BY DEF IInv, TypeOK, Scans
<1>1. scans'[s] = new /\ \A t \in ScanIds \ {s} : scans'[t] = scans[t]
  BY <1>0
<1> SUFFICES ASSUME "read" \notin lost' PROVE (ToldOK /\ Nested /\ ObjectOK)'
  BY DEF Snapshots
<1>2. ToldOK /\ Nested /\ ObjectOK
  BY DEF IInv, Snapshots
<1>3. \A t \in ScanIds : Active(t)' = Active(t) /\ Told(t)' = Told(t)
  BY <1>1 DEF Active, Told
<1> QED BY <1>2, <1>3 DEF ToldOK, Nested, ObjectOK

(* The events that touch no scan.                                          *)
LEMMA EventsKeep ==
  ASSUME IInv, UNCHANGED <<scans, objects, lost>>, configs \subseteq configs'
  PROVE  ReadsOK' /\ Snapshots'
<1>1. \A t \in ScanIds : Active(t)' = Active(t) /\ Told(t)' = Told(t)
  BY DEF Active, Told
<1>2. ReadsOK'
  BY DEF IInv, ReadsOK
<1> QED BY <1>1, <1>2 DEF IInv, Snapshots, ToldOK, Nested, ObjectOK

-----------------------------------------------------------------------------
(* The actions.                                                            *)
LEMMA ScanFields ==
  ASSUME TypeOK, NEW s \in ScanIds
  PROVE  /\ scans \in [ScanIds -> Scans] /\ scans[s] \in Scans
         /\ scans[s].respData \in SUBSET Paths
         /\ scans[s].read \in [Paths -> {"none", "call", "wait"}]
         /\ scans[s].retries \in [Paths -> 0 .. MaxRetries]
BY DEF TypeOK, Scans

(* Where a scan that saw one answer or none has something new, no volume   *)
(* exists, and the new object is one that all scans were told of.          *)
LEMMA NewIsAlone ==
  ASSUME IInv, "read" \notin lost, NEW s \in ScanIds, scans[s].stage = "ended",
         ~TooMany(scans[s].respData), NEW a \in New(s)
  PROVE  /\ New(s) = {a} /\ a \in configs
         /\ \A t \in ScanIds : Active(t) => a \in Told(t)
         /\ \A p \in Paths : objects[p] # "object"
<1>1. ToldOK /\ Nested /\ ObjectOK
  BY DEF IInv, Snapshots
<1>2. scans[s].respData \in SUBSET Paths
  BY ScanFields DEF IInv
<1>3. Told(s) = scans[s].respData /\ Active(s)
  BY DEF Told, Active, IInv, ReadsOK
<1>4. scans[s].respData = {a} /\ New(s) = {a} /\ objects[a] = "absent"
  <2>1. \A b \in scans[s].respData : b = a
    BY <1>2, OneAnswer DEF New
  <2> QED BY <2>1 DEF New
<1>5. \A t \in ScanIds : Active(t) => a \in Told(t)
  BY <1>1, <1>3, <1>4 DEF Nested, ToldOK
<1>6. a \in configs
  BY <1>1, <1>3, <1>4 DEF ToldOK
<1>7. \A p \in Paths : objects[p] = "object" => p = a
  BY <1>1, <1>3, <1>4 DEF ObjectOK
<1> QED BY <1>4, <1>5, <1>6, <1>7

(* The callback adds an object only where all who answered are one object. *)
LEMMA AttemptKeeps ==
  ASSUME IInv, NEW s \in ScanIds, scans[s].stage = "ended",
         ~TooMany(scans[s].respData), New(s) # {},
         NEW outcome \in {"object", "null"}, Attempt(s, outcome),
         Fail \/ UNCHANGED errors
  PROVE  IInv'
<1>0. /\ TypeOK /\ scans \in [ScanIds -> Scans]
      /\ scans' = [scans EXCEPT ![s] = Free]
      /\ objects' = [p \in Paths |-> IF p \in New(s) THEN outcome ELSE objects[p]]
      /\ UNCHANGED <<configs, signal, timer, queued, lost>>
  BY ScanFields DEF IInv, Attempt
<1>1. TypeOK'
  <2>1. scans' \in [ScanIds -> Scans]
    BY <1>0, FreeIsScan
  <2>2. objects' \in [Paths -> {"absent", "null", "object"}]
    BY <1>0 DEF TypeOK
  <2>3. errors' \in 0 .. MaxErrors
    BY <1>0, FailTypes DEF TypeOK
  <2> QED BY <1>0, <2>1, <2>2, <2>3 DEF TypeOK, Scans
<1>2. scans'[s] = Free /\ \A t \in ScanIds \ {s} : scans'[t] = scans[t]
  BY <1>0
<1>3. ReadsOK'
  BY <1>2 DEF IInv, ReadsOK, Free
<1>4. ~Active(s)' /\ \A t \in ScanIds \ {s} : Active(t)' = Active(t) /\ Told(t)' = Told(t)
  BY <1>2 DEF Active, Told, Free
<1>5. ASSUME "read" \notin lost PROVE (ToldOK /\ Nested /\ ObjectOK)'
  <2>1. ToldOK /\ Nested
    BY <1>5 DEF IInv, Snapshots
  <2>2. PICK a \in New(s) :
          /\ New(s) = {a} /\ a \in configs
          /\ \A t \in ScanIds : Active(t) => a \in Told(t)
          /\ \A p \in Paths : objects[p] # "object"
    BY <1>5, NewIsAlone
  <2>3. ToldOK' /\ Nested'
    BY <1>0, <1>4, <2>1 DEF ToldOK, Nested
  <2>4. ObjectOK'
    BY <1>0, <1>4, <2>2 DEF ObjectOK
  <2> QED BY <2>3, <2>4
<1> QED BY <1>0, <1>1, <1>3, <1>5 DEF IInv, Snapshots

LEMMA EndScanKeeps == ASSUME IInv, NEW s \in ScanIds, EndScan(s) PROVE IInv'
<1>0. TypeOK /\ scans[s].stage = "ended"
  BY DEF IInv, EndScan
<1>1. CASE /\ scans' = [scans EXCEPT ![s] = Free]
           /\ UNCHANGED <<configs, signal, timer, queued, objects, errors, lost>>
  <2>1. ReadsOK' /\ Snapshots'
    BY <1>1, FreeIsScan, InactiveKeeps DEF Free
  <2>2. TypeOK'
    BY <1>0, <1>1, FreeIsScan DEF TypeOK, Scans
  <2> QED BY <2>1, <2>2 DEF IInv
<1>2. ASSUME NEW outcome \in {"object", "null"}, Attempt(s, outcome),
             ~TooMany(scans[s].respData), New(s) # {}, Fail \/ UNCHANGED errors
      PROVE  IInv'
  BY <1>0, <1>2, AttemptKeeps
<1>3. CASE Die /\ (Fail \/ UNCHANGED errors)
  BY <1>0, <1>3, DieKeeps
<1> QED BY <1>1, <1>2, <1>3 DEF EndScan

(* Signals, timers and new configuration objects leave every scan alone.   *)
LEMMA EventKeeps ==
  ASSUME IInv, EventHandler \/ TimerExpires \/ (\E p \in Paths : Expose(p))
  PROVE  IInv'
<1>1. UNCHANGED <<scans, objects, lost, errors>> /\ configs \subseteq configs'
  BY DEF EventHandler, TimerExpires, Expose
<1>2. configs' \in SUBSET Paths
  BY DEF EventHandler, TimerExpires, Expose, IInv, TypeOK
<1>3. queued' \in 0 .. MaxQueued
  <2>1. queued \in 0 .. 2
    BY DEF IInv, TypeOK, MaxQueued
  <2>2. queued' = queued \/ (queued < 2 /\ queued' = queued + 1)
    BY DEF EventHandler, TimerExpires, Expose, MaxQueued
  <2> QED BY <2>1, <2>2 DEF MaxQueued
<1>4. signal' \in BOOLEAN /\ timer' \in BOOLEAN
  <2>1. signal \in BOOLEAN /\ timer \in BOOLEAN
    BY DEF IInv, TypeOK
  <2>2. signal' \in {signal, TRUE, FALSE} /\ timer' \in {timer, TRUE, FALSE}
    BY Zenon DEF EventHandler, TimerExpires, Expose
  <2> QED BY <2>1, <2>2, Zenon
<1>5. ReadsOK' /\ Snapshots'
  BY <1>1, EventsKeep
<1>6. TypeOK'
  BY <1>1, <1>2, <1>3, <1>4 DEF IInv, TypeOK
<1> QED BY <1>5, <1>6 DEF IInv

(* A scan that has only just started has read nothing.                     *)
LEMMA StartScanKeeps == ASSUME IInv, NEW s \in ScanIds, StartScan(s) PROVE IInv'
<1>0. TypeOK /\ scans[s].stage = "free"
  BY DEF IInv, StartScan
<1> DEFINE new == [scans[s] EXCEPT !.stage = "mapper"]
<1>1. new \in Scans /\ new.stage = "mapper" /\ \A p \in Paths : new.read[p] = "none"
  BY <1>0, ScanFields DEF Scans, IInv, ReadsOK
<1>2. scans' = [scans EXCEPT ![s] = new] /\ UNCHANGED <<configs, objects, lost>>
  BY DEF StartScan
<1> HIDE DEF new
<1>3. ReadsOK' /\ Snapshots'
  BY <1>1, <1>2, InactiveKeeps
<1>4. queued' \in 0 .. MaxQueued
  BY <1>0 DEF StartScan, TypeOK, MaxQueued
<1>5. scans' \in [ScanIds -> Scans]
  BY <1>0, <1>1, <1>2, ScanFields
<1> QED BY <1>0, <1>2, <1>3, <1>4, <1>5 DEF IInv, TypeOK, StartScan, Scans

(* The scan that the mapper has answered was told of all there is, so no   *)
(* less than any scan before it.                                           *)
LEMMA MapperRepliesKeeps ==
  ASSUME IInv, NEW s \in ScanIds, MapperReplies(s) PROVE IInv'
<1>0. TypeOK /\ scans[s].stage = "mapper" /\ scans \in [ScanIds -> Scans]
  BY ScanFields DEF IInv, MapperReplies
<1>1. /\ UNCHANGED <<configs, signal, timer, queued, objects>>
      /\ errors' \in 0 .. MaxErrors
      /\ lost \subseteq lost' /\ lost' \in SUBSET {"mapper", "read"}
  BY <1>0, FailTypes DEF MapperReplies, TypeOK
<1>2. CASE scans' = [scans EXCEPT ![s] = Free]
  <2>1. ReadsOK' /\ Snapshots'
    BY <1>1, <1>2, FreeIsScan, InactiveKeeps DEF Free
  <2>2. scans' \in [ScanIds -> Scans]
    BY <1>0, <1>2, FreeIsScan
  <2> QED BY <1>0, <1>1, <2>1, <2>2 DEF IInv, TypeOK, Scans
<1>3. CASE /\ configs # {} /\ UNCHANGED lost
           /\ scans' = [scans EXCEPT ![s] =
                [stage    |-> "info",
                 read     |-> [p \in Paths |-> IF p \in configs THEN "call" ELSE "none"],
                 retries  |-> [p \in Paths |-> MaxRetries],
                 respData |-> {}]]
  <2> DEFINE new == [stage    |-> "info",
                     read     |-> [p \in Paths |-> IF p \in configs THEN "call" ELSE "none"],
                     retries  |-> [p \in Paths |-> MaxRetries],
                     respData |-> {}]
  <2>1. /\ new \in Scans /\ new.stage = "info" /\ new.respData = {}
        /\ \A p \in Paths : new.read[p] = (IF p \in configs THEN "call" ELSE "none")
    BY DiscoveryAssumption DEF Scans
  <2>2. scans' = [scans EXCEPT ![s] = new]
    BY <1>3
  <2> HIDE DEF new
  <2>3. scans'[s] = new /\ \A t \in ScanIds \ {s} : scans'[t] = scans[t]
    BY <1>0, <2>2
  <2>4. scans' \in [ScanIds -> Scans]
    BY <1>0, <2>1, <2>2
  <2>5. ReadsOK'
    BY <2>1, <2>3 DEF IInv, ReadsOK
  <2>6. configs \in SUBSET Paths
    BY <1>0 DEF TypeOK
  <2>7. Told(s)' = configs
    BY <2>1, <2>3, <2>6 DEF Told
  <2>8. \A t \in ScanIds \ {s} : Active(t)' = Active(t) /\ Told(t)' = Told(t)
    BY <2>3 DEF Active, Told
  <2>9. ASSUME "read" \notin lost PROVE (ToldOK /\ Nested /\ ObjectOK)'
    <3>1. ToldOK /\ Nested /\ ObjectOK
      BY <2>9 DEF IInv, Snapshots
    <3>2. ToldOK'
      BY <1>1, <1>3, <2>7, <2>8, <3>1 DEF ToldOK
    <3>3. Nested'
      <4> SUFFICES ASSUME NEW t \in ScanIds, NEW u \in ScanIds, Active(t)', Active(u)'
                   PROVE  Told(t)' \subseteq Told(u)' \/ Told(u)' \subseteq Told(t)'
        BY DEF Nested
      <4>1. CASE t = s \/ u = s
        BY <1>1, <2>7, <3>2, <4>1 DEF ToldOK
      <4>2. CASE t # s /\ u # s
        BY <2>8, <3>1, <4>2 DEF Nested
      <4> QED BY <4>1, <4>2
    <3>4. ObjectOK'
      BY <1>1, <2>7, <2>8, <3>1 DEF ObjectOK
    <3> QED BY <3>2, <3>3, <3>4
  <2> QED BY <1>0, <1>1, <1>3, <2>4, <2>5, <2>9 DEF IInv, TypeOK, Scans, Snapshots
<1> QED BY <1>2, <1>3 DEF MapperReplies

(* The scan without p, whatever it got of it.                              *)
LEMMA WithoutFields ==
  ASSUME TypeOK, NEW s \in ScanIds, NEW p \in Paths, NEW respData \in SUBSET Paths,
         ReadsOK
  PROVE  /\ Without(s, p, respData) \in Scans
         /\ Without(s, p, respData).stage \in {"info", "ended"}
         /\ Without(s, p, respData).respData = respData
         /\ Without(s, p, respData).retries = scans[s].retries
         /\ Without(s, p, respData).read[p] = "none"
         /\ \A q \in Paths \ {p} : Without(s, p, respData).read[q] = scans[s].read[q]
         /\ \A q \in Paths : Without(s, p, respData).read[q] # "none" =>
              Without(s, p, respData).stage = "info"
BY ScanFields DEF Without, Scans

(* A path that has answered was being read before: no scan is told of more. *)
LEMMA InfoArrivesKeeps ==
  ASSUME IInv, NEW s \in ScanIds, NEW p \in Paths, InfoArrives(s, p) PROVE IInv'
<1> DEFINE new == Without(s, p, scans[s].respData \cup {p})
<1>0. TypeOK /\ ReadsOK /\ scans[s].read[p] = "call" /\ scans \in [ScanIds -> Scans]
  BY ScanFields DEF IInv, InfoArrives
<1>1. scans[s].respData \cup {p} \in SUBSET Paths
  BY <1>0, ScanFields
<1>2. /\ new \in Scans /\ new.stage \in {"info", "ended"}
      /\ new.respData = scans[s].respData \cup {p}
      /\ new.retries = scans[s].retries /\ new.read[p] = "none"
      /\ \A q \in Paths \ {p} : new.read[q] = scans[s].read[q]
      /\ \A q \in Paths : new.read[q] # "none" => new.stage = "info"
  BY <1>0, <1>1, WithoutFields
<1>3. scans' = [scans EXCEPT ![s] = new]
      /\ UNCHANGED <<configs, signal, timer, queued, objects, errors, lost>>
  BY DEF InfoArrives
<1> HIDE DEF new
<1>4. scans'[s] = new /\ \A t \in ScanIds \ {s} : scans'[t] = scans[t]
  BY <1>0, <1>3
<1>5. ReadsOK'
  BY <1>0, <1>2, <1>4 DEF ReadsOK
<1>6. Active(s)
  BY <1>0 DEF Active, ReadsOK
<1>7. new.respData \cup {q \in Paths : new.read[q] # "none"} = Told(s)
  BY <1>0, <1>2 DEF Told
<1>8. Snapshots'
  BY <1>2, <1>3, <1>6, <1>7, ToldKeeps
<1>9. scans' \in [ScanIds -> Scans]
  BY <1>0, <1>2, <1>3
<1> QED BY <1>0, <1>3, <1>5, <1>8, <1>9 DEF IInv, TypeOK, Scans

(* A path that is asked again was waited for before.                       *)
LEMMA RetryTimerKeeps ==
  ASSUME IInv, NEW s \in ScanIds, NEW p \in Paths, RetryTimer(s, p) PROVE IInv'
<1> DEFINE new == [scans[s] EXCEPT !.read[p] = "call", !.retries[p] = @ - 1]
<1>0. TypeOK /\ ReadsOK /\ scans[s].read[p] = "wait" /\ scans \in [ScanIds -> Scans]
  BY ScanFields DEF IInv, RetryTimer
<1>1. scans[s].retries[p] \in 0 .. MaxRetries /\ scans[s].retries[p] > 0
  BY <1>0, ScanFields DEF ReadsOK
<1>2. scans[s].retries[p] - 1 \in 0 .. MaxRetries
  BY <1>1, DiscoveryAssumption
<1>3. /\ new \in Scans /\ new.stage = scans[s].stage /\ new.respData = scans[s].respData
      /\ new.read[p] = "call"
      /\ \A q \in Paths \ {p} : new.read[q] = scans[s].read[q]
                                  /\ new.retries[q] = scans[s].retries[q]
  BY <1>0, <1>2, ScanFields DEF Scans
<1>4. scans' = [scans EXCEPT ![s] = new]
      /\ UNCHANGED <<configs, signal, timer, queued, objects, errors, lost>>
  BY <1>0 DEF RetryTimer
<1> HIDE DEF new
<1>5. scans'[s] = new /\ \A t \in ScanIds \ {s} : scans'[t] = scans[t]
  BY <1>0, <1>4
<1>6. ReadsOK'
  BY <1>0, <1>3, <1>5 DEF ReadsOK
<1>7. Active(s) /\ scans[s].stage = "info"
  BY <1>0 DEF Active, ReadsOK
<1>8. new.respData \cup {q \in Paths : new.read[q] # "none"} = Told(s)
  BY <1>0, <1>3 DEF Told
<1>9. Snapshots'
  BY <1>3, <1>4, <1>7, <1>8, ToldKeeps
<1>10. scans' \in [ScanIds -> Scans]
  BY <1>0, <1>3, <1>4
<1> QED BY <1>0, <1>4, <1>6, <1>9, <1>10 DEF IInv, TypeOK, Scans

(* A read that is given up counts as lost; one that is not has a retry.    *)
LEMMA InfoFailsKeeps ==
  ASSUME IInv, NEW s \in ScanIds, NEW p \in Paths, InfoFails(s, p) PROVE IInv'
<1> DEFINE retried == [scans[s] EXCEPT !.read[p] = "wait"]
           given   == Without(s, p, scans[s].respData)
<1>0. TypeOK /\ ReadsOK /\ scans[s].read[p] = "call" /\ scans \in [ScanIds -> Scans]
  BY ScanFields DEF IInv, InfoFails
<1>1. UNCHANGED <<configs, signal, timer, queued, objects>> /\ errors' \in 0 .. MaxErrors
  BY <1>0, FailTypes DEF InfoFails, TypeOK
<1>2. lost \subseteq lost' /\ lost' \in SUBSET {"mapper", "read"}
  BY <1>0 DEF InfoFails, TypeOK
<1>3. Active(s) /\ scans[s].stage = "info"
  BY <1>0 DEF Active, ReadsOK
<1>4. scans[s].retries[p] \in 0 .. MaxRetries
  BY <1>0, ScanFields
<1>5. CASE scans[s].retries[p] > 0
  <2>1. /\ retried \in Scans /\ retried.stage = "info"
        /\ retried.respData = scans[s].respData /\ retried.retries = scans[s].retries
        /\ retried.read[p] = "wait"
        /\ \A q \in Paths \ {p} : retried.read[q] = scans[s].read[q]
    BY <1>0, <1>3, ScanFields DEF Scans
  <2>2. scans' = [scans EXCEPT ![s] = retried]
    BY <1>5 DEF InfoFails, RetriesLeft
  <2> HIDE DEF retried
  <2>3. scans'[s] = retried /\ \A t \in ScanIds \ {s} : scans'[t] = scans[t]
    BY <1>0, <2>2
  <2>4. ReadsOK'
    BY <1>0, <1>5, <2>1, <2>3 DEF ReadsOK
  <2>5. retried.respData \cup {q \in Paths : retried.read[q] # "none"} = Told(s)
    BY <1>0, <2>1 DEF Told
  <2>6. Snapshots'
    BY <1>1, <1>2, <1>3, <2>1, <2>2, <2>5, ToldKeeps
  <2>7. scans' \in [ScanIds -> Scans]
    BY <1>0, <2>1, <2>2
  <2> QED BY <1>0, <1>1, <1>2, <2>4, <2>6, <2>7 DEF IInv, TypeOK, Scans
<1>6. CASE ~(scans[s].retries[p] > 0)
  <2>1. scans[s].respData \in SUBSET Paths
    BY <1>0, ScanFields
  <2>2. /\ given \in Scans /\ given.stage \in {"info", "ended"}
        /\ given.retries = scans[s].retries /\ given.read[p] = "none"
        /\ \A q \in Paths \ {p} : given.read[q] = scans[s].read[q]
        /\ \A q \in Paths : given.read[q] # "none" => given.stage = "info"
    BY <1>0, <2>1, WithoutFields
  <2>3. scans' = [scans EXCEPT ![s] = given] /\ "read" \in lost'
    <3>1. scans[s].retries[p] = 0
      BY <1>4, <1>6, DiscoveryAssumption
    <3>2. scans' = [scans EXCEPT ![s] = given]
      BY <1>6 DEF InfoFails, RetriesLeft
    <3>3. lost' = lost \cup {"read"}
      BY <3>1 DEF InfoFails
    <3> QED BY <3>2, <3>3
  <2> HIDE DEF given
  <2>4. scans'[s] = given /\ \A t \in ScanIds \ {s} : scans'[t] = scans[t]
    BY <1>0, <2>3
  <2>5. ReadsOK'
    BY <1>0, <2>2, <2>4 DEF ReadsOK
  <2>6. Snapshots'
    BY <2>3 DEF Snapshots
  <2>7. scans' \in [ScanIds -> Scans]
    BY <1>0, <2>2, <2>3
  <2> QED BY <1>0, <1>1, <1>2, <2>5, <2>6, <2>7 DEF IInv, TypeOK, Scans
<1> QED BY <1>5, <1>6

-----------------------------------------------------------------------------
(* The invariant holds of every state that the daemon reaches.             *)
LEMMA Invariance == Spec => []IInv
<1>1. IInv /\ [Next]_vars => IInv'
  <2> SUFFICES ASSUME IInv, [Next]_vars PROVE IInv'
    OBVIOUS
  <2>1. CASE \E s \in ScanIds : EndScan(s)
    BY <2>1, EndScanKeeps
  <2>2. CASE EventHandler \/ TimerExpires \/ \E p \in Paths : Expose(p)
    BY <2>2, EventKeeps
  <2>3. CASE \E s \in ScanIds : StartScan(s)
    BY <2>3, StartScanKeeps
  <2>4. CASE Reply
    BY <2>4, MapperRepliesKeeps, InfoArrivesKeeps, InfoFailsKeeps, RetryTimerKeeps DEF Reply
  <2>5. CASE UNCHANGED vars
    <3>1. TypeOK'
      BY <2>5 DEF vars, IInv, TypeOK
    <3> QED BY <2>5, <3>1, EventsKeep DEF vars, IInv
  <2> QED BY <2>1, <2>2, <2>3, <2>4, <2>5 DEF Next, Daemon
<1> QED BY <1>1, InitIInv, PTL DEF Spec

(* The state of the scans keeps its type: the retries of a read, unsigned  *)
(* in getConfig.cpp:31, never count below zero.                            *)
THEOREM TypeCorrect == Spec => []TypeOK
<1>1. IInv => TypeOK
  BY DEF IInv
<1> QED BY <1>1, Invariance, PTL

(* However many scans overlap, and whatever else fails, no scan ends the   *)
(* daemon and the volume it serves, unless a read was lost for good: the   *)
(* callback that counts only the answers of its own scan (main.cpp:44-67)  *)
(* finds nothing new beside an existing object.                            *)
THEOREM VolumeStaysWhileAllAnswer == Spec => VolumeStaysIfAllAnswer
<1>1. IInv /\ [Next]_vars => ["read" \notin lost => ObjectsStay]_vars
  <2> SUFFICES ASSUME IInv, [Next]_vars, "read" \notin lost PROVE ObjectsStay
    OBVIOUS
  <2>1. CASE UNCHANGED objects
    BY <2>1 DEF ObjectsStay
  <2>2. ASSUME NEW s \in ScanIds, EndScan(s), ~UNCHANGED objects PROVE ObjectsStay
    <3>1. scans[s].stage = "ended" /\ ~TooMany(scans[s].respData) /\ New(s) # {}
      BY <2>2 DEF EndScan
    <3>2. \A p \in Paths : objects[p] # "object"
      BY <3>1, NewIsAlone
    <3> QED BY <3>2 DEF ObjectsStay
  <2> QED BY <2>1, <2>2 DEF Next, Daemon, Reply, EventHandler, TimerExpires, StartScan,
                            MapperReplies, InfoArrives, InfoFails, RetryTimer, Expose, vars
<1> QED BY <1>1, Invariance, PTL DEF Spec, VolumeStaysIfAllAnswer

-----------------------------------------------------------------------------
(* The only configuration object is not forgotten.                         *)

(* What is known of the scans while p is the only configuration object.    *)
LEMMA ToldOfTheOnlyOne ==
  ASSUME IInv, NEW p \in Paths, configs = {p}, lost = {}, NEW s \in ScanIds
  PROVE  /\ \A q \in Paths : scans[s].read[q] # "none" => q = p
         /\ scans[s].stage = "ended" => scans[s].respData = {p}
                                        /\ scans[s].read[p] = "none"
<1>1. Active(s) => Told(s) # {} /\ Told(s) \subseteq {p}
  BY DEF IInv, Snapshots, ToldOK
<1>2. \A q \in Paths : scans[s].read[q] # "none" => Active(s) /\ q \in Told(s)
  BY DEF IInv, ReadsOK, Active, Told
<1>3. scans[s].stage = "ended" =>
        Active(s) /\ \A q \in Paths : scans[s].read[q] = "none"
  BY DEF IInv, ReadsOK, Active
<1> QED BY <1>1, <1>2, <1>3 DEF Told

(* The end of a scan that has the answer of p makes its object.            *)
LEMMA EndScanServes ==
  ASSUME IInv, NEW p \in Paths, NEW s \in ScanIds, EndScan(s), Pending(p),
         configs = {p}, objects[p] = "absent", lost = {},
         objects'[p] = "absent"
  PROVE  Pending(p)'
<1>1. scans[s].stage = "ended" /\ scans[s].respData = {p}
  BY ToldOfTheOnlyOne DEF EndScan
<1>2. ~TooMany({p}) /\ New(s) = {p}
  <2>1. Cardinality({p}) = 1
    BY FS_Singleton
  <2> QED BY <1>1, <2>1 DEF TooMany, New
<1>3. ~Attempt(s, "object") /\ ~Attempt(s, "null")
  BY <1>2 DEF Attempt
<1>4. Die
  BY <1>1, <1>2, <1>3 DEF EndScan
<1> QED BY <1>4 DEF Die, Pending

(* So does every other step leave it pending.                              *)
LEMMA ReplyKeepsPending ==
  ASSUME IInv, NEW p \in Paths, NEW s \in ScanIds, Pending(p),
         configs = {p}, lost = {}, lost' = {},
         \/ MapperReplies(s)
         \/ \E q \in Paths : InfoArrives(s, q) \/ InfoFails(s, q) \/ RetryTimer(s, q)
  PROVE  Pending(p)'
<1>0. TypeOK /\ scans \in [ScanIds -> Scans] /\ scans[s] \in Scans
  BY ScanFields DEF IInv
<1>1. CASE MapperReplies(s)
  <2>1. scans'[s].read[p] = "call"
    BY <1>0, <1>1 DEF MapperReplies
  <2> QED BY <2>1 DEF Pending, Asks
<1>2. ASSUME NEW q \in Paths, InfoArrives(s, q) \/ InfoFails(s, q) \/ RetryTimer(s, q)
      PROVE  Pending(p)'
  <2>1. q = p
    BY <1>2, ToldOfTheOnlyOne DEF InfoArrives, InfoFails, RetryTimer
  <2>2. \A r \in Paths \ {p} : scans[s].read[r] = "none"
    BY ToldOfTheOnlyOne
  <2>3. CASE InfoArrives(s, q)
    <3>1. scans'[s] = Without(s, p, scans[s].respData \cup {p})
      BY <1>0, <2>1, <2>3 DEF InfoArrives
    <3>2. scans'[s].stage = "ended" /\ p \in scans'[s].respData
      BY <1>0, <2>2, <3>1 DEF Without, Scans
    <3> QED BY <3>2 DEF Pending, Asks
  <2>4. CASE InfoFails(s, q)
    <3>1. scans[s].retries[p] # 0
      BY <2>1, <2>4 DEF InfoFails
    <3>2. RetriesLeft(scans[s].retries[p])
      BY <1>0, <3>1, DiscoveryAssumption DEF RetriesLeft, Scans
    <3>3. scans'[s] = [scans[s] EXCEPT !.read[p] = "wait"]
      BY <1>0, <2>1, <2>4, <3>2 DEF InfoFails
    <3>4. scans'[s].read[p] = "wait"
      BY <1>0, <3>3 DEF Scans
    <3> QED BY <3>4 DEF Pending, Asks
  <2>5. CASE RetryTimer(s, q)
    <3>1. scans'[s].read[p] = "call"
      BY <1>0, <2>1, <2>5 DEF RetryTimer, Scans
    <3> QED BY <3>1 DEF Pending, Asks
  <2> QED BY <1>2, <2>3, <2>4, <2>5
<1> QED BY <1>1, <1>2

(* The only configuration object is never forgotten, however the signals,  *)
(* timers and scans interleave and whatever is retried: as long as it has  *)
(* no volume something that leads to one is still to come.                 *)
THEOREM OnlyConfigIsAlwaysPending == Spec => []OnlyConfigIsPending
<1>1. Init => OnlyConfigIsPending
  BY DEF Init, OnlyConfigIsPending, Pending
<1>2. IInv /\ OnlyConfigIsPending /\ [Next]_vars => OnlyConfigIsPending'
  <2> SUFFICES ASSUME IInv, OnlyConfigIsPending, [Next]_vars, NEW p \in Paths,
                      configs' = {p}, objects'[p] = "absent", lost' = {}
               PROVE  Pending(p)'
    BY DEF OnlyConfigIsPending
  <2>1. CASE \E q \in Paths : Expose(q)
    BY <2>1 DEF Expose, Pending
  <2>2. CASE EventHandler \/ TimerExpires
    BY <2>2 DEF EventHandler, TimerExpires, Pending, IInv, TypeOK, MaxQueued
  <2>3. ASSUME NEW s \in ScanIds, StartScan(s) PROVE Pending(p)'
    <3>1. scans'[s].stage = "mapper"
      BY <2>3, ScanFields DEF StartScan, IInv, Scans
    <3> QED BY <3>1 DEF Pending, Asks
  <2>4. ASSUME NEW s \in ScanIds, EndScan(s) PROVE Pending(p)'
    <3>1. CASE Die
      BY <3>1 DEF Die, Pending
    <3>2. CASE ~Die
      <4>1. configs = {p} /\ lost = {}
        BY <2>4, <3>2 DEF EndScan, Attempt
      <4>2. objects[p] = "absent"
        BY <2>4, <3>2, <4>1 DEF EndScan, Attempt, IInv, TypeOK
      <4>3. Pending(p)
        BY <4>1, <4>2 DEF OnlyConfigIsPending
      <4> QED BY <2>4, <4>1, <4>2, <4>3, EndScanServes
    <3> QED BY <3>1, <3>2
  <2>5. CASE Reply
    <3>1. PICK s \in ScanIds :
            \/ MapperReplies(s)
            \/ \E q \in Paths : InfoArrives(s, q) \/ InfoFails(s, q) \/ RetryTimer(s, q)
      BY <2>5 DEF Reply
    <3>2. configs = {p} /\ objects[p] = "absent" /\ lost = {}
      BY <3>1 DEF MapperReplies, InfoArrives, InfoFails, RetryTimer
    <3>3. Pending(p)
      BY <3>2 DEF OnlyConfigIsPending
    <3> QED BY <3>1, <3>2, <3>3, ReplyKeepsPending
  <2>6. CASE UNCHANGED vars
    BY <2>6 DEF vars, OnlyConfigIsPending, Pending, Asks
  <2> QED BY <2>1, <2>2, <2>3, <2>4, <2>5, <2>6 DEF Next, Daemon
<1> QED BY <1>1, <1>2, Invariance, PTL DEF Spec
=============================================================================
