------------------------------ MODULE Discovery ------------------------------
(***************************************************************************)
(* How the daemon finds the eMMC it manages: the scan of Entity Manager's  *)
(* configuration objects (src/src/getConfig.cpp), the events that start it *)
(* and the creation of the volume object at its end (src/src/main.cpp).    *)
(* Scans are asynchronous: several may be under way, each waiting for      *)
(* D-Bus replies and retry timers of its own.  A scan ends when nothing    *)
(* refers to its GetStorageConfiguration any more, whose destructor runs   *)
(* the callback that creates the objects.                                  *)
(***************************************************************************)
EXTENDS Integers, FiniteSets

CONSTANTS Paths,        \* the configuration objects there may be
          MaxRetries,   \* the default of getStorageInfo's retries, 5
          MaxErrors,    \* bound: failures of D-Bus calls and of the device
          ScanIds       \* bound: the scans that may be under way at once

ASSUME DiscoveryAssumption ==
  /\ IsFiniteSet(Paths) /\ ScanIds # {}
  /\ MaxRetries \in Nat /\ MaxErrors \in Nat

VARIABLES
  configs,       \* the configuration objects Entity Manager exposes
  signal,        \* a PropertiesChanged signal has not been handled yet
  timer,         \* filterTimer is armed
  queued,        \* calls of createStorageObjects that are ready to run
  scans,         \* the scans under way
  objects,       \* storageObjects: "absent", "null" or "object" for a path
  errors,        \* failures so far
  lost           \* which answers were lost for good, of the "mapper" or of
                 \* a "read" that failed once more than it is retried (history)

vars == <<configs, signal, timer, queued, scans, objects, errors, lost>>

(* A scan waits for the mapper ("mapper") or for what its reads say of     *)
(* each path: a reply ("call") or a retry timer ("wait"), or nothing.      *)
Free == [stage |-> "free", read |-> [p \in Paths |-> "none"],
         retries |-> [p \in Paths |-> 0], respData |-> {}]

MaxQueued == 2

Init ==
  /\ configs \in SUBSET Paths
  /\ signal = FALSE /\ timer = FALSE /\ queued = 1
  /\ scans = [s \in ScanIds |-> Free]
  /\ objects = [p \in Paths |-> "absent"]
  /\ errors = 0 /\ lost = {}

Fail == errors < MaxErrors /\ errors' = errors + 1

(* The daemon dies and is restarted: it posts its first scan again.        *)
Die ==
  /\ signal' = FALSE /\ timer' = FALSE /\ queued' = 1
  /\ scans' = [s \in ScanIds |-> Free]
  /\ objects' = [p \in Paths |-> "absent"]
  /\ lost' = {}
  /\ UNCHANGED configs

-----------------------------------------------------------------------------
(* The callback of createStorageObjects.  A device that cannot be found    *)
(* leaves a placeholder.  One whose size cannot be read throws out of a    *)
(* destructor, and one that cannot be opened leaves a null descriptor that *)
(* enableBackgroundOperation dereferences: both end the process.  So does  *)
(* the second volume object: all configuration objects lead to the one     *)
(* device, whose name is the D-Bus path (estoraged.cpp:84-87), and         *)
(* initialize() throws for an interface that this path has already.        *)

(* A slip: the number of configuration objects is not looked at.           *)
AnyNumber(respData) == FALSE

TooMany(respData) == Cardinality(respData) > 1

New(s) == {p \in scans[s].respData : objects[p] = "absent"}

PathTaken(s) ==
  \E p \in New(s), q \in Paths : q # p /\ (objects[q] = "object" \/ q \in New(s))

Attempt(s, outcome) ==
  /\ objects' = [p \in Paths |-> IF p \in New(s) THEN outcome ELSE objects[p]]
  /\ scans' = [scans EXCEPT ![s] = Free]
  /\ UNCHANGED <<configs, signal, timer, queued, lost>>

EndScan(s) ==
  /\ scans[s].stage = "ended"
  /\ \/ /\ TooMany(scans[s].respData) \/ New(s) = {}
        /\ scans' = [scans EXCEPT ![s] = Free]
        /\ UNCHANGED <<configs, signal, timer, queued, objects, errors, lost>>
     \/ /\ ~TooMany(scans[s].respData) /\ New(s) # {}
        /\ \/ /\ UNCHANGED errors
              /\ IF PathTaken(s) THEN Die ELSE Attempt(s, "object")
           \/ Fail /\ Attempt(s, "null")
           \/ Fail /\ Die

-----------------------------------------------------------------------------
(* Events.                                                                 *)

(* Entity Manager exposes one more configuration object, and says so.      *)
Expose(p) ==
  /\ p \notin configs
  /\ configs' = configs \cup {p}
  /\ signal' = TRUE
  /\ UNCHANGED <<timer, queued, scans, objects, errors, lost>>

(* eventHandler: the timer starts again if it was running.                 *)
EventHandler ==
  /\ signal
  /\ signal' = FALSE /\ timer' = TRUE
  /\ UNCHANGED <<configs, queued, scans, objects, errors, lost>>

(* An expiry that is already queued is not taken back by a later signal.   *)
TimerExpires ==
  /\ timer /\ queued < MaxQueued
  /\ timer' = FALSE /\ queued' = queued + 1
  /\ UNCHANGED <<configs, signal, scans, objects, errors, lost>>

(* createStorageObjects and getConfiguration: the mapper is asked.         *)
StartScan(s) ==
  /\ queued > 0 /\ scans[s].stage = "free"
  /\ queued' = queued - 1
  /\ scans' = [scans EXCEPT ![s].stage = "mapper"]
  /\ UNCHANGED <<configs, signal, timer, objects, errors, lost>>

(* The mapper answers: the properties of each object it names are asked    *)
(* for.  With an error, or no object, the scan is over.                    *)
MapperReplies(s) ==
  /\ scans[s].stage = "mapper"
  /\ \/ /\ configs # {}
        /\ scans' = [scans EXCEPT ![s] =
             [stage    |-> "info",
              read     |-> [p \in Paths |-> IF p \in configs THEN "call" ELSE "none"],
              retries  |-> [p \in Paths |-> MaxRetries],
              respData |-> {}]]
        /\ UNCHANGED <<configs, signal, timer, queued, objects, errors, lost>>
     \/ /\ configs = {} /\ UNCHANGED <<errors, lost>>
        /\ scans' = [scans EXCEPT ![s] = Free]
        /\ UNCHANGED <<configs, signal, timer, queued, objects>>
     \/ /\ Fail /\ lost' = lost \cup {"mapper"}
        /\ scans' = [scans EXCEPT ![s] = Free]
        /\ UNCHANGED <<configs, signal, timer, queued, objects>>

(* The scan once p is no longer waited for.                                *)
Without(s, p, respData) ==
  [scans[s] EXCEPT
     !.read[p]  = "none",
     !.respData = respData,
     !.stage    = IF \A q \in Paths \ {p} : scans[s].read[q] = "none"
                    THEN "ended" ELSE "info"]

(* GetAll answers with the properties of p.                                *)
InfoArrives(s, p) ==
  /\ scans[s].read[p] = "call"
  /\ scans' = [scans EXCEPT ![s] = Without(s, p, scans[s].respData \cup {p})]
  /\ UNCHANGED <<configs, signal, timer, queued, objects, errors, lost>>

(* Slips: the retries are not counted down to an end; there are none.      *)
AlwaysRetry(retries) == TRUE
NeverRetry(retries) == FALSE

RetriesLeft(retries) == retries > 0

(* GetAll answers with an error: it is retried later, or given up.         *)
InfoFails(s, p) ==
  /\ scans[s].read[p] = "call"
  /\ Fail
  /\ scans' = [scans EXCEPT ![s] =
                 IF RetriesLeft(scans[s].retries[p])
                   THEN [scans[s] EXCEPT !.read[p] = "wait"]
                   ELSE Without(s, p, scans[s].respData)]
  /\ lost' = IF scans[s].retries[p] = 0 THEN lost \cup {"read"} ELSE lost
  /\ UNCHANGED <<configs, signal, timer, queued, objects>>

RetryTimer(s, p) ==
  /\ scans[s].read[p] = "wait"
  /\ scans' = [scans EXCEPT ![s].read[p] = "call", ![s].retries[p] = @ - 1]
  /\ UNCHANGED <<configs, signal, timer, queued, objects, errors, lost>>

(* The handler that drops the last reference to a scan runs its callback   *)
(* before any other event is handled.                                      *)
NoneEnded == \A s \in ScanIds : scans[s].stage # "ended"

Reply == \E s \in ScanIds :
           \/ MapperReplies(s)
           \/ \E p \in Paths : InfoArrives(s, p) \/ InfoFails(s, p) \/ RetryTimer(s, p)

Daemon ==
  \/ \E s \in ScanIds : EndScan(s)
  \/ NoneEnded /\ (EventHandler \/ TimerExpires \/ Reply
                     \/ \E s \in ScanIds : StartScan(s))

Next == Daemon \/ (NoneEnded /\ \E p \in Paths : Expose(p))

(* The io_context handles events, timers expire and D-Bus calls are        *)
(* answered, with a reply or an error.                                     *)
Spec == Init /\ [][Next]_vars /\ WF_vars(Daemon)

-----------------------------------------------------------------------------
(* Properties.                                                             *)

TypeOK ==
  /\ configs \in SUBSET Paths
  /\ signal \in BOOLEAN /\ timer \in BOOLEAN /\ queued \in 0 .. MaxQueued
  /\ scans \in [ScanIds -> [stage    : {"free", "mapper", "info", "ended"},
                            read     : [Paths -> {"none", "call", "wait"}],
                            retries  : [Paths -> 0 .. MaxRetries],
                            respData : SUBSET Paths]]
  /\ objects \in [Paths -> {"absent", "null", "object"}]
  /\ errors \in 0 .. MaxErrors
  /\ lost \in SUBSET {"mapper", "read"}

(* No volume object goes away.                                             *)
ObjectsStay == \A p \in Paths : objects[p] = "object" => objects'[p] = "object"

(* "This function can be called multiple times, in case new configuration  *)
(* objects show up later" (main.cpp:27-28), of createStorageObjects: what  *)
(* an earlier call made goes away only when something fails in a later one.*)
CallableAgain == [][ObjectsStay \/ errors' # errors]_vars

(* All the code looks at is how many objects answered in one scan; yet no  *)
(* scan ever attempts to make a second volume object, which would end the  *)
(* daemon and the first, as long as every read was answered in the end,    *)
(* however the scans that were told of one object and of two overlap and   *)
(* whatever else fails.                                                    *)
VolumeStaysIfAllAnswer == []["read" \notin lost => ObjectsStay]_vars

(* A configuration object that is the only one and has no volume yet is    *)
(* not forgotten: a signal, a timer or a call that leads to a scan is still*)
(* to come, or a scan that asks for it or has its answer.                  *)
Asks(s, p) ==
  \/ scans[s].stage = "mapper"
  \/ scans[s].read[p] # "none"
  \/ scans[s].stage = "ended" /\ p \in scans[s].respData

Pending(p) == signal \/ timer \/ queued > 0 \/ \E s \in ScanIds : Asks(s, p)

OnlyConfigIsPending ==
  \A p \in Paths :
    configs = {p} /\ objects[p] = "absent" /\ lost = {} => Pending(p)

(* A configuration object that is the only one, whenever it appears and    *)
(* whatever scans are under way then, is found, unless the mapper failed,  *)
(* which nothing retries, or its reads failed more often than retried.     *)
OnlyConfigIsFound ==
  \A p \in Paths :
    configs = {p} ~> (objects[p] # "absent" \/ configs # {p} \/ lost # {})
=============================================================================
