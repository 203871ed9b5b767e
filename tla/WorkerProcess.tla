---------------------------- MODULE WorkerProcess ----------------------------
(***************************************************************************)
(* The life of worker processes: start and graceful shutdown, the timer    *)
(* that generates NACHA files, and the heartbeat that the system status is *)
(* read from.  The script that generates files by hand starts the same     *)
(* application, timers included, and writes the same heartbeat row.        *)
(***************************************************************************)
EXTENDS Integers, FiniteSets

CONSTANTS
  Processes,      \* processes that run the worker's application
  Scripts,        \* those of them that are generate-nacha
  Merchants,      \* ids
  HeartbeatEvery, \* seconds between the end of a heartbeat and the next
  WriteTime,      \* the longest a heartbeat takes to write
  StaleAfter,     \* WORKER_HEARTBEAT_STALE_SECONDS
  MaxArrivals,    \* bounds on new payments,
  MaxFailures,    \* failures and crashes,
  MaxStops,       \* and shutdowns
  Off             \* no timer, no heartbeat yet

ASSUME WorkerAssumption ==
  /\ Scripts \subseteq Processes /\ Merchants \subseteq Nat
  /\ {HeartbeatEvery, WriteTime, StaleAfter} \subseteq Nat
  /\ HeartbeatEvery + 2 * WriteTime <= StaleAfter
  /\ Off \notin Nat \cup [step : {"armed", "writing"}, seconds : Nat]

VARIABLES
  enabled,    \* the processes whose environment has NACHA_GENERATION_ENABLED = "true"
  process,    \* "down", "up" or "closing"
  scheduler,  \* the NACHA timer: Off, "armed" or "generating"
  script,     \* Off or "generating"
  heart,      \* Off, or the state of the heartbeat timer and its seconds
  lastSeen,   \* seconds since the heartbeat in the database was taken, or Off
  waiting,    \* merchants with validated payments that are in no file
  beating,    \* processes whose last heartbeat was written
  arrivals, failures, stops

timers == <<scheduler, script, heart>>
processBounds == <<arrivals, failures, stops>>
processVars == <<enabled, process, timers, lastSeen, waiting, beating, processBounds>>

(* Generation is off unless it is enabled, and processes may differ.       *)
ProcessInit ==
  /\ enabled \in SUBSET Processes
  /\ process = [w \in Processes |-> "down"]
  /\ scheduler = [w \in Processes |-> Off]
  /\ script = [w \in Processes |-> Off]
  /\ heart = [w \in Processes |-> Off]
  /\ lastSeen = Off
  /\ waiting = {}
  /\ beating = {}
  /\ arrivals = 0 /\ failures = 0 /\ stops = 0

(* A payment is validated.                                                 *)
Arrive(m) ==
  /\ arrivals < MaxArrivals
  /\ arrivals' = arrivals + 1
  /\ waiting' = waiting \cup {m}
  /\ UNCHANGED <<enabled, process, timers, lastSeen, beating, failures, stops>>

(* Every onModuleInit schedules its timer with no delay, the one of the    *)
(* generation only if it is enabled.                                       *)
StartProcess(w) ==
  /\ process[w] = "down"
  /\ process' = [process EXCEPT ![w] = "up"]
  /\ scheduler' = [scheduler EXCEPT ![w] = IF w \in enabled THEN "armed" ELSE Off]
  /\ script' = [script EXCEPT ![w] = IF w \in Scripts THEN "generating" ELSE Off]
  /\ heart' = [heart EXCEPT ![w] = [step |-> "armed", seconds |-> HeartbeatEvery]]
  /\ UNCHANGED <<enabled, lastSeen, waiting, beating, processBounds>>

(* SIGTERM, or the end of the script: the timers are cleared, what runs    *)
(* goes on.                                                                *)
Close(w) ==
  /\ process' = [process EXCEPT ![w] = "closing"]
  /\ scheduler' = [scheduler EXCEPT ![w] = IF @ = "armed" THEN Off ELSE @]
  /\ heart' = [heart EXCEPT ![w] = IF @ # Off /\ @.step = "armed" THEN Off ELSE @]
  /\ beating' = beating \ {w}
  /\ UNCHANGED <<enabled, lastSeen, waiting, arrivals>>

(* The script enables no shutdown hooks: a signal kills it.                *)
StopProcess(w) ==
  /\ process[w] = "up" /\ w \notin Scripts /\ stops < MaxStops
  /\ stops' = stops + 1
  /\ Close(w)
  /\ UNCHANGED <<script, failures>>

(* app.close() waits for the active run, the event loop for a heartbeat.   *)
Exit(w) ==
  /\ process[w] = "closing"
  /\ scheduler[w] = Off /\ script[w] = Off /\ heart[w] = Off
  /\ process' = [process EXCEPT ![w] = "down"]
  /\ UNCHANGED <<enabled, timers, lastSeen, waiting, beating, processBounds>>

KillProcess(w) ==
  /\ process[w] # "down" /\ failures < MaxFailures
  /\ failures' = failures + 1
  /\ process' = [process EXCEPT ![w] = "down"]
  /\ scheduler' = [scheduler EXCEPT ![w] = Off]
  /\ script' = [script EXCEPT ![w] = Off]
  /\ heart' = [heart EXCEPT ![w] = Off]
  /\ beating' = beating \ {w}
  /\ UNCHANGED <<enabled, lastSeen, waiting, arrivals, stops>>
(***************************************************************************)
(* NACHA generation.                                                       *)
(***************************************************************************)
(* Mutation: a timer is set whether or not the process is closing. *)
scheduleNextRun_Always(w) == "armed"

scheduleNextRun(w) == IF process[w] = "up" THEN "armed" ELSE Off

FireScheduler(w) ==
  /\ scheduler[w] = "armed"
  /\ scheduler' = [scheduler EXCEPT ![w] = "generating"]
  /\ UNCHANGED <<enabled, process, script, heart, lastSeen, waiting, beating, processBounds>>

Generating(w) == {scheduler[w], script[w]} \cap {"generating"} # {}

(* generateAll() takes one merchant after the other, the first one first.  *)
GenerateFile(w) ==
  /\ Generating(w)
  /\ \E m \in waiting :
       /\ \A n \in waiting : m <= n
       /\ waiting' = waiting \ {m}
  /\ UNCHANGED <<enabled, process, timers, lastSeen, beating, processBounds>>

EndRun(w) ==
  /\ scheduler[w] = "generating" /\ waiting = {}
  /\ scheduler' = [scheduler EXCEPT ![w] = scheduleNextRun(w)]
  /\ UNCHANGED <<enabled, process, script, heart, lastSeen, waiting, beating, processBounds>>

(* Mutation: the next run is only scheduled by one that succeeded. *)
FailRun_Unscheduled(w) ==
  /\ scheduler[w] = "generating" /\ failures < MaxFailures
  /\ failures' = failures + 1
  /\ scheduler' = [scheduler EXCEPT ![w] = Off]
  /\ UNCHANGED <<enabled, process, script, heart, lastSeen, waiting, beating, arrivals, stops>>

(* A transaction fails: nothing of its file is kept, and the run is over.  *)
FailRun(w) ==
  /\ scheduler[w] = "generating" /\ failures < MaxFailures
  /\ failures' = failures + 1
  /\ scheduler' = [scheduler EXCEPT ![w] = scheduleNextRun(w)]
  /\ UNCHANGED <<enabled, process, script, heart, lastSeen, waiting, beating, arrivals, stops>>

(* The script closes its application when generateAll() returns or throws. *)
EndScript(w) ==
  /\ script[w] = "generating"
  /\ \/ waiting = {} /\ UNCHANGED failures
     \/ failures < MaxFailures /\ failures' = failures + 1
  /\ script' = [script EXCEPT ![w] = Off]
  /\ Close(w)
  /\ UNCHANGED stops
(***************************************************************************)
(* The heartbeat.                                                          *)
(***************************************************************************)
Beating(w, step) == heart[w] # Off /\ heart[w].step = step

Heartbeat(w) ==
  /\ Beating(w, "armed") /\ heart[w].seconds >= HeartbeatEvery
  /\ heart' = [heart EXCEPT ![w] = [step |-> "writing", seconds |-> 0]]
  /\ UNCHANGED <<enabled, process, scheduler, script, lastSeen, waiting, beating, processBounds>>

NextHeartbeat(w) ==
  heart' = [heart EXCEPT ![w] = IF process[w] = "up"
                                THEN [step |-> "armed", seconds |-> 0] ELSE Off]

(* The row takes the time at which the heartbeat began.                    *)
WriteHeartbeat(w) ==
  /\ Beating(w, "writing")
  /\ lastSeen' = heart[w].seconds
  /\ beating' = IF process[w] = "up" THEN beating \cup {w} ELSE beating
  /\ NextHeartbeat(w)
  /\ UNCHANGED <<enabled, process, scheduler, script, waiting, processBounds>>

MissHeartbeat(w) ==
  /\ Beating(w, "writing") /\ failures < MaxFailures
  /\ failures' = failures + 1
  /\ beating' = beating \ {w}
  /\ NextHeartbeat(w)
  /\ UNCHANGED <<enabled, process, scheduler, script, lastSeen, waiting, arrivals, stops>>

(* A second passes: no timer fires late, no heartbeat writes for longer    *)
(* than WriteTime.                                                         *)
Second ==
  /\ \A w \in Processes : heart[w] # Off => heart[w].seconds <
       IF heart[w].step = "armed" THEN HeartbeatEvery ELSE WriteTime
  /\ heart' = [w \in Processes |-> IF heart[w] = Off THEN Off
                                   ELSE [heart[w] EXCEPT !.seconds = @ + 1]]
  /\ lastSeen' = IF lastSeen \in 0..StaleAfter THEN lastSeen + 1 ELSE lastSeen
  /\ UNCHANGED <<enabled, process, scheduler, script, waiting, beating, processBounds>>

(* Mutation: a heartbeat of exactly the limit is stale. *)
workerHealth_Strict ==
  IF lastSeen = Off THEN "UNKNOWN"
  ELSE IF lastSeen < StaleAfter THEN "HEALTHY" ELSE "STALE"

workerHealth ==
  IF lastSeen = Off THEN "UNKNOWN"
  ELSE IF lastSeen <= StaleAfter THEN "HEALTHY" ELSE "STALE"

ProcessNext ==
  \/ Second
  \/ \E m \in Merchants : Arrive(m)
  \/ \E w \in Processes :
       \/ StartProcess(w) \/ StopProcess(w) \/ Exit(w) \/ KillProcess(w)
       \/ FireScheduler(w) \/ GenerateFile(w) \/ EndRun(w) \/ FailRun(w) \/ EndScript(w)
       \/ Heartbeat(w) \/ WriteHeartbeat(w) \/ MissHeartbeat(w)

(* What the process itself does happens, and the operator starts workers.  *)
ProcessFairness ==
  \A w \in Processes :
    /\ WF_processVars(Exit(w)) /\ WF_processVars(FireScheduler(w)) /\ WF_processVars(EndRun(w))
    /\ WF_processVars(GenerateFile(w)) /\ WF_processVars(EndScript(w))
    /\ WF_processVars(Heartbeat(w)) /\ WF_processVars(WriteHeartbeat(w))
    /\ w \notin Scripts => WF_processVars(StartProcess(w))

ProcessSpec == ProcessInit /\ [][ProcessNext]_processVars /\ ProcessFairness

(* Where generation is enabled for a worker the payments of every merchant  *)
(* reach a file, whatever fails as long as it does not fail forever.  The   *)
(* default is off, and then only the script makes files, when it is run.    *)
EligibleIsExported ==
  \A m \in Merchants : m \in waiting /\ enabled \ Scripts # {} ~> m \notin waiting

(* A process that was told to stop does stop: no timer is set again behind *)
(* the shutdown's back, not even by a run that was active.                 *)
ShutdownEnds == \A w \in Processes : process[w] = "closing" ~> process[w] = "down"

(* A process whose last heartbeat was written is never shown as stale,     *)
(* although it counts its interval from the end of a write, the row holds  *)
(* the time of its beginning, and the script writes the same row.  The     *)
(* docs say that the worker's health is always UNKNOWN, because nothing    *)
(* keeps a heartbeat (api.md 465 and 586, architecture.md 111): they are   *)
(* older than the heartbeat in the code.                                   *)
LiveWorkerIsHealthy == beating # {} => workerHealth = "HEALTHY"
=============================================================================
