------------------------------ MODULE Lifecycle ------------------------------
(***************************************************************************)
(* Start and stop of a node (packages/daylight/start.go,                   *)
(* packages/daylight/daemonsctl, packages/daemons/common.go, locking.go,   *)
(* stopdaemons.go and notmobile.go).                                       *)
(*                                                                         *)
(* The daemons are goroutines that run their handler and sleep.  Two other *)
(* goroutines stop them, one after a signal and one after a row in         *)
(* stop_daemons: each cancels the context, receives one name per started   *)
(* daemon from ReturnCh and closes the database.                           *)
(***************************************************************************)
EXTENDS Naturals, FiniteSets

CONSTANTS
  Daemons,       \* the list of daemons to start
  OneStop,       \* TRUE: one stop at a time, and none before the end of Start
  EarlyHandlers  \* TRUE: a handler may need the ban service at once

VARIABLES
  installed,  \* the installation is complete
  boot,       \* where Start is
  daemon,     \* where each daemon is
  count,      \* utils.DaemonsCount
  cancelled,  \* the context is cancelled
  banSvc,     \* the ban service exists
  row,        \* stop_daemons: "unknown" before its first deletion
  stopper,    \* where WaitStopTime and the signal's goroutine are
  names,      \* the names that each of them has received
  signal,     \* a signal was sent
  db,         \* the database is open
  process     \* "runs", "exit" or "panic"

lifeVars == <<installed, boot, daemon, count, cancelled, banSvc, row, stopper, names, signal, db, process>>

Stoppers == {"WaitStopTime", "WaitForSignals"}

Init ==
  /\ installed \in BOOLEAN
  /\ boot = "daemons" /\ daemon = [d \in Daemons |-> "none"] /\ count = 0
  /\ cancelled = FALSE /\ banSvc = FALSE /\ row = "unknown"
  /\ stopper = [s \in Stoppers |-> IF s = "WaitStopTime" THEN "delete" ELSE "none"]
  /\ names = [s \in Stoppers |-> 0]
  /\ signal = FALSE /\ db = TRUE /\ process = "runs"

-----------------------------------------------------------------------------
(***************************************************************************)
(* Start, after the parameters and the contracts are loaded.               *)
(***************************************************************************)

\* StartDaemons: the goroutine first, the counter after it.
StartDaemon(d) ==
  /\ boot = "daemons" /\ daemon[d] = "none"
  /\ count = Cardinality({e \in Daemons : daemon[e] # "none"})
  /\ daemon' = [daemon EXCEPT ![d] = "waitdb"]
  /\ UNCHANGED <<installed, boot, count, cancelled, banSvc, row, stopper, names, signal, db, process>>

CountDaemon ==
  /\ boot = "daemons" /\ count < Cardinality({e \in Daemons : daemon[e] # "none"})
  /\ count' = count + 1
  /\ UNCHANGED <<installed, boot, daemon, cancelled, banSvc, row, stopper, names, signal, db, process>>

\* The rest of Start: TcpListener, the relevance service, the ban service.
StartServices ==
  /\ boot = "daemons" /\ count = Cardinality(Daemons)
  /\ boot' = "signals" /\ banSvc' = TRUE
  /\ UNCHANGED <<installed, daemon, count, cancelled, row, stopper, names, signal, db, process>>

WaitForSignals ==
  /\ boot = "signals"
  /\ boot' = "done" /\ stopper' = [stopper EXCEPT !["WaitForSignals"] = "wait"]
  /\ UNCHANGED <<installed, daemon, count, cancelled, banSvc, row, names, signal, db, process>>

-----------------------------------------------------------------------------
(***************************************************************************)
(* A daemon.                                                               *)
(***************************************************************************)

\* WaitDB: a cancelled context ends the daemon without a word to ReturnCh.
WaitDB(d) ==
  /\ daemon[d] = "waitdb"
  /\ \/ installed /\ db /\ daemon' = [daemon EXCEPT ![d] = "handler"]
     \/ ~(installed /\ db) /\ cancelled /\ daemon' = [daemon EXCEPT ![d] = "gone"]
  /\ UNCHANGED <<installed, boot, count, cancelled, banSvc, row, stopper, names, signal, db, process>>

EndHandler(d) ==
  /\ daemon[d] = "handler"
  /\ daemon' = [daemon EXCEPT ![d] = "sleep"]
  /\ UNCHANGED <<installed, boot, count, cancelled, banSvc, row, stopper, names, signal, db, process>>

\* A handler that asks the ban service before it exists: daemonLoop panics.
Panic(d) ==
  /\ EarlyHandlers /\ daemon[d] = "handler" /\ ~banSvc
  /\ process' = "panic"
  /\ UNCHANGED <<installed, boot, daemon, count, cancelled, banSvc, row, stopper, names, signal, db>>

\* The select of daemonLoop.
Wake(d) ==
  /\ daemon[d] = "sleep"
  /\ daemon' = [daemon EXCEPT ![d] = "handler"]
  /\ UNCHANGED <<installed, boot, count, cancelled, banSvc, row, stopper, names, signal, db, process>>

Done(d) ==
  /\ daemon[d] = "sleep" /\ cancelled
  /\ daemon' = [daemon EXCEPT ![d] = "return"]
  /\ UNCHANGED <<installed, boot, count, cancelled, banSvc, row, stopper, names, signal, db, process>>

-----------------------------------------------------------------------------
(***************************************************************************)
(* The two goroutines that stop the daemons.                               *)
(***************************************************************************)
DeleteStopRow ==
  /\ stopper["WaitStopTime"] = "delete"
  /\ row' = "none" /\ stopper' = [stopper EXCEPT !["WaitStopTime"] = "wait"]
  /\ UNCHANGED <<installed, boot, daemon, count, cancelled, banSvc, names, signal, db, process>>

\* KillPid of a second process that is started on Windows.
WriteStopRow ==
  /\ row = "none" /\ (OneStop => boot = "done" /\ ~signal)
  /\ row' = "written"
  /\ UNCHANGED <<installed, boot, daemon, count, cancelled, banSvc, stopper, names, signal, db, process>>

Signal ==
  /\ ~signal /\ stopper["WaitForSignals"] # "none" /\ (OneStop => row # "written")
  /\ signal' = TRUE
  /\ UNCHANGED <<installed, boot, daemon, count, cancelled, banSvc, row, stopper, names, db, process>>

CancelFunc(s) ==
  /\ stopper[s] = "wait"
  /\ IF s = "WaitStopTime" THEN row = "written" ELSE signal
  /\ cancelled' = TRUE /\ stopper' = [stopper EXCEPT ![s] = "receive"]
  /\ UNCHANGED <<installed, boot, daemon, count, banSvc, row, names, signal, db, process>>

\* name := <-utils.ReturnCh
Receive(s, d) ==
  /\ stopper[s] = "receive" /\ names[s] < count /\ daemon[d] = "return"
  /\ names' = [names EXCEPT ![s] = @ + 1]
  /\ daemon' = [daemon EXCEPT ![d] = "gone"]
  /\ UNCHANGED <<installed, boot, count, cancelled, banSvc, row, stopper, signal, db, process>>

\* A slip: one name more than there are daemons is waited for.
GormCloseLate(s) ==
  /\ stopper[s] = "receive" /\ names[s] > count
  /\ db' = FALSE /\ stopper' = [stopper EXCEPT ![s] = "closed"]
  /\ UNCHANGED <<installed, boot, daemon, count, cancelled, banSvc, row, names, signal, process>>

GormClose(s) ==
  /\ stopper[s] = "receive" /\ names[s] >= count
  /\ db' = FALSE /\ stopper' = [stopper EXCEPT ![s] = "closed"]
  /\ UNCHANGED <<installed, boot, daemon, count, cancelled, banSvc, row, names, signal, process>>

\* os.Exit; WaitStopTime only removes the pid file and goes on waiting.
Exit ==
  /\ stopper["WaitForSignals"] = "closed"
  /\ process' = "exit"
  /\ UNCHANGED <<installed, boot, daemon, count, cancelled, banSvc, row, stopper, names, signal, db>>

Running ==
  \/ CountDaemon \/ StartServices \/ WaitForSignals
  \/ \E d \in Daemons :
       StartDaemon(d) \/ WaitDB(d) \/ EndHandler(d) \/ Panic(d) \/ Wake(d) \/ Done(d)
  \/ DeleteStopRow \/ WriteStopRow \/ Signal \/ Exit
  \/ \E s \in Stoppers : CancelFunc(s) \/ GormClose(s) \/ \E d \in Daemons : Receive(s, d)

Next == process = "runs" /\ Running

-----------------------------------------------------------------------------
\* The database is closed under no handler that is at work (WaitStopTime,
\* WaitForSignals, daemonLoop).
ClosedAfterWork == ~db => \A d \in Daemons : daemon[d] # "handler"

\* After a signal the process of an installed node ends (WaitForSignals).
StopsInTheEnd == signal /\ installed ~> process # "runs"

\* A stop ends the process, and closes the database under no handler
\* (WaitForSignals, WaitStopTime).
StopsCleanly == []ClosedAfterWork /\ StopsInTheEnd
=============================================================================
