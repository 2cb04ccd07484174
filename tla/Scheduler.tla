------------------------------ MODULE Scheduler ------------------------------
(***************************************************************************)
(* The schedule of a VDE: rows of the table cron, and the tasks of the     *)
(* cron library that packages/scheduler keeps for them.  The contracts     *)
(* NewCron and EditCron write the row and then its task; the daemon        *)
(* Scheduler loads all the rows every hour.                                *)
(***************************************************************************)
EXTENDS Integers, Sequences, SequencesExt

CONSTANTS CronIds, Specs, CronContracts, MaxCronOps

VARIABLES
  cron,      \* the rows: [spec, contract] or NoCron
  written,   \* rows whose contract has yet to call UpdateCron
  entries,   \* the entries of the cron library: [id, spec, contract]
  loading,   \* rows that the daemon has read and not yet handed over
  loaded,    \* history: the rows have not changed since the daemon read them
  cronOps

cronVars == <<cron, written, entries, loading, loaded, cronOps>>

NoCron == [spec |-> "none"]

Init ==
  /\ cron = [i \in CronIds |-> NoCron] /\ written = {} /\ entries = <<>> /\ loading = <<>>
  /\ loaded = FALSE /\ cronOps = 0

\* Cron.UID: the name of the table and the id.  Rows that are read as a list do
\* not have the name of the table.
UID(tableName, i) == <<tableName, i>>

\* A slip: an entry that is there already is left alone.
UpdateTaskOnce(list, task) ==
  IF \E k \in DOMAIN list : list[k].id = task.id THEN list ELSE Append(list, task)

\* Scheduler.UpdateTask: the entry with this ID is overwritten, or one is added.
UpdateTask(list, task) ==
  IF \E k \in DOMAIN list : list[k].id = task.id
  THEN [k \in DOMAIN list |-> IF list[k].id = task.id THEN task ELSE list[k]]
  ELSE Append(list, task)

\* NewCron and EditCron: ValidateCron, the row.  In a VDE every statement is
\* committed at once.
WriteCron(i, spec, contract) ==
  /\ cronOps < MaxCronOps /\ cronOps' = cronOps + 1
  /\ spec # "wrong" /\ i \notin written
  /\ cron' = [cron EXCEPT ![i] = [spec |-> spec, contract |-> contract]]
  /\ written' = written \cup {i} /\ loaded' = FALSE
  /\ UNCHANGED <<entries, loading>>

UpdateCron(i) ==
  /\ i \in written /\ written' = written \ {i}
  /\ entries' = UpdateTask(entries, [id |-> UID("1_cron", i), spec |-> cron[i].spec, contract |-> cron[i].contract])
  /\ UNCHANGED <<cron, loading, loaded, cronOps>>

\* The daemon: GetAllCronTasks, then a task for each row.
LoadContractTasks ==
  /\ loading = <<>> /\ cronOps < MaxCronOps /\ cronOps' = cronOps + 1
  /\ loading' = SetToSeq({[id |-> UID("", i), spec |-> cron[i].spec, contract |-> cron[i].contract] :
                            i \in {j \in CronIds : cron[j] # NoCron}})
  /\ loaded' = TRUE
  /\ UNCHANGED <<cron, written, entries>>

LoadTask ==
  /\ loading # <<>>
  /\ entries' = UpdateTask(entries, Head(loading)) /\ loading' = Tail(loading)
  /\ UNCHANGED <<cron, written, loaded, cronOps>>

\* A new process has no entries.
Restart ==
  /\ cronOps < MaxCronOps /\ cronOps' = cronOps + 1
  /\ entries' = <<>> /\ written' = {} /\ loading' = <<>> /\ loaded' = FALSE
  /\ UNCHANGED cron

Next ==
  \/ \E i \in CronIds : UpdateCron(i) \/ \E s \in Specs, c \in CronContracts : WriteCron(i, s, c)
  \/ LoadContractTasks \/ LoadTask \/ Restart

-----------------------------------------------------------------------------
Tasks(i) == {k \in DOMAIN entries : entries[k].id[2] = i}

\* Once the daemon has gone through the rows, and until one is written again,
\* every row has a task that runs its contract by its schedule
\* (loadContractTasks, UpdateTask).
RowsAreScheduled ==
  loaded /\ loading = <<>> =>
    \A i \in CronIds : cron[i] # NoCron =>
      \E k \in Tasks(i) : entries[k].spec = cron[i].spec /\ entries[k].contract = cron[i].contract
=============================================================================
