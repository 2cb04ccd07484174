----------------------------- MODULE VDEManager -----------------------------
(***************************************************************************)
(* The manager of the child nodes of a VDE master: a role and a database,  *)
(* a directory with the configuration, and a process under the supervisor. *)
(* Creating one takes many steps, each of which may fail; a chain of       *)
(* cancel functions then takes back what was done.  Requests run side by   *)
(* side; two for the same name at once are left out.                       *)
(***************************************************************************)
EXTENDS Integers

CONSTANTS VDENames, VDEUsers, MaxVDEOps

VARIABLES
  role,      \* database roles
  owner,     \* owner of the database of the name, or "none"
  dir,       \* directory: "none", "empty" or "config"
  proc,      \* entry of the supervisor: "none", "RUNNING", "STOPPED"
  job,       \* the operation under way for a name: [user, step]
  ops,
  undropped, \* history: the roles whose DROP ROLE failed
  broken     \* history: the master stopped within an operation, or the drop of
             \* a database failed

vdeVars == <<role, undropped, owner, dir, proc, job, ops, broken>>

Idle == [user |-> "none", step |-> "none"]

Init ==
  /\ role = {} /\ undropped = {} /\ owner = [n \in VDENames |-> "none"] /\ dir = [n \in VDENames |-> "none"]
  /\ proc = [n \in VDENames |-> "none"] /\ job = [n \in VDENames |-> Idle] /\ ops = 0 /\ broken = FALSE

Begin(n, u, step) ==
  /\ job[n] = Idle /\ ops < MaxVDEOps /\ ops' = ops + 1
  /\ job' = [job EXCEPT ![n] = [user |-> u, step |-> step]]

At(n, step) == job[n].step = step
To(n, step) == job' = [job EXCEPT ![n].step = step]
End(n) == job' = [job EXCEPT ![n] = Idle]

-----------------------------------------------------------------------------
\* CreateVDE: createVDEDB.  A role or a database that is there already is an
\* error before the chain has anything to cancel; the new role goes again.
CreateVDE(n, u) ==
  /\ Begin(n, u, "database")
  /\ UNCHANGED <<role, undropped, owner, dir, proc, broken>>

CreateRole(n) ==
  /\ At(n, "database") /\ job[n].user \notin role
  /\ role' = role \cup {job[n].user} /\ To(n, "createdb")
  /\ UNCHANGED <<undropped, owner, dir, proc, ops, broken>>

RoleExists(n) ==
  /\ At(n, "database") /\ job[n].user \in role
  /\ End(n)
  /\ UNCHANGED <<role, undropped, owner, dir, proc, ops, broken>>

\* DROP ROLE.  That it fails is logged, and nothing more is done about it.
DropRole(u) ==
  \/ role' = role \ {u} /\ UNCHANGED undropped
  \/ undropped' = undropped \cup {u} /\ UNCHANGED role

\* A slip: nobody drops the role when the database cannot be made.
CreateDBNoDrop(n) ==
  /\ At(n, "createdb")
  /\ \/ owner[n] = "none" /\ owner' = [owner EXCEPT ![n] = job[n].user] /\ To(n, "directory")
     \/ End(n) /\ UNCHANGED owner
  /\ UNCHANGED <<role, undropped, dir, proc, ops, broken>>

\* CREATE DATABASE fails for a name that has one, and may fail for any other.
CreateDB(n) ==
  /\ At(n, "createdb")
  /\ \/ /\ owner[n] = "none" /\ owner' = [owner EXCEPT ![n] = job[n].user]
        /\ To(n, "directory") /\ UNCHANGED <<role, undropped>>
     \/ DropRole(job[n].user) /\ End(n) /\ UNCHANGED owner
  /\ UNCHANGED <<dir, proc, ops, broken>>

\* The directory must be new; it is made, and the commands config,
\* generateKeys and initDatabase are run in it.
InitVDEDir(n) ==
  /\ At(n, "directory")
  /\ IF dir[n] # "none" THEN To(n, "cancel db") /\ UNCHANGED dir
     ELSE dir' = [dir EXCEPT ![n] = "empty"] /\ To(n, "config")
  /\ UNCHANGED <<role, undropped, owner, proc, ops, broken>>

ConfigCommand(n) ==
  /\ At(n, "config")
  /\ dir' = [dir EXCEPT ![n] = "config"] /\ To(n, "commands")
  /\ UNCHANGED <<role, undropped, owner, proc, ops, broken>>

CommandFails(n) ==
  /\ At(n, "config") \/ At(n, "commands") \/ At(n, "directory")
  /\ To(n, IF At(n, "directory") THEN "cancel db" ELSE "cancel all")
  /\ UNCHANGED <<role, undropped, owner, dir, proc, ops, broken>>

\* The entry of the supervisor; the process is started and waited for.
StartProcess(n) ==
  /\ At(n, "commands")
  /\ proc' = [proc EXCEPT ![n] = "RUNNING"] /\ End(n)
  /\ UNCHANGED <<role, undropped, owner, dir, ops, broken>>

-----------------------------------------------------------------------------
\* dropDb: the database, then its role; no error if only the role stays.
DropDB(n, u) ==
  /\ owner' = [owner EXCEPT ![n] = "none"] /\ DropRole(u)

\* cancelChain, in the order in which it was filled.
CancelDB(n) ==
  /\ At(n, "cancel db") \/ At(n, "cancel all")
  /\ DropDB(n, job[n].user)
  /\ IF At(n, "cancel all") THEN To(n, "cancel dir") ELSE End(n)
  /\ UNCHANGED <<dir, proc, ops, broken>>

\* A cancel function that fails is not looked at.
CancelFails(n) ==
  /\ At(n, "cancel db") \/ At(n, "cancel all")
  /\ broken' = TRUE
  /\ IF At(n, "cancel all") THEN To(n, "cancel dir") ELSE End(n)
  /\ UNCHANGED <<role, undropped, owner, dir, proc, ops>>

CancelDir(n) ==
  /\ At(n, "cancel dir")
  /\ dir' = [dir EXCEPT ![n] = "none"] /\ End(n)
  /\ UNCHANGED <<role, undropped, owner, proc, ops, broken>>

\* DeleteVDE: the process is stopped and taken from the supervisor first.
DeleteVDE(n) ==
  /\ Begin(n, "none", "removed") /\ proc' = [proc EXCEPT ![n] = "none"]
  /\ UNCHANGED <<role, undropped, owner, dir, broken>>

\* The name and the user of the database come from the configuration.
ReadConfig(n) ==
  /\ At(n, "removed")
  /\ job' = [job EXCEPT ![n] = IF dir[n] = "config" THEN [user |-> owner[n], step |-> "drop"] ELSE Idle]
  /\ UNCHANGED <<role, undropped, owner, dir, proc, ops, broken>>

DropDatabase(n) ==
  /\ At(n, "drop")
  /\ DropDB(n, job[n].user) /\ To(n, "cancel dir")
  /\ UNCHANGED <<dir, proc, ops, broken>>

\* The database is in use again and is not dropped: DeleteVDE ends, and can be
\* called again.
DropFails(n) ==
  /\ At(n, "drop") /\ End(n)
  /\ UNCHANGED <<role, undropped, owner, dir, proc, ops, broken>>

StartVDE(n) ==
  /\ job[n] = Idle /\ ops < MaxVDEOps /\ ops' = ops + 1
  /\ proc[n] = "STOPPED" /\ proc' = [proc EXCEPT ![n] = "RUNNING"]
  /\ UNCHANGED <<role, undropped, owner, dir, job, broken>>

StopVDE(n) ==
  /\ job[n] = Idle /\ ops < MaxVDEOps /\ ops' = ops + 1
  /\ proc[n] = "RUNNING" /\ proc' = [proc EXCEPT ![n] = "STOPPED"]
  /\ UNCHANGED <<role, undropped, owner, dir, job, broken>>

\* The master stops and starts again: InitVDEManager starts a process for
\* every directory.
InitVDEManager ==
  /\ ops < MaxVDEOps /\ ops' = ops + 1
  /\ broken' = (broken \/ \E n \in VDENames : job[n] # Idle) /\ job' = [n \in VDENames |-> Idle]
  /\ proc' = [n \in VDENames |-> IF dir[n] = "none" THEN "none" ELSE "RUNNING"]
  /\ UNCHANGED <<role, undropped, owner, dir>>

Next ==
  \/ \E n \in VDENames :
       \/ DeleteVDE(n) \/ StartVDE(n) \/ StopVDE(n) \/ \E u \in VDEUsers : CreateVDE(n, u)
       \/ CreateRole(n) \/ RoleExists(n) \/ CreateDB(n) \/ InitVDEDir(n) \/ ConfigCommand(n) \/ CommandFails(n)
       \/ StartProcess(n) \/ CancelDB(n) \/ CancelFails(n) \/ CancelDir(n)
       \/ ReadConfig(n) \/ DropDatabase(n) \/ DropFails(n)
  \/ InitVDEManager

-----------------------------------------------------------------------------
\* When no operation is under way for it, a name has all of a child node or
\* nothing, and every role has its database, is of an operation under way, or is
\* one that could not be dropped: whichever steps have failed, unless the master
\* stopped within an operation or a database could not be dropped (CreateVDE and
\* its cancel functions, DeleteVDE, dropDb).
NothingLeftOver ==
  ~broken =>
    /\ \A n \in VDENames : job[n] = Idle =>
         /\ (owner[n] # "none") = (dir[n] = "config") /\ dir[n] # "empty"
         /\ proc[n] # "none" => dir[n] = "config"
         /\ owner[n] \in (role \ undropped) \cup {"none"}
    /\ role \subseteq {owner[n] : n \in VDENames} \cup {job[n].user : n \in VDENames} \cup undropped
=============================================================================
