----------------------------- MODULE Notificator -----------------------------
(***************************************************************************)
(* Notifications: the transactions of a block write the rows and name the  *)
(* users or roles concerned; after the commit the node counts the open     *)
(* notifications of each of them, compares the counts with those it sent   *)
(* last and publishes what has changed.  A client may also ask.  The node  *)
(* may restart, and blocks may be undone, of which nobody is told.         *)
(***************************************************************************)
EXTENDS Integers, Sequences, FiniteSets

CONSTANTS
  Ecos,        \* ecosystems; 1 is the first
  NoteUsers,
  NoteRole,    \* a role, held by all of NoteUsers
  MaxNotes     \* bound on the changes of notifications

VARIABLES
  notes,    \* rows of 1_notifications: [eco, to, open, taken], to a user or the role
  undoNotes, \* the rows before each block: what rollback_tx brings back
  told,     \* b.Notifications of the block just committed
  last,     \* lastMessagesStats, in memory only
  shown,    \* what the client has been sent last
  asked,    \* counts read by SendNotificationsByRequest and not yet sent
  stale,    \* history: the client missed a change or was sent something old, or
            \* the node has forgotten what it was sent
  changes

noteVars == <<notes, undoNotes, told, last, shown, asked, stale, changes>>

Pairs == Ecos \X NoteUsers
NoStats == [r \in {0, NoteRole} |-> 0]
Nothing == [who |-> "nobody"]

Init ==
  /\ notes = <<>> /\ undoNotes = <<>> /\ told = <<>> /\ changes = 0
  /\ last = [p \in Pairs |-> NoStats] /\ shown = [p \in Pairs |-> NoStats]
  /\ asked = Nothing /\ stale = [p \in Pairs |-> FALSE]

\* GetNotificationsCount: by role, 0 for the user's own.  A notification of the
\* role that someone works on counts for him alone.
Stats(p) ==
  LET mine(r) == {k \in DOMAIN notes :
        /\ notes[k].eco = p[1] /\ notes[k].open
        /\ IF r = 0 THEN notes[k].to = p[2]
           ELSE notes[k].to = r /\ notes[k].taken \in {"nobody", p[2]}}
  IN [r \in {0, NoteRole} |-> Cardinality(mine(r))]

\* GetRoleMembers reads the table <ecosystem>_roles_participants; there is one
\* for the first ecosystem only.
GetRoleMembers(e) == IF e = 1 THEN NoteUsers ELSE {}

Records(stats) == {r \in DOMAIN stats : stats[r] > 0}

\* A slip: only the number of records is looked at.
lengthChanged(source, new) == Cardinality(Records(source)) # Cardinality(Records(new))

statsChanged(source, new) ==
  \/ Cardinality(Records(source)) # Cardinality(Records(new))
  \/ \E r \in Records(new) : source[r] # new[r]

-----------------------------------------------------------------------------
\* A transaction of a block that PlaySafe plays writes a row and calls
\* UpdateNotifications or UpdateRolesNotifications.
Tell(e, to) == told' = Append(told, [eco |-> e, to |-> to])

\* The block is committed; a block of processBlocks (safe is FALSE) tells nobody.
Write(e, to, safe) ==
  /\ IF safe THEN Tell(e, to) /\ UNCHANGED stale
     ELSE stale' = [p \in Pairs |-> stale[p] \/ p[1] = e] /\ UNCHANGED told
  /\ told = <<>> /\ changes < MaxNotes /\ changes' = changes + 1
  /\ undoNotes' = Append(undoNotes, notes)
  /\ UNCHANGED <<last, shown, asked>>

NewNote(e, to, safe) ==
  /\ notes' = Append(notes, [eco |-> e, to |-> to, open |-> TRUE, taken |-> "nobody"])
  /\ Write(e, to, safe)

CloseNote(k, safe) ==
  /\ notes[k].open
  /\ notes' = [notes EXCEPT ![k].open = FALSE]
  /\ Write(notes[k].eco, notes[k].to, safe)

TakeNote(k, u) ==
  /\ notes[k].open /\ notes[k].to = NoteRole /\ notes[k].taken = "nobody"
  /\ notes' = [notes EXCEPT ![k].taken = u]
  /\ Write(notes[k].eco, NoteRole, TRUE)

\* UpdateNotifications for the users of the first item of the block.  The
\* publisher may fail; the counts are remembered all the same.
UpdateNotifications(lost) ==
  LET item == Head(told)
      users == IF item.to = NoteRole THEN GetRoleMembers(item.eco) ELSE {item.to}
      sends == {p \in Pairs : p[1] = item.eco /\ p[2] \in users /\ statsChanged(last[p], Stats(p))}
  IN
  /\ told # <<>> /\ told' = Tail(told)
  /\ last' = [p \in Pairs |-> IF p \in sends THEN Stats(p) ELSE last[p]]
  /\ shown' = [p \in Pairs |-> IF p \in sends /\ ~lost THEN Stats(p) ELSE shown[p]]
  /\ stale' = [p \in Pairs |-> IF p \in sends THEN lost ELSE stale[p]]
  /\ UNCHANGED <<notes, undoNotes, asked, changes>>

\* SendNotificationsByRequest, in a goroutine of its own; a user without
\* notifications is sent nothing.
ReadByRequest(p) ==
  /\ asked = Nothing /\ changes < MaxNotes /\ changes' = changes + 1
  /\ Records(Stats(p)) # {}
  /\ asked' = [who |-> p, stats |-> Stats(p)]
  /\ UNCHANGED <<notes, undoNotes, told, last, shown, stale>>

SendByRequest ==
  /\ asked # Nothing /\ asked' = Nothing
  /\ shown' = [shown EXCEPT ![asked.who] = asked.stats]
  /\ stale' = [stale EXCEPT ![asked.who] = @ \/ asked.stats # Stats(asked.who)]
  /\ UNCHANGED <<notes, undoNotes, told, last, changes>>

\* The last block is undone: its rows are as before, and nobody is told.
RollbackBlock ==
  /\ told = <<>> /\ undoNotes # <<>>
  /\ notes' = undoNotes[Len(undoNotes)] /\ undoNotes' = SubSeq(undoNotes, 1, Len(undoNotes) - 1)
  /\ stale' = [p \in Pairs |-> stale[p] \/ Stats(p)' # Stats(p)]
  /\ UNCHANGED <<told, last, shown, asked, changes>>

\* The node starts anew: it remembers nothing that it has sent, and does not tell
\* of the block that it has committed last.
Restart ==
  /\ told' = <<>> /\ last' = [p \in Pairs |-> NoStats] /\ asked' = Nothing
  /\ stale' = [p \in Pairs |-> stale[p] \/ shown[p] # NoStats \/ Stats(p) # NoStats]
  /\ UNCHANGED <<notes, undoNotes, shown, changes>>

Next ==
  \/ \E e \in Ecos, to \in NoteUsers \cup {NoteRole}, safe \in BOOLEAN : NewNote(e, to, safe)
  \/ \E k \in DOMAIN notes : TakeNote(k, CHOOSE u \in NoteUsers : TRUE) \/ \E safe \in BOOLEAN : CloseNote(k, safe)
  \/ \E lost \in BOOLEAN : UpdateNotifications(lost)
  \/ \E p \in Pairs : ReadByRequest(p)
  \/ SendByRequest \/ RollbackBlock \/ Restart

-----------------------------------------------------------------------------
\* A member of the first ecosystem has been shown the number of his open
\* notifications, unless the last that concerned him was a message lost or
\* overtaken, a block that came with others or was undone, or a restart of the
\* node: from the next message that he is sent it is true again
\* (UpdateNotifications, statsChanged, lastMessages).
ShownIsTrue ==
  told = <<>> => \A p \in Pairs : p[1] = 1 /\ ~stale[p] => shown[p] = Stats(p)
=============================================================================
