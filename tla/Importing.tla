------------------------------ MODULE Importing ------------------------------
(***************************************************************************)
(* The import of an application: ImportUpload cuts the file into pieces    *)
(* and keeps them in buffer_data; the page of the user reads the pieces    *)
(* and sends a transaction of Import for each of them.                     *)
(***************************************************************************)
EXTENDS Integers, Sequences, FiniteSetsExt

CONSTANTS
  Importers,    \* keys with the right to do this
  ImportFiles,  \* files: [app, data], data a sequence of items [type, name, value, needs]
  ImportSlots,  \* rows that a file may have items for: pairs <<type, name>>
  PieceSize,    \* $limit = 10
  MaxUploads    \* bound on the uploads

VARIABLES
  items,        \* rows by <<type, name>>: the set of texts in the row; {} is no row
  apps,         \* 1_applications
  buffer,       \* buffer_data of the key: the file it uploaded last
  page,         \* the file that the page of the key has read
  sent,         \* the pieces of it that are imported
  uploads

importVars == <<items, apps, buffer, page, sent, uploads>>

NoFile == [app |-> "none", data |-> <<>>]
Slot(item) == <<item.type, item.name>>
\* A contract whose conditions are "false".
Locked == <<"contracts", "locked">>

Init ==
  /\ items = [s \in ImportSlots |-> IF s = Locked THEN {"old"} ELSE {}]
  /\ apps = {} /\ uploads = 0
  /\ buffer = [k \in Importers |-> NoFile] /\ page = [k \in Importers |-> NoFile] /\ sent = [k \in Importers |-> {}]

\* The items that are contracts, or those that are not, in their order.
ItemsOf(data, contracts) ==
  LET step[i \in 0..Len(data)] ==
        IF i = 0 THEN <<>>
        ELSE IF (data[i].type = "contracts") = contracts THEN Append(step[i - 1], data[i]) ELSE step[i - 1]
  IN  step[Len(data)]

\* A slip: the pieces are cut one item further than they are filled.
SlicesApart(data) ==
  LET contracts == ItemsOf(data, TRUE)
      part(n) == ItemsOf(SubSeq(data, n * (PieceSize + 1) + 1, Min({n * (PieceSize + 1) + PieceSize, Len(data)})), FALSE)
      count == (Len(data) + PieceSize) \div (PieceSize + 1)
  IN [n \in 1 .. count |-> part(n - 1)] \o IF contracts = <<>> THEN <<>> ELSE <<contracts>>

\* The pieces: the items without the contracts, so many at a time, and all the
\* contracts in one piece at the end, since they may call each other.
Slices(data) ==
  LET contracts == ItemsOf(data, TRUE)
      part(n) == ItemsOf(SubSeq(data, n * PieceSize + 1, Min({(n + 1) * PieceSize, Len(data)})), FALSE)
      count == (Len(data) + PieceSize - 1) \div PieceSize
  IN [n \in 1 .. count |-> part(n - 1)] \o IF contracts = <<>> THEN <<>> ELSE <<contracts>>

\* ImportUpload: an empty file is refused.  The application is made at once.
ImportUpload(k, file) ==
  /\ uploads < MaxUploads /\ uploads' = uploads + 1
  /\ file.data # <<>>
  /\ buffer' = [buffer EXCEPT ![k] = file]
  /\ apps' = apps \cup {file.app}
  /\ UNCHANGED <<items, page, sent>>

\* The page shows what is in the buffer.
ReadBuffer(k) ==
  /\ buffer[k] # NoFile /\ page[k] # buffer[k]
  /\ page' = [page EXCEPT ![k] = buffer[k]] /\ sent' = [sent EXCEPT ![k] = {}]
  /\ UNCHANGED <<items, apps, buffer, uploads>>

\* Editors and creators, for one item: a table that is there, and a row that may
\* not be edited, are left alone; the text of a menu is added to it.
ImportItem(rows, item) ==
  IF rows[Slot(item)] # {} /\ (item.type = "tables" \/ Slot(item) = Locked) THEN rows
  ELSE [rows EXCEPT ![Slot(item)] = IF item.type = "menu" THEN @ \cup {item.value} ELSE {item.value}]

\* The rows after each number of the items, which are taken one after the other.
Along(rows, piece) ==
  LET step[i \in 0..Len(piece)] == IF i = 0 THEN rows ELSE ImportItem(step[i - 1], piece[i])
  IN  step

\* A contract is compiled when the contracts that it calls are there.
Compiles(rows, piece) ==
  \A i \in DOMAIN piece : \A n \in piece[i].needs : Along(rows, piece)[i - 1][<<"contracts", n>>] # {}

\* Import, for the piece i of the page; the pieces go in order.  The creators
\* want an application, that of the file in the buffer.
Import(k, i) ==
  LET piece == Slices(page[k].data)[i] IN
  /\ 1 .. (i - 1) \subseteq sent[k]
  /\ buffer[k].app \in apps
  /\ Compiles(items, piece)
  /\ items' = Along(items, piece)[Len(piece)]
  /\ sent' = [sent EXCEPT ![k] = @ \cup {i}]
  /\ UNCHANGED <<apps, buffer, page, uploads>>

Next == \E k \in Importers :
  \/ \E file \in ImportFiles : ImportUpload(k, file)
  \/ ReadBuffer(k)
  \/ \E i \in DOMAIN Slices(page[k].data) : Import(k, i)

-----------------------------------------------------------------------------
\* When the pieces of a file have been imported, every item of it has its row
\* and every menu has the text that it adds, whatever other users have
\* imported over it meanwhile (ImportUpload, Import).
ImportIsWhole == \A k \in Importers :
  sent[k] # {} /\ sent[k] = DOMAIN Slices(page[k].data) =>
    \A i \in DOMAIN page[k].data :
      LET item == page[k].data[i] IN
      /\ items[Slot(item)] # {}
      /\ item.type = "menu" => item.value \in items[Slot(item)]

\* Only contracts call others, and each comes after those it calls.
CallsAreEarlier(data) == \A i \in DOMAIN data : \A n \in data[i].needs :
  data[i].type = "contracts" /\ \E j \in 1 .. (i - 1) : data[j].type = "contracts" /\ data[j].name = n

\* A file that has each contract after those it calls never stops half way: the
\* next piece of it can be compiled (the contracts in one piece, ImportUpload).
ImportGoesOn == \A k \in Importers : CallsAreEarlier(page[k].data) =>
  \A i \in DOMAIN Slices(page[k].data) :
    1 .. (i - 1) \subseteq sent[k] => Compiles(items, Slices(page[k].data)[i])

\* An import arrives as a whole, and nothing in its own file stops it half way
\* (ImportUpload, Import).
ImportArrives == ImportIsWhole /\ ImportGoesOn
=============================================================================
