----------------------------- MODULE Inventory ------------------------------
(***************************************************************************)
(* Which packages the product watches.  People add, change and retire      *)
(* entries; a watchlist file is imported entry by entry, and with          *)
(* --replace retires what it does not name (collectors/inventory.py); an   *)
(* ingestion reads the active entries as one document, creates the shell   *)
(* of every package it has not seen, and records who is listed and who no  *)
(* longer is (collectors/tasks.py, inventory_source.py).                   *)
(*                                                                         *)
(* Every change of an entry is one transaction with the row locked, and so *)
(* is every package of an ingestion; nothing holds an import or an         *)
(* ingestion together.                                                     *)
(***************************************************************************)
EXTENDS Naturals, FiniteSets

CONSTANTS
    Keys,       \* source package keys
    EntryNames, \* package names
    NoEntry,    \* no entry, name or document
    MaxChanges  \* bound: decisions of people, imports begun, renamed packages and faults

ASSUME NoEntryAssumption == NoEntry \notin EntryNames \cup [name : EntryNames, retired : BOOLEAN]
ASSUME BoundsAssumption  == MaxChanges \in Nat

VARIABLES
    inventory,  \* the entries: None, or a name and whether it is retired
    importing,  \* the import of a file, if one is going on
    ingestion,  \* the ingestion, if one is going on
    shells,     \* key |-> the name of the package created for it, or None
    newest,     \* key |-> the state of its package's newest inventory row
    changes     \* decisions taken, for the bound

inventoryVars == <<inventory, importing, ingestion, shells, newest, changes>>

Entry == [name : EntryNames, retired : BOOLEAN]

\* A document gives each key it names one name, and at least one.
Documents == {document \in [Keys -> EntryNames \cup {NoEntry}] : \E k \in Keys : document[k] # NoEntry}

NamedIn(document) == {k \in Keys : document[k] # NoEntry}

Active(k) == inventory[k] # NoEntry /\ ~inventory[k].retired

\* active_records: the document the database source answers with.
ActiveRecords == [k \in Keys |-> IF Active(k) THEN inventory[k].name ELSE NoEntry]

\* _require_name_unclaimed, and the constraint behind it.
NameUnclaimed(name, key) == \A k \in Keys \ {key} : Active(k) => inventory[k].name # name

NoImport    == [phase |-> "idle", document |-> NoEntry, replace |-> FALSE, todo |-> {}]
NoIngestion == [phase |-> "idle", document |-> NoEntry, observed |-> FALSE, failed |-> {}, todo |-> {}]

InventoryInit ==
    /\ inventory = [k \in Keys |-> NoEntry]
    /\ importing = NoImport
    /\ ingestion = NoIngestion
    /\ shells = [k \in Keys |-> NoEntry]
    /\ newest = [k \in Keys |-> "none"]
    /\ changes = 0

Decide == changes < MaxChanges /\ changes' = changes + 1

-----------------------------------------------------------------------------
(* People *)

\* add_entry: a key that has no entry yet.
AddEntry(k) ==
    /\ Decide
    /\ inventory[k] = NoEntry
    /\ \E name \in EntryNames :
           /\ NameUnclaimed(name, k)
           /\ inventory' = [inventory EXCEPT ![k] = [name |-> name, retired |-> FALSE]]
    /\ UNCHANGED <<importing, ingestion, shells, newest>>

\* change_entry: an active entry is renamed, a retired one comes back, perhaps
\* under another name.  What would change nothing is refused.
ChangeEntry(k) ==
    /\ Decide
    /\ inventory[k] # NoEntry
    /\ \E name \in EntryNames :
           /\ inventory[k] # [name |-> name, retired |-> FALSE]
           /\ NameUnclaimed(name, k)
           /\ inventory' = [inventory EXCEPT ![k] = [name |-> name, retired |-> FALSE]]
    /\ UNCHANGED <<importing, ingestion, shells, newest>>

\* retire_entry.
RetireEntry(k) ==
    /\ Decide
    /\ Active(k)
    /\ inventory' = [inventory EXCEPT ![k].retired = TRUE]
    /\ UNCHANGED <<importing, ingestion, shells, newest>>

-----------------------------------------------------------------------------
(* import_watchlist *)

BeginImport ==
    /\ Decide
    /\ importing.phase = "idle"
    /\ \E document \in Documents, replace \in BOOLEAN :
           importing' = [phase |-> "applying", document |-> document, replace |-> replace,
                         todo |-> NamedIn(document)]
    /\ UNCHANGED <<inventory, ingestion, shells, newest>>

\* Mutant of KeptRetired: the file brings a retired entry back.
Reactivated(k) == FALSE

\* What a person retired a file does not bring back.
KeptRetired(k) == inventory[k] # NoEntry /\ inventory[k].retired

\* _apply for one row of the file: the entry is created or renamed ...
ApplyRow(k) ==
    LET name == importing.document[k]
    IN  /\ importing.phase = "applying" /\ k \in importing.todo
        /\ KeptRetired(k) \/ NameUnclaimed(name, k) \/ (Active(k) /\ inventory[k].name = name)
        /\ inventory' = IF KeptRetired(k) THEN inventory
                        ELSE [inventory EXCEPT ![k] = [name |-> name, retired |-> FALSE]]
        /\ importing' = [importing EXCEPT !.todo = @ \ {k}]
        /\ UNCHANGED <<ingestion, shells, newest, changes>>

\* ... or refused, and the import ends there.
RefuseRow(k) ==
    LET name == importing.document[k]
    IN  /\ importing.phase = "applying" /\ k \in importing.todo
        /\ ~KeptRetired(k) /\ ~NameUnclaimed(name, k) /\ ~(Active(k) /\ inventory[k].name = name)
        /\ importing' = NoImport
        /\ UNCHANGED <<inventory, ingestion, shells, newest, changes>>

\* The active entries the file does not name, read once.
Unnamed(document) == {k \in Keys : Active(k)} \ NamedIn(document)

\* The rows are done.
ListUnnamed ==
    /\ importing.phase = "applying" /\ importing.todo = {}
    /\ importing' = IF importing.replace
                    THEN [importing EXCEPT !.phase = "retiring", !.todo = Unnamed(importing.document)]
                    ELSE NoImport
    /\ UNCHANGED <<inventory, ingestion, shells, newest, changes>>

\* _retire_unnamed, for one entry: somebody may have retired it meanwhile.
RetireUnnamed(k) ==
    /\ importing.phase = "retiring" /\ k \in importing.todo
    /\ inventory' = [inventory EXCEPT ![k].retired = TRUE]
    /\ importing' = [importing EXCEPT !.todo = @ \ {k}]
    /\ UNCHANGED <<ingestion, shells, newest, changes>>

\* The import ends, or the command is killed.
EndImport ==
    /\ importing.phase # "idle"
    /\ importing' = NoImport
    /\ UNCHANGED <<inventory, ingestion, shells, newest, changes>>

-----------------------------------------------------------------------------
(* InventoryIngestionCollector.sweep *)

\* The document is read in full.  One that names nothing is refused.
BeginIngestion ==
    /\ ingestion.phase = "idle"
    /\ ActiveRecords \in Documents
    /\ ingestion' = [phase |-> "observing", document |-> ActiveRecords, observed |-> FALSE,
                     failed |-> {}, todo |-> NamedIn(ActiveRecords)]
    /\ UNCHANGED <<inventory, importing, shells, newest, changes>>

\* Mutant of Observable: the package is looked for by name.
ObservableByName(k) == \A other \in Keys : shells[other] # ingestion.document[k]

\* resolve_package_shell finds the package by its key, or can create it: its
\* canonical_name is unique.
Observable(k) ==
    \/ shells[k] # NoEntry
    \/ \A other \in Keys : shells[other] # ingestion.document[k]

\* Mutant of Observe: the row is not counted.
ObserveUncounted(k) ==
    /\ ingestion.phase = "observing" /\ k \in ingestion.todo
    /\ Observable(k)
    /\ shells' = [shells EXCEPT ![k] = IF @ = NoEntry THEN ingestion.document[k] ELSE @]
    /\ newest' = [newest EXCEPT ![k] = "ok"]
    /\ ingestion' = [ingestion EXCEPT !.todo = @ \ {k}]
    /\ UNCHANGED <<inventory, importing, changes>>

\* _observe: the shell, if there is none, and the row, together.
Observe(k) ==
    /\ ingestion.phase = "observing" /\ k \in ingestion.todo
    /\ Observable(k)
    /\ shells' = [shells EXCEPT ![k] = IF @ = NoEntry THEN ingestion.document[k] ELSE @]
    /\ newest' = [newest EXCEPT ![k] = "ok"]
    /\ ingestion' = [ingestion EXCEPT !.todo = @ \ {k}, !.observed = TRUE]
    /\ UNCHANGED <<inventory, importing, changes>>

\* The database refuses the shell, or whatever else of the record: it is a
\* failure, nothing of it is kept, and the rest go on.
Fail(k) ==
    /\ ingestion.phase = "observing" /\ k \in ingestion.todo
    /\ IF Observable(k) THEN Decide ELSE UNCHANGED changes
    /\ ingestion' = [ingestion EXCEPT !.todo = @ \ {k}, !.failed = @ \cup {k}]
    /\ UNCHANGED <<inventory, importing, shells, newest>>

\* Mutant of Departed: judged by the entries of now.
DepartedByNow == {k \in Keys : newest[k] = "ok" /\ ~Active(k)}

\* The packages whose newest row says listed and whom this document does not
\* name, written or not.
Departed == {k \in Keys : ingestion.document[k] = NoEntry /\ newest[k] = "ok"}

\* Absences are derived only by an ingestion that observed something.
ListDeparted ==
    /\ ingestion.phase = "observing" /\ ingestion.todo = {}
    /\ ingestion' = IF ingestion.observed THEN [ingestion EXCEPT !.phase = "departing", !.todo = Departed]
                    ELSE NoIngestion
    /\ UNCHANGED <<inventory, importing, shells, newest, changes>>

\* _observe_absences, for one package.
ObserveAbsence(k) ==
    /\ ingestion.phase = "departing" /\ k \in ingestion.todo
    /\ newest' = [newest EXCEPT ![k] = "not_found"]
    /\ ingestion' = [ingestion EXCEPT !.todo = @ \ {k}]
    /\ UNCHANGED <<inventory, importing, shells, changes>>

\* The run ends ...
EndIngestion ==
    /\ ingestion.phase = "departing" /\ ingestion.todo = {}
    /\ ingestion' = NoIngestion
    /\ UNCHANGED <<inventory, importing, shells, newest, changes>>

\* ... or its worker dies, or an absence is refused, which fails the run.
Die ==
    /\ ingestion.phase # "idle"
    /\ Decide
    /\ ingestion' = NoIngestion
    /\ UNCHANGED <<inventory, importing, shells, newest>>

\* An override gives a package another name nobody has (Identity).
Rename(k) ==
    /\ Decide
    /\ shells[k] # NoEntry
    /\ \E name \in EntryNames :
           /\ \A other \in Keys : shells[other] # name
           /\ shells' = [shells EXCEPT ![k] = name]
    /\ UNCHANGED <<inventory, importing, ingestion, newest>>

IngestionStep ==
    \/ BeginIngestion \/ ListDeparted \/ EndIngestion
    \/ \E k \in Keys : Observe(k) \/ Fail(k) \/ ObserveAbsence(k)

ImportStep ==
    \/ ListUnnamed \/ EndImport
    \/ \E k \in Keys : ApplyRow(k) \/ RefuseRow(k) \/ RetireUnnamed(k)

InventoryNext ==
    \/ IngestionStep
    \/ ImportStep
    \/ BeginImport \/ Die
    \/ \E k \in Keys : AddEntry(k) \/ ChangeEntry(k) \/ RetireEntry(k) \/ Rename(k)

InventorySpec == InventoryInit /\ [][InventoryNext]_inventoryVars

\* The schedule asks for an ingestion again and again, and one that runs goes
\* on.
InventoryFairSpec == InventorySpec /\ WF_inventoryVars(IngestionStep)

-----------------------------------------------------------------------------
(* Properties *)

InventoryTypeOK ==
    /\ inventory \in [Keys -> Entry \cup {NoEntry}]
    /\ importing \in [phase : {"idle", "applying", "retiring"}, document : Documents \cup {NoEntry},
                      replace : BOOLEAN, todo : SUBSET Keys]
    /\ ingestion \in [phase : {"idle", "observing", "departing"}, document : Documents \cup {NoEntry},
                      observed : BOOLEAN, failed : SUBSET Keys, todo : SUBSET Keys]
    /\ shells \in [Keys -> EntryNames \cup {NoEntry}]
    /\ newest \in [Keys -> {"none", "ok", "not_found"}]
    /\ changes \in 0..MaxChanges

\* A file respects retirement: no step of an import brings a retired entry back
\* or retires an entry its file names, whoever changes entries meanwhile
\* (import_watchlist, _retire_unnamed).
FileRespectsRetirement ==
    [][importing' # importing =>
          \A k \in Keys :
              /\ (inventory[k] # NoEntry /\ inventory[k].retired) => inventory'[k] = inventory[k]
              /\ (Active(k) /\ inventory'[k].retired) => importing.document[k] = NoEntry]_inventoryVars

\* An ingestion that ends, and observed anything, leaves the newest row of
\* every package saying what its document said, except of those it names as
\* failures; and no step of one calls a package gone that its document names,
\* one that could not be written least of all (persist_sweep).
RowsSayWhatTheDocumentSaid ==
    [][/\ EndIngestion =>
              \A k \in Keys : IF ingestion.document[k] = NoEntry THEN newest[k] # "ok"
                              ELSE newest[k] = "ok" \/ k \in ingestion.failed
       /\ \A k \in Keys : newest'[k] = "not_found" => (newest[k] = "not_found" \/ ingestion.document[k] = NoEntry)
      ]_inventoryVars

Blocked(k) == shells[k] = NoEntry /\ \E other \in Keys : shells[other] = inventory[k].name

\* What stays active is observed in the end, unless another package has the
\* name its own would get: a key retired for another of the same name, or a
\* package renamed to it, keeps it unseen for good.
ListedIsObserved ==
    \A k \in Keys : <>[]Active(k) => ([]<>(newest[k] = "ok") \/ []<>(Active(k) /\ Blocked(k)))

\* What stays retired is recorded as gone in the end, as long as the inventory
\* still lists something that can be observed: an empty one is refused.
DepartureIsRecorded ==
    \A k \in Keys :
        (<>[]~Active(k) /\ <>[](\E other \in Keys : Active(other) /\ ~Blocked(other))) =>
            <>[](newest[k] # "ok")
=============================================================================
