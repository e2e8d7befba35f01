------------------------------ MODULE StoreSchema ------------------------------
(***************************************************************************)
(* Opening the store (connect and init_kb_schema of pipeline/kb/schema.py):*)
(* there is no migration step, every process that opens it for writing     *)
(* brings it up to date, statement by statement, beside others that do the *)
(* same and beside builds of an older date that still write to it.         *)
(*                                                                         *)
(* SQLite lets one transaction write at a time, and refuses at once one    *)
(* that read first and wants to write after somebody else has committed;   *)
(* no busy_timeout helps that (fresh).  What is refused raises, and ends    *)
(* the opening.  Columns stand for themselves; the rows whose identity a   *)
(* rebuild touches are those of sittings.                                  *)
(***************************************************************************)
EXTENDS Naturals, FiniteSets

CONSTANTS
  Openers,       \* processes that open the store, over and over
  Rows,          \* sittings
  StoresFound,        \* stores they may find: columns, the keys of the rows, what is owed
  MaxUpsets      \* bound on the deaths, the commits of others and what old builds write

\* Columns an opening adds to an older store, and those it drops again, in its order
\* and each with its table.
AddedColumns == {"region_key"}
DroppedColumns == <<"lam", "cost_usd", "read_status">>
TableOf(c) == IF c = "cost_usd" THEN "receipts" ELSE "sittings"
DroppedFrom(table) == {c \in {DroppedColumns[i] : i \in 1 .. 3} : TableOf(c) = table}

\* What a row may lack that an older build did not write: the date of arrival, the
\* confirmation, the entry mode by its present name, the claim on a query.
Debts == {"arrival", "confirmation", "mode", "claim"}

ASSUME SchemaAssumption ==
  /\ MaxUpsets \in Nat
  /\ \A s \in StoresFound : /\ s.columns \subseteq AddedColumns \cup {DroppedColumns[i] : i \in 1 .. 3}
                       /\ s.keys \in [Rows -> {"none", "absent", "old", "new"}] /\ s.owed \subseteq Debts

VARIABLES
  columns,       \* of those above, the ones the tables have
  keys,          \* region_key of each row: absent, by the recipe with lam or without; none: no row
  owed,          \* debts some row has
  orphans,       \* tables of which an interrupted rebuild of old left a copy behind
  opener,        \* per process: where it is, the next column to drop, what it has
                 \* seen and whether its snapshot is that of the last commit
  strokes        \* upsets so far

schemaVars == <<columns, keys, owed, orphans, opener, strokes>>

Shut == [at |-> "shut", next |-> 1, seen |-> {}, fresh |-> TRUE]

\* A store for these processes to open, or one that nobody opens.
SchemaInit(on) ==
  /\ \E s \in StoresFound :
       /\ columns = s.columns /\ keys = s.keys /\ owed = s.owed
       /\ on \/ s = CHOOSE t \in StoresFound : TRUE
  /\ orphans \in IF on THEN {{}, {"sittings"}} ELSE {{}}
  /\ opener = [p \in Openers |-> IF on THEN Shut ELSE [Shut EXCEPT !.at = "away"]]
  /\ strokes = 0

Is(p, place) == opener[p].at = place
Stroke == strokes < MaxUpsets /\ strokes' = strokes + 1

\* p goes on with the record r, and what it committed overtakes every snapshot.
GoesOn(p, r) == opener' = [opener EXCEPT ![p] = r]
Commits(p, r) ==
  opener' = [q \in Openers |-> IF q = p THEN r ELSE [opener[q] EXCEPT !.fresh = FALSE]]
Raises(p) == GoesOn(p, Shut)

--------------------------------------------------------------------------------
(* An opening. *)

\* connect: busy_timeout, WAL, and the DDL, which makes what is not there.
Connects(p) ==
  /\ Is(p, "shut") /\ GoesOn(p, [opener[p] EXCEPT !.at = "adds"])
  /\ UNCHANGED <<columns, keys, owed, orphans, strokes>>

\* _ensure_column: the table is looked at ...
LooksForColumn(p) ==
  /\ Is(p, "adds")
  /\ IF AddedColumns \subseteq columns THEN GoesOn(p, [opener[p] EXCEPT !.at = "drops"])
     ELSE \E c \in AddedColumns \ columns : GoesOn(p, [opener[p] EXCEPT !.at = "alters", !.seen = {c}])
  /\ UNCHANGED <<columns, keys, owed, orphans, strokes>>

\* ... and altered, which raises if somebody else has done so meanwhile.
AddsColumn(p) ==
  /\ Is(p, "alters")
  /\ IF opener[p].seen \cap columns /= {} THEN Raises(p) /\ UNCHANGED columns
     ELSE /\ columns' = columns \cup opener[p].seen
          /\ Commits(p, [opener[p] EXCEPT !.at = "adds", !.seen = {}])
  /\ UNCHANGED <<keys, owed, orphans, strokes>>

\* _rebuild_without: no write when the column is gone already ...
LooksForDropped(p) ==
  /\ Is(p, "drops")
  /\ LET n == opener[p].next IN
     GoesOn(p,
       IF n > 3 THEN [opener[p] EXCEPT !.at = "reads"]
       ELSE IF DroppedColumns[n] \in columns THEN [opener[p] EXCEPT !.at = "rebuilds", !.fresh = TRUE]
       ELSE [opener[p] EXCEPT !.next = n + 1])
  /\ UNCHANGED <<columns, keys, owed, orphans, strokes>>

\* A slip: the copy of an interrupted rebuild is in the way.
MayCreate_Orphaned(table) == table \notin orphans

\* DROP TABLE IF EXISTS goes before CREATE TABLE.
MayCreate(table) == TRUE

\* ... and else one transaction: the table as the DDL has it now, without any column
\* that was ever dropped, and the keys made by the old recipe with them.
Rebuilds(p) ==
  /\ Is(p, "rebuilds")
  /\ LET c == DroppedColumns[opener[p].next] IN
     IF opener[p].fresh /\ MayCreate(TableOf(c))
     THEN /\ columns' = columns \ DroppedFrom(TableOf(c))
          /\ keys' = IF c /= "lam" THEN keys
                     ELSE [r \in Rows |-> IF keys[r] = "none" THEN "none" ELSE "absent"]
          /\ orphans' = orphans \ {TableOf(c)}
          /\ Commits(p, [opener[p] EXCEPT !.at = "drops", !.next = @ + 1])
     ELSE Raises(p) /\ UNCHANGED <<columns, keys, orphans>>
  /\ UNCHANGED <<owed, strokes>>

\* _backfill_region_keys reads the rows without a key; from its first UPDATE to the
\* commit at the end of the opening all is one transaction.
ReadsKeys(p) ==
  /\ Is(p, "reads")
  /\ GoesOn(p, [opener[p] EXCEPT !.at = "heals", !.fresh = TRUE,
                                   !.seen = {r \in Rows : keys[r] = "absent"}])
  /\ UNCHANGED <<columns, keys, owed, orphans, strokes>>

\* A slip: the backfills run whether or not a row needs them.
HasToWrite_Always(p) == TRUE

\* Each backfill looks first whether any row needs it.
HasToWrite(p) == opener[p].seen /= {} \/ owed /= {}

Opened(p) == [Shut EXCEPT !.at = "open"]

\* The keys, the confirmations, the dates, the names of modes and the claims.
Heals(p) ==
  /\ Is(p, "heals")
  /\ IF ~HasToWrite(p) THEN GoesOn(p, Opened(p)) /\ UNCHANGED <<keys, owed>>
     ELSE IF opener[p].fresh
     THEN /\ keys' = [r \in Rows |-> IF r \in opener[p].seen THEN "new" ELSE keys[r]]
          /\ owed' = {}
          /\ Commits(p, Opened(p))
     ELSE Raises(p) /\ UNCHANGED <<keys, owed>>
  /\ UNCHANGED <<columns, orphans, strokes>>

Closes(p) ==
  /\ Is(p, "open") /\ Raises(p)
  /\ UNCHANGED <<columns, keys, owed, orphans, strokes>>

--------------------------------------------------------------------------------
(* What goes on meanwhile. *)

\* A process that has the store open writes to it.
OpenWrites(p) ==
  /\ Is(p, "open") /\ Stroke
  /\ Commits(p, opener[p])
  /\ UNCHANGED <<columns, keys, owed, orphans>>

OpenerDies(p) ==
  /\ opener[p].at \notin {"shut", "away"} /\ Stroke /\ Raises(p)
  /\ UNCHANGED <<columns, keys, owed, orphans>>

\* A build of an older date leaves rows as it knows them; where a column it names is
\* gone, it fails.
OldBuildWrites ==
  /\ \E p \in Openers : ~Is(p, "away")
  /\ Stroke
  /\ \/ /\ "lam" \in columns
        /\ \E r \in Rows, k \in {"absent"} \cup (IF "region_key" \in columns THEN {"old"} ELSE {}) :
             keys[r] = "none" /\ keys' = [keys EXCEPT ![r] = k]
        /\ UNCHANGED owed
     \/ \E d \in Debts \ owed : owed' = owed \cup {d} /\ UNCHANGED keys
  /\ opener' = [q \in Openers |-> [opener[q] EXCEPT !.fresh = FALSE]]
  /\ UNCHANGED <<columns, orphans>>

OpeningStep(p) ==
  \/ Connects(p) \/ LooksForColumn(p) \/ AddsColumn(p) \/ LooksForDropped(p) \/ Rebuilds(p)
  \/ ReadsKeys(p) \/ Heals(p) \/ Closes(p)

SchemaNext ==
  \/ \E p \in Openers : OpeningStep(p) \/ OpenWrites(p) \/ OpenerDies(p)
  \/ OldBuildWrites

\* Rails open the store again and again, and what is begun goes on.
SchemaFairness == \A p \in Openers : WF_schemaVars(OpeningStep(p))

--------------------------------------------------------------------------------
UpToDate ==
  /\ columns = AddedColumns /\ owed = {}
  /\ \A r \in Rows : keys[r] \in {"none", "new"}

\* Openers do the same things; this is one of them.
Watched == CHOOSE p \in Openers : TRUE

\* Whatever store is found, however many open it at once, die half way or are overtaken,
\* and whatever older builds still write: nobody is refused for ever, nothing an opening
\* leaves undone is lost on the next ("nothing left to notice"), and so a process gets its
\* store open again and again and finds it up to date, no row keyed by the old recipe
\* (_rebuild_without, _backfill_region_keys and their docstrings).
StoreOpens == []<>(Is(Watched, "away") \/ (Is(Watched, "open") /\ UpToDate))
================================================================================
