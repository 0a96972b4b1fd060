--------------------------- MODULE AccountPlacement ---------------------------
(***************************************************************************)
(* What moving an Account between cells promises its customers, without    *)
(* leases, checkpoints, copies or queues.  An Account has one home cell    *)
(* and one set of rows.  A move changes the home and keeps every row.  A   *)
(* rollback returns to the cell the Account came from with the rows it     *)
(* moved with; only what was accepted at the abandoned destination is      *)
(* dropped.  AccountMovement implements this specification.                *)
(***************************************************************************)
EXTENDS Naturals

CONSTANTS
    Cells,          \* cells an Account can be placed in
    Writes,         \* customer writes
    QueuedWrites    \* the writes that leave an unfinished queue entry behind

VARIABLES
    home,           \* the cell that owns the Account
    generation,     \* grows with every change of home
    rows,           \* the Account's rows: [Writes -> RowStates]
    base,           \* the rows at the last move, what a rollback returns to
    undoable,       \* the last move can still be rolled back
    undone,         \* some move has been rolled back
    dropped         \* acknowledged writes a rollback gave up

placementVars == <<home, generation, rows, base, undoable, undone, dropped>>

RowStates == {"absent", "queued", "done"}
NoRows == [w \in Writes |-> "absent"]
Present(r) == {w \in Writes : r[w] # "absent"}

PlacementInit ==
    /\ home \in Cells
    /\ generation = 1
    /\ rows = NoRows
    /\ base = NoRows
    /\ undoable = FALSE
    /\ undone = FALSE
    /\ dropped = {}

\* A customer write is acknowledged.
AcceptWrite(w) ==
    /\ w \notin Present(rows) \cup dropped
    /\ rows' = [rows EXCEPT ![w] = IF w \in QueuedWrites THEN "queued" ELSE "done"]
    /\ UNCHANGED <<home, generation, base, undoable, undone, dropped>>

\* A worker finishes the queue entry of an earlier write.
FinishEntry(w) ==
    /\ rows[w] = "queued"
    /\ rows' = [rows EXCEPT ![w] = "done"]
    /\ UNCHANGED <<home, generation, base, undoable, undone, dropped>>

\* The Account changes cell with all of its rows, none of them unfinished.
ChangeHome(c) ==
    /\ c # home
    /\ \A w \in Writes : rows[w] # "queued"
    /\ home' = c
    /\ generation' = generation + 1
    /\ base' = rows
    /\ undoable' = TRUE
    /\ UNCHANGED <<rows, undone, dropped>>

\* The Account returns, once, to the cell and the rows it moved with.
UndoChange(c) ==
    /\ undoable
    /\ c # home
    /\ home' = c
    /\ generation' = generation + 1
    /\ rows' = base
    /\ dropped' = dropped \cup (Present(rows) \ Present(base))
    /\ undoable' = FALSE
    /\ undone' = TRUE
    /\ UNCHANGED base

\* The old copy is given up and the move can no longer be rolled back.
SettleChange ==
    /\ undoable
    /\ undoable' = FALSE
    /\ UNCHANGED <<home, generation, rows, base, undone, dropped>>

\* A write the abandoned destination still accepts after a rollback.  Nothing
\* is dropped this way before a rollback has happened.
AcceptAbandoned(w) ==
    /\ undone
    /\ w \notin Present(rows) \cup dropped
    /\ dropped' = dropped \cup {w}
    /\ UNCHANGED <<home, generation, rows, base, undoable, undone>>

PlacementNext ==
    \/ \E w \in Writes : AcceptWrite(w) \/ FinishEntry(w) \/ AcceptAbandoned(w)
    \/ \E c \in Cells : ChangeHome(c) \/ UndoChange(c)
    \/ SettleChange

PlacementSpec == PlacementInit /\ [][PlacementNext]_placementVars
===============================================================================
