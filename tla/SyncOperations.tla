--------------------------- MODULE SyncOperations ---------------------------
(***************************************************************************)
(* What the caller of rdma_read, rdma_write, read_class and ow_read sees:  *)
(* synchronous operations, one at a time.  When a read returns, every cell *)
(* it fills was fetched by that very call; when a write returns, the       *)
(* server's memory was written by it; and every call returns.  All this    *)
(* until the connection is lost: then a call may return with old contents  *)
(* or not at all.                                                          *)
(***************************************************************************)
EXTENDS Naturals, Sequences

CONSTANTS
    Program,     \* the operations, in order
    Cell,        \* local memory
    Cells(_)     \* the cells an operation fills

VARIABLES
    op,          \* the operation that is running, or comes next
    running,
    local,       \* per cell, the operation that fetched it last
    written,     \* the last operation that wrote remote memory
    lost         \* the connection

syncVars == <<op, running, local, written, lost>>

Init ==
    /\ op = 1
    /\ running = FALSE
    /\ local = [c \in Cell |-> 0]
    /\ written = 0
    /\ lost = FALSE

Begin ==
    /\ ~running
    /\ op <= Len(Program)
    /\ running' = TRUE
    /\ UNCHANGED <<op, local, written, lost>>

Fetch(c) ==
    /\ running
    /\ ~lost
    /\ c \in Cells(Program[op])
    /\ local' = [local EXCEPT ![c] = op]
    /\ UNCHANGED <<op, running, written, lost>>

Write ==
    /\ running
    /\ ~lost
    /\ Program[op] = "write"
    /\ written' = op
    /\ UNCHANGED <<op, running, local, lost>>

\* The operation has done its work.
Done ==
    /\ \A c \in Cells(Program[op]) : local[c] = op
    /\ Program[op] = "write" => written = op

Return ==
    /\ running
    /\ lost \/ Done
    /\ running' = FALSE
    /\ op' = op + 1
    /\ UNCHANGED <<local, written, lost>>

Lose ==
    /\ lost' = TRUE
    /\ UNCHANGED <<op, running, local, written>>

Operate == Begin \/ (\E c \in Cell : Fetch(c)) \/ Write \/ Return

Next == Operate \/ Lose

Spec == Init /\ [][Next]_syncVars /\ WF_syncVars(~lost /\ Operate)

=============================================================================
