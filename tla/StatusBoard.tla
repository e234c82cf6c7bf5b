----------------------------- MODULE StatusBoard -----------------------------
(***************************************************************************)
(* What MarkBackendStatus promises: marking a URL writes the verdict to    *)
(* every entry of the table with that URL, each entry exactly once and     *)
(* atomically, in no particular order and interleaved with the marks of    *)
(* other goroutines.  The abstract board has no loop, no URL comparison    *)
(* and no load before the store.                                           *)
(***************************************************************************)
CONSTANTS
    Callers, \* goroutines that mark backends
    Entries, \* entries of the table
    Groups   \* the sets of entries that one mark is about

VARIABLES
    alive, \* the status of each entry
    todo,  \* the entries each caller still has to write
    val    \* the verdict each caller is writing

boardVars == <<alive, todo, val>>

BoardInit ==
    /\ alive = [b \in Entries |-> TRUE]
    /\ todo = [c \in Callers |-> {}]
    /\ val = [c \in Callers |-> FALSE]

\* The verdict of an idle caller is FALSE: it has none.
Begin(c, g, v) ==
    /\ todo[c] = {}
    /\ todo' = [todo EXCEPT ![c] = g]
    /\ val' = [val EXCEPT ![c] = g # {} /\ v]
    /\ UNCHANGED alive

Write(c, b) ==
    /\ b \in todo[c]
    /\ alive' = [alive EXCEPT ![b] = val[c]]
    /\ todo' = [todo EXCEPT ![c] = @ \ {b}]
    /\ val' = [val EXCEPT ![c] = todo[c] # {b} /\ @]

BoardNext ==
    \E c \in Callers :
       \/ \E g \in Groups, v \in BOOLEAN : Begin(c, g, v)
       \/ \E b \in Entries : Write(c, b)

\* A mark that has begun is finished.
BoardFairness == \A c \in Callers : WF_boardVars(\E b \in Entries : Write(c, b))

BoardSpec == BoardInit /\ [][BoardNext]_boardVars /\ BoardFairness
=============================================================================
