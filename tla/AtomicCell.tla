------------------------------ MODULE AtomicCell ------------------------------
(***************************************************************************)
(* What a metadata pair promises to the directory code above it: a cell    *)
(* whose content is replaced as a whole.  A commit that is acknowledged is *)
(* the content from then on, whatever happens; a commit that is cut short  *)
(* by a power loss, or that reports an error, leaves either the content    *)
(* from before or its own, and nothing else.                               *)
(***************************************************************************)
CONSTANTS Value,    \* contents a directory can have
          Absent    \* the content of a pair no parent points at yet

VARIABLES cell,     \* what a mount would find now
          maybe     \* what a mount may find if the power fails at any moment

vars == <<cell, maybe>>

Content == Value \union {Absent}

Init == /\ cell \in Content
        /\ maybe = {cell}

\* A commit of v starts; until it is decided both contents are possible.
Invoke(v) == /\ maybe' = maybe \union {v}
             /\ UNCHANGED cell

\* The storage moves between the contents that are possible.
Settle == /\ cell' \in maybe
          /\ UNCHANGED maybe

\* The commit returns, with success or with an error, or the power fails: one of
\* the contents is left.  An operation that reports success leaves its own.
Decide == /\ cell' \in maybe
          /\ maybe' = {cell'}

Next == \/ Settle
        \/ Decide
        \/ \E v \in Value : Invoke(v)

Spec == Init /\ [][Next]_vars

===============================================================================
