------------------------------ MODULE SyncedFile ----------------------------
(***************************************************************************)
(* What an open file promises.  What is written is seen through the handle *)
(* at once, and by a later mount only when a sync or the close has saved   *)
(* it, the whole content in one step.  A call that reports an error has    *)
(* done part of its work; what it left is saved by no sync until a later   *)
(* write succeeds, or all of it.                                           *)
(***************************************************************************)
EXTENDS Naturals, SequencesExt

CONSTANTS Zero,     \* the content of a hole
          Data,     \* what may be written
          MaxSize,  \* lfs->file_max
          Absent,   \* no file
          Closed    \* no handle

VARIABLES saved,    \* what a mount would find
          view,     \* the content of the file through the handle
          pos,      \* the position of the handle
          got,      \* what the last read returned
          result,   \* "ok" or "error", what the last call returned
          busy,     \* a call runs
          failed    \* a call has failed and no write has succeeded since

vars == <<saved, view, pos, got, result, busy, failed>>

Content == {s \in Seq({Zero} \union Data) : Len(s) <= MaxSize}

\* Content s with cells t from place p on, a hole filled with zeros.
Put(s, p, t) ==
    [j \in 1 .. (IF Len(s) > p + Len(t) THEN Len(s) ELSE p + Len(t)) |->
        IF j > p /\ j <= p + Len(t) THEN t[j - p]
        ELSE IF j <= Len(s) THEN s[j] ELSE Zero]

Least(a, b) == IF a < b THEN a ELSE b

\* A call returns without an error.
Ok(good) == busy /\ ~busy' /\ result' = "ok" /\ failed' = (failed /\ ~good)

Init == /\ saved \in Content \union {Absent}
        /\ view = Closed
        /\ pos = 0
        /\ got = <<>>
        /\ result = "ok"
        /\ busy = FALSE
        /\ failed = FALSE

\* A file is created when it is opened; truncating it on open is not saved yet.
Open == /\ view = Closed /\ ~busy
        /\ view' \in {saved, <<>>} \ {Absent}
        /\ saved' \in {saved, <<>>}
        /\ saved = Absent <=> saved' # saved
        /\ pos' = 0
        /\ result' = "ok" /\ failed' = FALSE
        /\ UNCHANGED <<got, busy>>

Call == /\ ~busy /\ busy'
        /\ UNCHANGED <<saved, view, pos, got, result, failed>>

Write(v, n) == \E p \in {pos, Len(view)} :
    /\ Ok(TRUE)
    /\ p + n <= MaxSize
    /\ view' = Put(view, p, [j \in 1 .. n |-> v])
    /\ pos' = p + n
    /\ UNCHANGED <<saved, got>>

Read(n) ==
    /\ Ok(FALSE)
    /\ got' = SubSeq(view, pos + 1, Least(pos + n, Len(view)))
    /\ pos' = pos + Len(got')
    /\ UNCHANGED <<saved, view>>

Seek(p) == Ok(FALSE) /\ pos' = p /\ UNCHANGED <<saved, view, got>>

Truncate(s) ==
    /\ Ok(s > Len(view))
    /\ view' = IF s <= Len(view) THEN SubSeq(view, 1, s)
               ELSE Put(view, Len(view), [j \in 1 .. s - Len(view) |-> Zero])
    /\ UNCHANGED <<saved, pos, got>>

\* The commit of a sync, and its return: all is saved unless a call has failed.
Save == busy /\ saved' = view /\ UNCHANGED <<view, pos, got, result, busy, failed>>
Sync == /\ Ok(FALSE)
        /\ saved' \in {saved, view}
        /\ failed \/ saved' = view
        /\ UNCHANGED <<view, pos, got>>

Close == /\ Ok(FALSE)
         /\ failed \/ saved = view
         /\ view' = Closed /\ pos' = 0
         /\ UNCHANGED <<saved, got>>

\* A call fails: some of what it was to write is there, and the position may have
\* moved.  The handle of a failed close is closed all the same.
Fail == /\ busy /\ ~busy'
        /\ result' = "error" /\ failed' = TRUE
        /\ \/ view' = Closed
           \/ \E v \in Data \union {Zero}, n \in 0 .. MaxSize, p \in {pos, Len(view)} :
                 view' = Put(view, p, [j \in 1 .. n |-> v])
           \/ \E n \in 0 .. MaxSize : view' = Put(view, Len(view), [j \in 1 .. n |-> Zero])
        /\ pos' \in 0 .. MaxSize
        /\ UNCHANGED <<saved, got>>

Crash == /\ view' = Closed
         /\ pos' = 0 /\ busy' = FALSE
         /\ UNCHANGED <<saved, got, result, failed>>

Next == \/ Open
        \/ Crash
        \/ Call
        \/ /\ busy
           /\ \/ \E v \in Data, n \in 1 .. MaxSize : Write(v, n)
              \/ \E n \in 1 .. MaxSize : Read(n)
              \/ \E p \in 0 .. MaxSize : Seek(p) \/ Truncate(p)
              \/ Save \/ Sync \/ Close \/ Fail

Spec == Init /\ [][Next]_vars

=============================================================================
