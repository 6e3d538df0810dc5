------------------------------- MODULE FileTree -------------------------------
(***************************************************************************)
(* What littlefs promises to its users: a tree of directories and files in *)
(* which every operation takes effect at once or not at all, also when the *)
(* power fails in the middle of it.  What an operation is to lead to is    *)
(* settled when it starts; from then on the tree is the one from before it *)
(* until, in one step, it is that one, and nothing in between.             *)
(***************************************************************************)
EXTENDS Naturals, Sequences, SequencesExt

VARIABLES
    tree,   \* the paths that exist: [path, kind], without the root
    goal    \* the tree that the operation in progress, or the last one, leads to

Paths(t) == {x.path : x \in t}

Above(p) == SubSeq(p, 1, Len(p) - 1)

\* p names a directory of t, or the root.
IsDirectory(t, p) == p = <<>> \/ [path |-> p, kind |-> "dir"] \in t

IsEmpty(t, p) == \A q \in Paths(t) : ~IsStrictPrefix(p, q)

Without(t, p) == {x \in t : x.path # p}

\* Everything at p and below is at q; what was at q is gone.
Moved(t, p, q) ==
    {x \in t : x.path # q /\ ~IsPrefix(p, x.path)} \union
    {[x EXCEPT !.path = q \o SubSeq(@, Len(p) + 1, Len(@))] :
        x \in {y \in t : IsPrefix(p, y.path)}}

\* The trees one operation leads to from tree t, u among them.
Make(t, u) == \E x \in u : /\ x.path \notin Paths(t)
                          /\ IsDirectory(t, Above(x.path))
                          /\ u = t \union {x}

Unlink(t, u) == \E p \in Paths(t) : /\ IsEmpty(t, p)
                                   /\ u = Without(t, p)

Rename(t, u) ==
    \E p \in Paths(t), q \in Paths(u) :
        /\ IsDirectory(t, Above(q))
        /\ ~IsStrictPrefix(p, q)
        /\ q \in Paths(t) => /\ IsDirectory(t, p) <=> IsDirectory(t, q)
                             /\ p = q \/ IsEmpty(t, q)
        /\ u = Moved(t, p, q)

Operation(t, u) == Make(t, u) \/ Unlink(t, u) \/ Rename(t, u)

Init == tree = {} /\ goal = {}

\* An operation starts when the one before it is over.  It may take effect at once.
Begin == /\ tree = goal
         /\ Operation(tree, goal')
         /\ tree' \in {tree, goal'}

TakeEffect == tree' = goal /\ UNCHANGED goal

\* It ends with an error, or by a power loss, without effect.
GiveUp == goal' = tree /\ UNCHANGED tree

Next == Begin \/ TakeEffect \/ GiveUp

Spec == Init /\ [][Next]_<<tree, goal>>

===============================================================================
