------------------------------- MODULE FileTree -------------------------------
(* What a file system promises of its names: a tree of files and directories *)
(* under the root.  A call is done in full or not at all.  Making a name may *)
(* fail for want of space, removing one may not.  What a call answers is     *)
(* right, or is lost: the program gets some answer then, and the tree does   *)
(* not depend on it.  rmdir, and a mkdir that fails, never lose theirs.      *)
EXTENDS Integers, Sequences

CONSTANTS Path   \* non-empty sequences of names

VARIABLES kind,   \* kind[p]: whether a file, a directory or nothing is at p
          reply   \* the last call, its path, whether it answers that it was
                  \* done, and whether that answer was lost (ok says nothing then)

vars == <<kind, reply>>

Reply(call, p, ok) == [call |-> call, path |-> p, ok |-> ok, lost |-> FALSE]
Lost(call, p)      == [call |-> call, path |-> p, ok |-> FALSE, lost |-> TRUE]

Parent(p)  == SubSeq(p, 1, Len(p) - 1)
CanMake(p) == kind[p] = "none" /\ (Len(p) = 1 \/ kind[Parent(p)] = "dir")
HasNone(p) == \A q \in Path : Parent(q) = p => kind[q] = "none"

Init == kind = [p \in Path |-> "none"] /\ reply = Reply("none", << >>, TRUE)

Refuse(call, p) == reply' = Reply(call, p, FALSE) /\ UNCHANGED kind

Tells(call, p, ok) == reply' \in {Reply(call, p, ok), Lost(call, p)}

Becomes(p, k) == kind' = [kind EXCEPT ![p] = k]

Create(p) ==
  \/ Tells("create", p, FALSE) /\ UNCHANGED kind
  \/ Tells("create", p, TRUE) /\ CanMake(p) /\ Becomes(p, "file")

Mkdir(p) ==
  \/ Refuse("mkdir", p)
  \/ Tells("mkdir", p, TRUE) /\ CanMake(p) /\ Becomes(p, "dir")

Unlink(p) ==
  Tells("unlink", p, TRUE) /\ kind[p] = "file" /\ Becomes(p, "none")

Rmdir(p) ==
  \/ Refuse("rmdir", p) /\ kind[p] = "dir" /\ ~HasNone(p)
  \/ /\ reply' = Reply("rmdir", p, TRUE) /\ kind[p] = "dir" /\ HasNone(p)
     /\ Becomes(p, "none")

(* The other calls do not touch the tree.                                    *)
Other == \E ok \in BOOLEAN : Tells("other", << >>, ok) /\ UNCHANGED kind

Next == \/ \E p \in Path : Create(p) \/ Mkdir(p) \/ Unlink(p) \/ Rmdir(p)
        \/ Other

Spec == Init /\ [][Next]_vars
===============================================================================
