--------------------------------- MODULE Paths ---------------------------------
(* The operators of SequencesExt that TinyFS uses, by their names there.  The *)
(* proofs have TinyFS in view four times over (MCTinyFS), and all of          *)
(* SequencesExt with each.                                                    *)
EXTENDS FiniteSetsExt, Sequences

Front(s) == SubSeq(s, 1, Len(s) - 1)
Last(s)  == s[Len(s)]

IsPrefix(s, t) == Len(s) <= Len(t) /\ SubSeq(t, 1, Len(s)) = s

(* The first place of s that passes Test, and the last one, or 0.             *)
SelectInSeq(s, Test(_)) ==
  LET hits == {k \in 1 .. Len(s) : Test(s[k])}
  IN  IF hits = {} THEN 0 ELSE Min(hits)

SelectLastInSeq(s, Test(_)) ==
  LET hits == {k \in 1 .. Len(s) : Test(s[k])}
  IN  IF hits = {} THEN 0 ELSE Max(hits)
===============================================================================
