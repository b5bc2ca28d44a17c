------------------------------- MODULE MCScreen -------------------------------
(* Two reports, so that one can come during the redraw of the other.  The     *)
(* keyboard goes as far as the menu that 'x' selects, and no further.         *)
EXTENDS Screen
===============================================================================
