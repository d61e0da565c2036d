------------------------------ MODULE MCInput ------------------------------
(* Two keys, one of them a mouse button with a double click; a buffer for  *)
(* three characters and the end of their line.                               *)
EXTENDS InputQueue, TLC

K(k) == <<k, FALSE>>
MCBinds == (<<K("a")>> :> "pause") @@ (<<K("m")>> :> "step") @@ (<<K("m"), K("a")>> :> "other")
           @@ (<<<<"m", TRUE>>>> :> "other")
MCKindOf(c) == IF c = "s" THEN "step" ELSE IF c = "p" THEN "pause" ELSE "other"
MCTexts == {<<"-", "-", "-", "-", "\n", "s", "\n", "p", "\n">>}
=============================================================================
