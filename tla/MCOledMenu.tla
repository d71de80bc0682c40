------------------------------ MODULE MCOledMenu ------------------------------
(* A disk, a container, a tape and its index in a hidden directory; at the   *)
(* root of the card an LST of both media and one that names none, so that a  *)
(* browser for tapes has no row there.                                       *)
EXTENDS OledMenu

MCPaths   == {"b.g64", "c.d81"}
MCFiles   == {"B", "C"}
MCFileOf  == ("b.g64" :> "B") @@ ("c.d81" :> "C")
MCKind    == ("B" :> "G64") @@ ("C" :> "D81")
MCDirs    == {"/", "/1551"}
MCUp      == [e \in Entries |-> IF e \in MCDirs \cup {"l.lst", "e.lst"} THEN "/" ELSE "/1551"]
MCListing == ("/" :> <<"e.lst", "l.lst">>)
               @@ ("/1551" :> <<"b.g64", "c.d81", "t.tap", "t.idx">>)
MCListOf  == ("l.lst" :> <<"b.g64", "c.d81">>) @@ ("e.lst" :> <<>>)

(* A message over the second view behind the one shown is looked at, and not *)
(* gone on from: what Back leaves is the view it was drawn over.             *)
Shown == menu.view = "Notice" => Len(menu.history) < MaxHistory

(* What an image holds is DiskMedia's question: no menu call asks for more   *)
(* than whether it can be read, and a G64 is saved whatever is in it.        *)
Relevant ==
  <<menu, hostLeft,
    [kernel EXCEPT !.card = {f \in Files : @[f] = Cut}, !.overwritten = {},
                   !.caddy.content = 0, !.caddy.stale = FALSE]>>
=============================================================================
