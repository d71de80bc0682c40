----------------------------- MODULE MCDiskMedia ------------------------------
(* A disk of each emulated format, one with the read-only attribute, a       *)
(* container and a program; the D64 is asked for in two letter cases.        *)
EXTENDS DiskMedia, TLC

MCPaths  == {"a.d64", "A.D64", "b.g64", "r.d64", "c.d81", "p.prg"}
MCFiles  == {"A", "B", "R", "C", "P"}
MCFileOf == ("a.d64" :> "A") @@ ("A.D64" :> "A") @@ ("b.g64" :> "B")
              @@ ("r.d64" :> "R") @@ ("c.d81" :> "C") @@ ("p.prg" :> "P")
MCKind   == ("A" :> "D64") @@ ("B" :> "G64") @@ ("R" :> "D64") @@ ("C" :> "D81")
              @@ ("P" :> "PRG")
=============================================================================
