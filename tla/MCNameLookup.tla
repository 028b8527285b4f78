---------------------------- MODULE MCNameLookup ----------------------------
(* NameLookup with two pilots, one of them spelled in three ways, and names nobody has. *)
EXTENDS NameLookup, TLC

\* Parts of a link: the pilot Moe Sten in three spellings, Ummae, an id, a window that may be
\* a name, the probe, separators, and what cannot be a name.
MCRead ==
  ("Moe_Sten" :> "Moe Sten") @@ ("Moe+Sten" :> "Moe Sten") @@ ("moe_sten" :> "moe sten")
  @@ ("Ummae" :> "Ummae") @@ ("1001" :> "1001") @@ ("healthz" :> "healthz")
  @@ ("_+_" :> "") @@ ("x" :> "x") @@ ("wp.php" :> "wp.php")
MCWrite ==
  ("Moe Sten" :> "Moe_Sten") @@ ("moe sten" :> "moe_sten") @@ ("Ummae" :> "Ummae")
  @@ ("1001" :> "1001") @@ ("healthz" :> "healthz") @@ ("x" :> "x") @@ ("wp.php" :> "wp.php")
MCSize ==
  [p \in DOMAIN MCRead |-> CASE p = "x" -> 1 [] p = "_+_" -> 3 [] p = "1001" -> 4
                             [] p = "Ummae" -> 5 [] p = "wp.php" -> 6 [] p = "healthz" -> 7 [] OTHER -> 8]
MCNames == DOMAIN MCWrite
MCParts == DOMAIN MCRead
MCLegal == MCParts \ {"wp.php"}
MCFold == [n \in MCNames |-> IF n \in {"Moe Sten", "moe sten"} THEN "moe sten" ELSE n]
MCLabel == [f \in {MCFold[n] : n \in MCNames} |-> IF f = "moe sten" THEN "Moe Sten" ELSE f]
MCFixed == { <<"healthz">> }
MCSizes == 3 .. 40

Path(segment, window) == Url(segment, window, {"space"})
Slashed(segment, window) == [Path(segment, window) EXCEPT !.slash = TRUE]
Query(segment, window, names, asked) ==
  [Path(segment, window) EXCEPT !.asked = names, !.askedWindow = asked]
None == Absent

MCLinks == {
  Path(<<"moe_sten", "Moe+Sten", "Ummae">>, None),
  Path(<<"Moe_Sten", "_+_", "Moe+Sten", "x">>, "30"),
  Slashed(<<"Ummae", "moe_sten">>, "30"),
  Query(<<>>, None, <<"moe_sten", "Ummae", "x">>, "90"),
  Query(<<>>, None, <<"wp.php", "Ummae">>, "7"),
  Query(<<"Ummae">>, "30", None, "90"),
  Query(<<"Ummae">>, "30", <<>>, None),
  Path(<<"_+_">>, "30"),
  Path(<<"x">>, None),
  Path(<<"x", "_+_">>, None),
  Path(<<"healthz">>, "365"),
  Path(<<"Ummae">>, "7"),
  Path(<<"wp.php">>, None),
  Path(<<"healthz">>, None),
  Slashed(<<"healthz">>, None) }

\* What it takes to find a name before somebody has it.
MissLinks == {Path(<<"Ummae">>, None)}
=============================================================================
