------------------------- MODULE MC_PairedEvaluation -------------------------
(***************************************************************************)
(* Small instances of PairedEvaluation for TLC: skill pairs with and        *)
(* without a trap, with one, four, ten and eleven items so that one item is *)
(* more than, exactly and less than ten percentage points, and pairs of a   *)
(* project in both modes and orders.                                        *)
(***************************************************************************)
EXTENDS PairedEvaluation

Graded == {<<1, 0, FALSE>>, <<2, 1, TRUE>>, <<8, 1, TRUE>>, <<10, 1, FALSE>>}

Pair(mode, first, extension, g) ==
    [mode |-> mode, first |-> first, extension |-> extension,
     expectations |-> g[1], rules |-> g[2], trap |-> g[3]]

MCPairs ==
    {Pair("sequential", "baseline", "skill", g) : g \in Graded}
    \cup {Pair(m, f, e, <<1, 0, FALSE>>) :
            m \in {"sequential", "parallel"}, f \in Sides, e \in {"project", "absent"}}
=============================================================================
