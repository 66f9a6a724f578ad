----------------------------- MODULE MCLineage -----------------------------
(* Chains, diamonds, cycles and a self-edge can all be made of these rows. *)
EXTENDS Lineage, TLC

CONSTANTS a, b, c, d, x, y

Row(s, sc, t, tc) == [source |-> s, source_column |-> sc, target |-> t, target_column |-> tc]

MCCandidates ==
    {Row(a, x, b, x), Row(a, y, b, y), Row(b, x, c, x), Row(b, y, d, y), Row(c, x, d, x),
     Row(d, x, a, x), Row(d, y, b, x), Row(a, x, a, y), Row(a, x, c, y)}

MCKind == a :> "model" @@ b :> "model" @@ c :> "bi" @@ d :> "ml"
MCPII == {<<a, y>>, <<d, x>>}
=============================================================================
