------------------------------- MODULE SeedGraph -------------------------------
(***************************************************************************)
(* The graph of the sample line that SEED_STATEMENTS creates.              *)
(***************************************************************************)
EXTENDS FiniteSets

SeedEquipment ==
    {"IH-250", "TCU-100", "CH-200", "CV-01", "CV-02", "CV-03", "VI-200", "PL-01", "AC-30"}

SeedNodes ==
    SeedEquipment \cup {"LINE-1", "TS-01", "TS-02", "TS-03", "PS-01", "PS-AIR"}

Related(type, pairs) == {[from |-> p[1], to |-> p[2], type |-> type] : p \in pairs}

SeedFeeds == Related("FEEDS",
    {<<"IH-250", "CV-01">>, <<"CV-01", "VI-200">>, <<"VI-200", "CV-02">>,
     <<"VI-200", "CV-03">>, <<"CV-03", "PL-01">>})

SeedAffects == Related("AFFECTS",
    {<<"TCU-100", "IH-250">>, <<"CH-200", "TCU-100">>, <<"CV-01", "IH-250">>,
     <<"VI-200", "PL-01">>, <<"AC-30", "IH-250">>, <<"AC-30", "CV-01">>, <<"AC-30", "VI-200">>})

SeedMonitors ==
    Related("MONITORS", {<<"TS-01", "IH-250">>, <<"TS-02", "TCU-100">>, <<"TS-03", "VI-200">>,
                         <<"PS-01", "CH-200">>, <<"PS-AIR", "AC-30">>})
    \cup Related("ATTACHED_TO", {<<"TS-02", "IH-250">>})

SeedRelations ==
    SeedFeeds \cup SeedAffects \cup SeedMonitors
    \cup Related("PART_OF", {<<e, "LINE-1">> : e \in SeedEquipment})
=============================================================================
