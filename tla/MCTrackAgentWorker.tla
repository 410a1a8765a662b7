------------------------- MODULE MCTrackAgentWorker -------------------------
(* Instances of TrackAgentWorker small enough for TLC.                     *)
EXTENDS TrackAgentWorker

CONSTANTS n1, question, r1, r2

MCWords == {"rear", "front", "soft", "softer", "click", "t2", "t7", "loose", "wide", "exit",
            "plus", "minus", "dry", "outing", "retyped"}

MCSoft == {{"soft", "click"}, {"softer", "click", "rear"}}

MCLowValue == {{"dry"}}

MCTyped == {{"retyped"}}

(* Notes and changes that say the same, or differ in a sign.               *)
Full == [session_label |-> {"outing"}, lap_times |-> <<1, 2>>,
         tire_pressures |-> <<Pressure("front", "cold", 3), Pressure("rear", "hot", 2),
                              Pressure("front", "hot", 4)>>,
         setup_changes |-> <<Change({"rear"}, {"soft", "click"}, 2),
                             Change({"rear"}, {"softer", "click", "rear"}, 0),
                             Change({"front"}, {"plus", "click"}, 0),
                             Change({"front"}, {"minus", "click"}, 0)>>,
         notes |-> <<Note({"t7"}, {"loose"}), Note({"t7"}, {"wide"}),
                     Note({"t7"}, {"loose", "wide", "exit"}), Note({"t2"}, {"loose"}),
                     Note({"t2"}, {"plus", "wide"}), Note({"t2"}, {"minus", "wide"})>>,
         warnings |-> <<{"dry"}, {"wide", "plus"}, {"wide"}>>]

MCHeard == [n \in Notes \ OutOfScope |-> {Full}]

(* Ties that floating point decides upwards: a quarter and a twentieth of  *)
(* a PSI as caps, some of the differences to the targets below.            *)
MCHalvesUp == {<<25, 0>>, <<5, 0>>, <<3000, 2975>>, <<2795, 3100>>, <<2725, 2700>>}

(* Every kind of entry in the front tire's boxes beside a rear tire that   *)
(* is in, above or below its point, or missing.                            *)
Tire(cold, hot, point, lo, hi) ==
    [cold |-> cold, hot |-> hot, point |-> point, range |-> [min |-> lo, max |-> hi]]

MCTargets == {<<Absent, Absent, Absent>>, <<3100, Absent, Absent>>, <<Text, 3000, 3100>>,
              <<Absent, 3000, 3100>>, <<Absent, 3100, 3000>>, <<3050, 3000, Absent>>,
              <<Text, Absent, Absent>>}

MCFronts == {Tire(2800, h, t[1], t[2], t[3]) :
                h \in {Absent, Text, 2795, 2975, 3095, 3150, 3355, 3425}, t \in MCTargets}
              \cup {Tire(Absent, 2975, t[1], t[2], t[3]) : t \in MCTargets}

MCRears == {Tire(2500, h, 2700, Absent, Absent) : h \in {Absent, 2475, 2700, 2725}}

MCSymptoms == {{}, {"loose"}, {"vague"}, {"loose", "cold"}, {"cold", "question"}}

MCInputs == {i \in [front : MCFronts, rear : MCRears, symptoms : MCSymptoms,
                     tireKnown : BOOLEAN, trackKnown : BOOLEAN,
                     cap : {Absent, 4, 5, 25, 300}] :
                /\ i.cap = Absent \/ (i.tireKnown /\ i.trackKnown /\ i.symptoms = {})
                /\ i.symptoms = {} \/ (i.tireKnown /\ i.trackKnown)
                /\ i.tireKnown \/ i.trackKnown}

MCReruns == [front : {Tire(2800, h, 3100, Absent, Absent) : h \in {3425, Text}},
             rear : {Tire(2500, 2700, 2700, Absent, Absent)}, symptoms : {{"vague"}},
             tireKnown : {TRUE}, trackKnown : {TRUE}, cap : {Absent}]
===========================================================================
