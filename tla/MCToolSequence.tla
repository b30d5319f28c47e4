--------------------------- MODULE MCToolSequence ---------------------------
EXTENDS ToolSequence

\* tool_docking.yaml: tool 0 corrects for the tag's translation and goes HOME by the
\* captured waypoint, tool 1 needs no tag; tool 2 grips.
Tool1 == [guided |-> TRUE, line |-> "joint", look |-> "none", act |-> "delay",
          deadman |-> FALSE, grip |-> FALSE, way |-> FALSE, home |-> TRUE,
          faults |-> {}]
Tool0 == [Tool1 EXCEPT !.look = "translate", !.way = TRUE, !.faults = {}]
Tool2 == [Tool1 EXCEPT !.guided = FALSE, !.grip = TRUE, !.faults = {"owner"}]

\* Other settings that the code takes.
Confirming == [Tool1 EXCEPT !.look = "confirm", !.act = "none"]
Axis == [Confirming EXCEPT !.look = "none", !.line = "axis", !.home = FALSE,
                           !.deadman = TRUE, !.faults = {"silence"}]
Normal == [Axis EXCEPT !.line = "normal", !.deadman = FALSE, !.faults = {}]
Visual == [Normal EXCEPT !.line = "visual", !.act = "feedback", !.faults = {"cancel"}]
Plain == [Tool2 EXCEPT !.grip = FALSE, !.home = FALSE, !.faults = {"latch", "arm"}]

MCSetups == {Tool0, Tool1, Tool2, Confirming, Axis, Normal, Visual, Plain}
=============================================================================
