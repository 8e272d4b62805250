--------------------------- MODULE MCVisionModels ---------------------------
(* Two processes.  One deployment pulls both models, alone; or the segmen- *)
(* tation model alone is pulled twice, as by a retry, or uploaded twice.   *)
EXTENDS VisionModels

CONSTANTS d1, d2

Ask(way, kinds) == [way |-> way, kinds |-> kinds]

Asks(first, second) == [d \in {d1, d2} |-> IF d = d1 THEN first ELSE second]

MCAsked ==
    {Asks(Ask("pull", Kinds), Ask("pull", {})),
     Asks(Ask("pull", {"segmentation"}), Ask("pull", {"segmentation"})),
     Asks(Ask("upload", {"segmentation"}), Ask("upload", {"segmentation"}))}

=============================================================================
