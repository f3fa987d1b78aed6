--------------------------- MODULE MCModelResidency ---------------------------
(* ModelResidency on a phone with five units of memory for models: a small    *)
(* llama.cpp and a larger LiteRT text model, an image model and the sidecars.  *)
EXTENDS ModelResidency

CONSTANTS small, big, picture

MCTextModels == {small, big}
MCImageModels == {picture}
MCSize == [m \in {small, big, picture, "whisper", "embedding"} |->
             IF m = big THEN 3 ELSE IF m \in {small, picture} THEN 2 ELSE 1]
MCEngine == [m \in {small, big} |-> IF m = small THEN "llama" ELSE "litert"]
MCLlamaOnly == [m \in {small, big} |-> "llama"]
MCPolicies == {"balanced", "conservative"}
MCOnePolicy == {"balanced"}
MCBudget == [p \in MCPolicies |-> 5]
MCOneBudget == [p \in MCOnePolicy |-> 4]
MCFree == {0, 4}
=============================================================================
