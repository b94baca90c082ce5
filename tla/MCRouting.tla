----------------------------- MODULE MCRouting -----------------------------
(* Instance of ModelRouting for TLC: an upstream that lists a native-vision *)
(* model or nothing, one that lists others behind a chain whose fallback    *)
(* has an alias that differs from the first model by case, and two routes.  *)
EXTENDS ModelRouting

MCNames == {"", "kimi", "Kimi", "KIMI", "glm", "side"}
MCKey == [n \in MCNames |-> IF n \in {"kimi", "Kimi", "KIMI"} THEN "kimi" ELSE n]
MCRemap == [n \in MCNames |-> n]
MCProfile == [n \in MCNames |-> IF n = "side" THEN "native" ELSE "unset"]
MCSeemsNative == {"kimi", "Kimi", "KIMI"}

Upstream(rewrite, exposed) == [rewrite |-> rewrite, exposed |-> exposed]
MCChains == <<<<Upstream("none", "none")>>,
              <<Upstream("none", "none"), Upstream("glm", "Kimi")>>>>
MCRoutes == <<[exact |-> FALSE, names |-> {"side", "KIMI"}, rewrite |-> "none"],
              [exact |-> TRUE, names |-> {"side"}, rewrite |-> "glm"]>>
MCOffers == <<{Listed(<<"kimi">>), Down},
              {Listed(<<"glm">>), Listed(<<"kimi", "glm">>)}>>
=============================================================================
