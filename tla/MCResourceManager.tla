-------------------------- MODULE MCResourceManager --------------------------
(* Three resources: one needs both others, one of which needs the third.    *)
EXTENDS ResourceManager

CONSTANTS scene, model, texture

Scene == [r \in Resource |-> CASE r = scene   -> {model, texture}
                               [] r = model   -> {texture}
                               [] r = texture -> {}]
=============================================================================
