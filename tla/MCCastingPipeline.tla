-------------------------- MODULE MCCastingPipeline --------------------------
(* An instance of CastingPipeline for TLC: a step with two workers between *)
(* two with one, and room for one item before each.                        *)
EXTENDS CastingPipeline

OneTwoOne == <<1, 2, 1>>
OneEach == <<1, 1, 1>>

=============================================================================
