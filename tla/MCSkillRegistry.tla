-------------------------- MODULE MCSkillRegistry --------------------------
(* One skill the gateway was shipped with and one that is uploaded.        *)
EXTENDS SkillRegistry

CONSTANTS shipped, uploaded
=============================================================================
