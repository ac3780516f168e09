------------------------ MODULE MCScriptedSequences ------------------------
EXTENDS ScriptedSequences, TLC
CONSTANTS m1, m2, walkA, walkB, ai, stage
MCTargetname == (walkA :> stage) @@ (walkB :> stage) @@ (ai :> stage)
=============================================================================
