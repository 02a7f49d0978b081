----------------------------- MODULE MCStartup -----------------------------
(* Configurations with at most one identity block, of the right source or  *)
(* of another: the blocks do not interact.                                 *)
EXTENDS Startup

\* Key files are good or missing: LoadX509KeyPair fails for either file.
SpireBlocks == [mode : {"", "mtls", "jwt", "other"}, required : BOOLEAN,
                tokenType : {""}]
CloudBlocks == [mode : {""}, required : BOOLEAN,
                tokenType : {"", "configured"}]

NoBlock == [b \in Blocks |-> None]
MCBlocks ==
  {NoBlock}
  \cup {[NoBlock EXCEPT !["spire"] = x] : x \in SpireBlocks}
  \cup {[NoBlock EXCEPT ![b] = x] : b \in {"aws", "gcp"}, x \in CloudBlocks}

MCConfigs == [url : BOOLEAN, type : Blocks \cup {"other"}, block : MCBlocks,
              cert : Files, key : {"", "good"}, ca : Files,
              override : {"", "configured"}]

=============================================================================
