--------------------------- MODULE MCBaselineWatch ---------------------------
(* Two files, one of them also under a YAML rule for writes and deletion.   *)
EXTENDS BaselineWatch

MCYamlRule == [f \in {"b"} |-> [id |-> "yaml", mask |-> {"write", "unlink"}]]
=============================================================================
