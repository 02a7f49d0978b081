----------------------------- MODULE MCQMClient -----------------------------
(* Values of the constants of QMClient that a configuration cannot write.  *)
EXTENDS QMClient

MCConfigs == [httpClient : BOOLEAN, mtls : {"none", "good", "bad"}]
MCDaemonConfig == [httpClient |-> TRUE, mtls |-> "none"]

=============================================================================
