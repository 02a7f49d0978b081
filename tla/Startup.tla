------------------------------ MODULE Startup ------------------------------
(***************************************************************************)
(* From the configuration file to the first token exchange: main loads and *)
(* validates the configuration, builds the identity source, resolves the   *)
(* TLS settings of the Quartermaster client, and the first refresh asks    *)
(* the source for the credential it presents.                              *)
(*                                                                         *)
(* A string of the configuration is "" or a member of a small set; what a  *)
(* file contains is "good" or "bad".  exchange.audience and server.listen  *)
(* always get a default when they are empty, so the checks of them cannot  *)
(* fail; grant type, margin and auto_per_billet only get their defaults.   *)
(***************************************************************************)

CONSTANTS
  Configs,   \* what the file may say
  None       \* a nil pointer

Files == {"", "good", "bad"}
Blocks == {"spire", "aws", "gcp"}
Types == {"", "spire jwt", "aws sts", "gcp identity", "configured"}

\* The block of an identity source.  mode is only SPIRE's; required is
\* spire.jwt_audience, aws.region or gcp.audience, TRUE if it is set.
Block == [mode : {"", "mtls", "jwt", "other"}, required : BOOLEAN,
          tokenType : Types]

Config == [url : BOOLEAN, type : Blocks \cup {"other"},
           block : [Blocks -> Block \cup {None}],
           cert : Files, key : Files, ca : Files, override : Types]

ASSUME ConstantsAssumption ==
  /\ Configs \subseteq Config
  /\ None \notin Block

VARIABLES
  stage,   \* how far main has come, "failed" if it exited with an error
  config,  \* *config.Config
  tls,     \* the client's TLS settings
  cred,    \* what the identity source returned
  form     \* the identity in the token request

vars == <<stage, config, tls, cred, form>>

Stages == {"load", "identity", "daemon", "credential", "exchange", "failed",
           "panicked"}

\* Where the client certificate comes from, RootCAs, and what the server is
\* verified with: RootCAs, or the trust bundle if VerifyPeerCertificate does it.
\* RootCAs that are nil are the system's.
TLS == [cert : {"none", "file", "svid"}, roots : {"system", "ca_file"},
        verify : {"roots", "bundle"}]

\* "none" is a nil Credential, "empty" an empty token.
Form == [token : {"none", "empty", "jwt", "sts", "gcp"}, type : Types]

NoForm == [token |-> "none", type |-> ""]
DefaultTLS == [cert |-> "none", roots |-> "system", verify |-> "roots"]

TypeOK ==
  /\ stage \in Stages
  /\ config \in Config
  /\ stage \notin {"load", "failed"} /\ config.block["spire"] # None =>
       config.block["spire"].mode # ""
  /\ tls \in TLS
  /\ cred \in Form
  /\ form \in Form

Init ==
  /\ stage = "load"
  /\ config \in Configs
  /\ tls = DefaultTLS
  /\ cred = NoForm
  /\ form = NoForm

Fail == stage' = "failed" /\ UNCHANGED <<config, tls, cred, form>>
Panic == stage' = "panicked" /\ UNCHANGED <<config, tls, cred, form>>

-----------------------------------------------------------------------------
(* config.Load                                                             *)

\* Mutant: GCP has no default token type.
DefaultType_NoGCP(b) == IF b = "aws" THEN "aws sts" ELSE ""

DefaultType(b) == CASE b = "aws" -> "aws sts"
                    [] b = "gcp" -> "gcp identity"
                    [] OTHER -> ""

\* Mutant: SPIRE's mode has no default.
DefaultedBlock_NoMode(b, block) ==
  IF block = None THEN None
  ELSE [block EXCEPT !.tokenType = IF @ = "" THEN DefaultType(b) ELSE @]

\* A block that is there gets its defaults.
DefaultedBlock(b, block) ==
  IF block = None THEN None
  ELSE [block EXCEPT
          !.mode = IF b = "spire" /\ @ = "" THEN "mtls" ELSE @,
          !.tokenType = IF @ = "" THEN DefaultType(b) ELSE @]

Defaulted(cfg) ==
  [cfg EXCEPT !.block = [b \in Blocks |-> DefaultedBlock(b, cfg.block[b])]]

\* Mutant: a missing block is only noticed for SPIRE.
ValidIdentity_SPIREOnly(cfg) ==
  /\ cfg.type # "other"
  /\ cfg.block[cfg.type] # None => cfg.block[cfg.type].required
  /\ cfg.type = "spire" => cfg.block["spire"] # None

\* Each source needs its block and its one required field; SPIRE's only in
\* mode jwt.  That mode is one of two is not checked here.
ValidIdentity(cfg) ==
  /\ cfg.type # "other"
  /\ cfg.block[cfg.type] # None
  /\ cfg.type # "spire" \/ cfg.block["spire"].mode = "jwt" =>
       cfg.block[cfg.type].required

Half(cfg) == (cfg.cert = "") # (cfg.key = "")

Valid(cfg) == cfg.url /\ ValidIdentity(cfg) /\ ~ Half(cfg)

Load ==
  /\ stage = "load"
  /\ config' = Defaulted(config)
  /\ stage' = IF Valid(config') THEN "identity" ELSE "failed"
  /\ UNCHANGED <<tls, cred, form>>

\* The file cannot be read or is not YAML.
LoadFails == stage = "load" /\ Fail

-----------------------------------------------------------------------------
(* identity.New                                                            *)

mode == config.block["spire"].mode
SVID == config.type = "spire" /\ mode = "mtls"

\* newSPIRE dereferences its block and connects; the others do nothing yet.
NewSource ==
  /\ stage = "identity"
  /\ IF config.type = "spire" /\ config.block["spire"] = None
     THEN Panic
     ELSE IF config.type = "spire" /\ mode \notin {"mtls", "jwt"} THEN Fail
     ELSE stage' = "daemon" /\ UNCHANGED <<config, tls, cred, form>>

\* The workload API cannot be reached, or a signal ends the wait for it.
NewSourceFails ==
  /\ stage = "identity"
  /\ config.type = "spire"
  /\ config.block["spire"] # None
  /\ Fail

-----------------------------------------------------------------------------
(* resolveTLS                                                              *)

\* QuartermasterTLS: nil without a certificate and without a CA file.
FileTLSFails == \/ Half(config)
                \/ "bad" \in {config.cert, config.key, config.ca}
FileTLS ==
  [cert |-> IF config.cert = "" THEN "none" ELSE "file",
   roots |-> IF config.ca = "" THEN "system" ELSE "ca_file",
   verify |-> "roots"]

\* MTLSClientConfig presents the SVID and has no RootCAs: it switches the
\* standard verification off and verifies the server with the trust bundle.
SVIDTLS == [cert |-> "svid", roots |-> "system", verify |-> "bundle"]

Resolved(settings) ==
  tls' = settings /\ stage' = "credential" /\ UNCHANGED <<config, cred, form>>

\* mergeRootCA: the clone gets RootCAs and keeps everything else.
MergeRootCA(base) ==
  IF config.ca = "bad" THEN Fail
  ELSE Resolved([base EXCEPT !.roots = "ca_file"])

\* Mutant: the files win over the source.
ResolveTLS_FilesFirst ==
  \/ FileTLSFails /\ Fail
  \/ /\ ~ FileTLSFails
     /\ Resolved(IF SVID /\ config.cert = "" THEN SVIDTLS ELSE FileTLS)

\* Mutant: the source's settings are used as they are.
ResolveTLS_NoMerge ==
  \/ SVID /\ Resolved(SVIDTLS)
  \/ ~ SVID /\ IF FileTLSFails THEN Fail ELSE Resolved(FileTLS)

\* An SVID overrides the certificate file, which is then not even read, and a
\* CA file is merged.  AWS and GCP hand the files' settings on, where merging
\* the same CA file again adds nothing; for SPIRE in mode jwt they are read
\* here.  FileTLS without files is the default.
ResolveTLS ==
  \/ SVID /\ IF config.ca = "" THEN Resolved(SVIDTLS) ELSE MergeRootCA(SVIDTLS)
  \/ ~ SVID /\ IF FileTLSFails THEN Fail ELSE Resolved(FileTLS)

NewDaemon == stage = "daemon" /\ ResolveTLS

-----------------------------------------------------------------------------
(* The first refresh: Source.Credential, then the form of the exchange.    *)

SPIRECredential == IF SVID THEN NoForm
                   ELSE [token |-> "jwt", type |-> "spire jwt"]
AWSCredential == [token |-> "sts", type |-> config.block["aws"].tokenType]

\* The body of a 200 is the token, also when it is empty.
GCPCredentials ==
  {[token |-> token, type |-> config.block["gcp"].tokenType] :
     token \in {"gcp", "empty"}}

SourceCredentials == CASE config.type = "spire" -> {SPIRECredential}
                       [] config.type = "aws" -> {AWSCredential}
                       [] config.type = "gcp" -> GCPCredentials

\* Without a token the form has neither; exchange.subject_token_type wins over
\* the source's type.
FormOf(c) ==
  IF c.token \in {"none", "empty"} THEN NoForm
  ELSE [c EXCEPT !.type = IF config.override = "" THEN @ ELSE config.override]

\* AWS and GCP dereference their block only here.
Credential ==
  /\ stage = "credential"
  /\ IF config.block[config.type] = None THEN Panic
     ELSE /\ cred' \in SourceCredentials
          /\ form' = FormOf(cred')
          /\ stage' = "exchange"
          /\ UNCHANGED <<config, tls>>

\* The source does not answer: the first refresh fails and main exits.  An
\* SVID is not fetched by this call.
CredentialFails ==
  /\ stage = "credential"
  /\ config.block[config.type] # None
  /\ ~ SVID
  /\ Fail

Ended == stage \in {"exchange", "failed", "panicked"} /\ UNCHANGED vars

Next ==
  \/ Load \/ LoadFails
  \/ NewSource \/ NewSourceFails
  \/ NewDaemon
  \/ Credential \/ CredentialFails
  \/ Ended

Spec == Init /\ [][Next]_vars

-----------------------------------------------------------------------------

\* No configuration makes the start panic: whatever the later steps
\* dereference, Load has checked.
NeverPanics == stage # "panicked"

Exchanging == stage = "exchange"

\* "Quartermaster accepts identity via subject_token or a SPIFFE client
\* certificate": a token exchange carries exactly one of them, whatever
\* certificate files are configured beside it.  The exception is a source that
\* returns an empty token, which is not sent.
IdentityPresented ==
  Exchanging =>
    /\ tls.cert = "svid" => form.token = "none"
    /\ form.token = "none" => tls.cert = "svid" \/ cred.token = "empty"

\* A subject token never goes without its type.
TokenTyped == Exchanging /\ form.token # "none" => form.type # ""

VerifiedWith == IF tls.verify = "bundle" THEN "bundle" ELSE tls.roots

\* With a CA file configured there is no exchange with a server that was only
\* verified with the system's roots, and none at all if the file cannot be used:
\* the file verifies the server or, with an SVID, the SPIFFE trust bundle does.
CAFileOrBundle ==
  Exchanging /\ config.ca # "" =>
    /\ config.ca = "good"
    /\ VerifiedWith = IF tls.cert = "svid" THEN "bundle" ELSE "ca_file"

\* "ca_file verifies Quartermaster's server cert."  Violated: with an SVID the
\* file is merged into RootCAs that nothing consults.
CAFileVerifies == Exchanging /\ config.ca # "" => VerifiedWith = "ca_file"

=============================================================================
