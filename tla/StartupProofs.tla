--------------------------- MODULE StartupProofs ---------------------------
(***************************************************************************)
(* The start for every configuration, any combination of identity blocks   *)
(* included: what validation establishes is what the later steps need.     *)
(***************************************************************************)
EXTENDS Startup, TLAPS

Started == stage \in {"identity", "daemon", "credential", "exchange"}

\* What config.Load has established: the block of the identity source is
\* there, with a mode or a token type.
LoadedInv ==
  Started => /\ config.type \in Blocks
             /\ config.block[config.type] # None
             /\ config.type # "spire" => config.block[config.type].tokenType # ""

\* What identity.New has.
SourceInv ==
  stage \in {"daemon", "credential", "exchange"} /\ config.type = "spire" =>
    mode \in {"mtls", "jwt"}

\* What daemon.New has: the SVID is the certificate in mode mtls only, only then
\* is the bundle consulted, and a CA file has been read.
TLSInv ==
  stage \in {"credential", "exchange"} =>
    /\ tls.cert = "svid" <=> SVID
    /\ tls.verify = IF SVID THEN "bundle" ELSE "roots"
    /\ config.ca # "" => config.ca = "good" /\ tls.roots = "ca_file"

\* What the first exchange has: a token with its type, unless the SVID is the
\* identity or the source's token was empty.
FormInv ==
  Exchanging => /\ SVID => form.token = "none"
                /\ form.token = "none" => SVID \/ cred.token = "empty"
                /\ form.token # "none" => form.type # ""

StartInv ==
  /\ config \in Config
  /\ stage # "panicked"
  /\ LoadedInv /\ SourceInv /\ TLSInv /\ FormInv

\* Filling in defaults gives a configuration again; a block stays where it
\* was, and those of AWS and GCP have a token type.
LEMMA DefaultedConfig ==
  ASSUME NEW cfg \in Config, ConstantsAssumption
  PROVE  /\ Defaulted(cfg) \in Config
         /\ Defaulted(cfg).type = cfg.type
         /\ \A b \in Blocks \ {"spire"} :
              Defaulted(cfg).block[b] # None =>
                Defaulted(cfg).block[b].tokenType # ""
<1>1. \A b \in Blocks :
        /\ DefaultedBlock(b, cfg.block[b]) \in Block \cup {None}
        /\ b # "spire" /\ DefaultedBlock(b, cfg.block[b]) # None =>
             DefaultedBlock(b, cfg.block[b]).tokenType # ""
  <2> TAKE b \in Blocks
  <2>1. DefaultType(b) \in Types /\ (b # "spire" => DefaultType(b) # "")
    BY DEF DefaultType, Types, Blocks
  <2>2. CASE cfg.block[b] = None
    BY <2>2 DEF DefaultedBlock
  <2>3. CASE cfg.block[b] # None
    <3>1. cfg.block[b] \in Block
      BY <2>3 DEF Config
    <3> QED BY <2>1, <2>3, <3>1 DEF DefaultedBlock, Block
  <2> QED BY <2>2, <2>3
<1>2. Defaulted(cfg) = [cfg EXCEPT !.block = [b \in Blocks |->
                                      DefaultedBlock(b, cfg.block[b])]]
  BY DEF Defaulted
<1> DEFINE filled == [b \in Blocks |-> DefaultedBlock(b, cfg.block[b])]
<1>3. filled \in [Blocks -> Block \cup {None}]
  BY <1>1
<1> HIDE DEF filled
<1>4. Defaulted(cfg) = [cfg EXCEPT !.block = filled]
  BY <1>2 DEF filled
<1>5. /\ Defaulted(cfg) \in Config
      /\ Defaulted(cfg).type = cfg.type
      /\ Defaulted(cfg).block = filled
  BY <1>3, <1>4 DEF Config
<1> QED BY <1>1, <1>5 DEF filled

\* What Credential returns is decided by the type of the source.
LEMMA SourceReturns ==
  ASSUME NEW c \in SourceCredentials
  PROVE  /\ config.type = "spire" => c = SPIRECredential
         /\ config.type = "aws" => c = AWSCredential
         /\ config.type = "gcp" => c \in GCPCredentials
<1>1. CASE config.type = "spire"
  <2>1. SourceCredentials = {SPIRECredential}
    BY <1>1 DEF SourceCredentials
  <2> QED BY <1>1, <2>1
<1>2. CASE config.type = "aws"
  <2>1. SourceCredentials = {AWSCredential}
    BY <1>2 DEF SourceCredentials
  <2> QED BY <1>2, <2>1
<1>3. CASE config.type = "gcp"
  <2>1. SourceCredentials = GCPCredentials
    BY <1>3 DEF SourceCredentials
  <2> QED BY <1>3, <2>1
<1> QED BY <1>1, <1>2, <1>3

\* Every step keeps the invariant.
LEMMA NextKeeps ==
  ASSUME StartInv, ConstantsAssumption, [Next]_vars
  PROVE  StartInv'
<1> USE DEF StartInv
<1>1. CASE Load
  <2>1. CASE stage' = "failed"
    BY <1>1, <2>1, DefaultedConfig
       DEF Load, LoadedInv, Started, SourceInv, TLSInv, FormInv, Exchanging
  <2>2. CASE stage' = "identity"
    <3>1. Valid(config') /\ config' = Defaulted(config)
      BY <1>1, <2>2 DEF Load
    <3>2. config' \in Config /\ config'.type \in Blocks
      BY <3>1, DefaultedConfig DEF Valid, ValidIdentity, Config
    <3>3. config'.block[config'.type] # None
      BY <3>1 DEF Valid, ValidIdentity
    <3>4. config'.type # "spire" => config'.block[config'.type].tokenType # ""
      BY <3>1, <3>2, <3>3, DefaultedConfig
    <3> QED BY <2>2, <3>2, <3>3, <3>4
            DEF LoadedInv, Started, SourceInv, TLSInv, FormInv, Exchanging
  <2> QED BY <1>1, <2>1, <2>2 DEF Load
<1>2. CASE Fail
  BY <1>2 DEF Fail, LoadedInv, Started, SourceInv, TLSInv, FormInv, Exchanging
<1>3. CASE NewSource
  <2>1. CASE Fail
    BY <1>2, <2>1
  <2>2. CASE ~ Fail
    <3>1. /\ stage = "identity" /\ stage' = "daemon"
          /\ UNCHANGED <<config, tls, cred, form>>
          /\ config.type = "spire" => mode \in {"mtls", "jwt"}
      BY <1>3, <2>2 DEF NewSource, LoadedInv, Started
    <3> QED BY <3>1
            DEF LoadedInv, Started, SourceInv, TLSInv, FormInv, Exchanging, mode
  <2> QED BY <2>1, <2>2
<1>4. CASE NewDaemon
  <2>1. CASE Fail
    BY <1>2, <2>1
  <2>2. CASE ~ Fail
    <3>1. /\ stage = "daemon" /\ stage' = "credential"
          /\ UNCHANGED <<config, cred, form>>
      BY <1>4, <2>2 DEF NewDaemon, ResolveTLS, Resolved, MergeRootCA
    <3>2. /\ tls'.cert = "svid" <=> SVID
          /\ tls'.verify = IF SVID THEN "bundle" ELSE "roots"
          /\ config.ca # "" => config.ca = "good" /\ tls'.roots = "ca_file"
      <4>1. config.ca \in {"", "good", "bad"}
        BY DEF Config, Files
      <4>2. CASE SVID
        <5>1. CASE config.ca = ""
          <6>1. tls' = SVIDTLS
            BY <1>4, <2>2, <4>2, <5>1 DEF NewDaemon, ResolveTLS, Resolved
          <6> QED BY <4>2, <5>1, <6>1 DEF SVIDTLS
        <5>2. CASE config.ca # ""
          <6>1. MergeRootCA(SVIDTLS)
            BY <1>4, <4>2, <5>2 DEF NewDaemon, ResolveTLS
          <6>2. config.ca = "good"
                /\ tls' = [cert |-> "svid", roots |-> "ca_file",
                             verify |-> "bundle"]
            BY <2>2, <4>1, <5>2, <6>1 DEF MergeRootCA, Resolved, SVIDTLS
          <6> QED BY <4>2, <6>2
        <5> QED BY <5>1, <5>2
      <4>3. CASE ~ SVID
        <5>1. tls' = FileTLS /\ ~ FileTLSFails
          BY <1>4, <2>2, <4>3 DEF NewDaemon, ResolveTLS, Resolved
        <5>2. tls'.cert # "svid" /\ tls'.verify = "roots"
          BY <5>1 DEF FileTLS
        <5>3. config.ca # "" => config.ca = "good" /\ tls'.roots = "ca_file"
          BY <4>1, <5>1 DEF FileTLS, FileTLSFails
        <5> QED BY <4>3, <5>2, <5>3
      <4> QED BY <4>2, <4>3
    <3> QED BY <3>1, <3>2
            DEF LoadedInv, Started, SourceInv, TLSInv, FormInv, Exchanging,
                SVID, mode
  <2> QED BY <2>1, <2>2
<1>5. CASE Credential
  <2>1. /\ stage = "credential" /\ stage' = "exchange"
        /\ cred' \in SourceCredentials /\ form' = FormOf(cred')
        /\ UNCHANGED <<config, tls>>
    BY <1>5 DEF Credential, LoadedInv, Started
  <2>2. config.type \in Blocks
        /\ (config.type # "spire" => config.block[config.type].tokenType # "")
    BY <2>1 DEF LoadedInv, Started
  <2>3. /\ cred'.token = "none" <=> SVID
        /\ cred'.token # "none" => cred'.type # ""
        /\ \E token, type : cred' = [token |-> token, type |-> type]
    <3>1. CASE config.type = "spire"
      <4>1. cred' = SPIRECredential
        BY <2>1, <3>1, SourceReturns
      <4> QED BY <3>1, <4>1 DEF SPIRECredential, NoForm, SVID
    <3>2. CASE config.type = "aws"
      <4>1. cred' = AWSCredential
        BY <2>1, <3>2, SourceReturns
      <4> QED BY <2>2, <3>2, <4>1 DEF AWSCredential, SVID
    <3>3. CASE config.type = "gcp"
      <4>1. cred' \in GCPCredentials
        BY <2>1, <3>3, SourceReturns
      <4>2. PICK token \in {"gcp", "empty"} :
              cred' = [token |-> token, type |-> config.block["gcp"].tokenType]
        BY <4>1 DEF GCPCredentials
      <4> QED BY <2>2, <3>3, <4>2 DEF SVID
    <3> QED BY <2>2, <3>1, <3>2, <3>3 DEF Blocks
  <2>4. /\ SVID => form'.token = "none"
        /\ form'.token = "none" => SVID \/ cred'.token = "empty"
        /\ form'.token # "none" => form'.type # ""
    <3>1. CASE cred'.token \in {"none", "empty"}
      BY <2>1, <2>3, <3>1 DEF FormOf, NoForm
    <3>2. CASE ~ (cred'.token \in {"none", "empty"})
      <4>1. form' = [cred' EXCEPT !.type =
                       IF config.override = "" THEN @ ELSE config.override]
        BY <2>1, <3>2 DEF FormOf
      <4> QED BY <2>3, <3>2, <4>1
    <3> QED BY <3>1, <3>2
  <2> QED BY <2>1, <2>4
          DEF LoadedInv, Started, SourceInv, TLSInv, FormInv, Exchanging,
              SVID, mode
<1>6. CASE UNCHANGED vars
  BY <1>6 DEF vars, LoadedInv, Started, SourceInv, TLSInv, FormInv, Exchanging,
              SVID, mode
<1> QED BY <1>1, <1>2, <1>3, <1>4, <1>5, <1>6
        DEF Next, LoadFails, NewSourceFails, CredentialFails, Ended

LEMMA Invariance == Spec => []StartInv
<1>1. Init => StartInv
  BY ConstantsAssumption
     DEF Init, ConstantsAssumption, StartInv, LoadedInv, Started, SourceInv,
         TLSInv, FormInv, Exchanging
<1>2. StartInv /\ [Next]_vars => StartInv'
  BY NextKeeps, ConstantsAssumption
<1> QED BY <1>1, <1>2, PTL DEF Spec

-----------------------------------------------------------------------------
(* Types.                                                                  *)

\* A SPIRE block that is there has a mode once defaults are filled in.
LEMMA DefaultedMode ==
  ASSUME NEW cfg \in Config, ConstantsAssumption,
         Defaulted(cfg).block["spire"] # None
  PROVE  Defaulted(cfg).block["spire"].mode # ""
<1>1. Defaulted(cfg).block["spire"] = DefaultedBlock("spire", cfg.block["spire"])
  BY DEF Defaulted, Config, Blocks
<1>2. cfg.block["spire"] \in Block \cup {None}
  BY DEF Config, Blocks
<1> QED BY <1>1, <1>2 DEF DefaultedBlock, Block

\* Whatever has the shape of TLS settings or of a form.
LEMMA SettingsTyped ==
  ASSUME config \in Config
  PROVE  /\ FileTLS \in TLS /\ SVIDTLS \in TLS
         /\ [SVIDTLS EXCEPT !.roots = "ca_file"] \in TLS
BY DEF FileTLS, SVIDTLS, TLS

LEMMA FormTyped ==
  ASSUME config \in Config, config.type \in Blocks,
         config.block[config.type] # None, NEW c \in SourceCredentials
  PROVE  c \in Form /\ FormOf(c) \in Form
<1>1. config.override \in Types
  BY DEF Config
<1>2. config.block[config.type] \in Block
  BY DEF Config
<1>3. c \in Form
  <2>1. CASE config.type = "spire"
    <3>1. c = SPIRECredential
      BY <2>1, SourceReturns
    <3> QED BY <3>1 DEF SPIRECredential, NoForm, Form, Types
  <2>2. CASE config.type = "aws"
    <3>1. c = AWSCredential
      BY <2>2, SourceReturns
    <3> QED BY <1>2, <2>2, <3>1 DEF AWSCredential, Form, Block
  <2>3. CASE config.type = "gcp"
    <3>1. c \in GCPCredentials
      BY <2>3, SourceReturns
    <3>2. PICK token \in {"gcp", "empty"} :
            c = [token |-> token, type |-> config.block["gcp"].tokenType]
      BY <3>1 DEF GCPCredentials
    <3> QED BY <1>2, <2>3, <3>2 DEF Form, Block
  <2> QED BY <2>1, <2>2, <2>3 DEF Blocks
<1>4. NoForm \in Form
  BY DEF NoForm, Form, Types
<1> QED BY <1>1, <1>3, <1>4 DEF FormOf, Form

\* Every step keeps the types.
LEMMA NextTypes ==
  ASSUME TypeOK, StartInv, ConstantsAssumption, [Next]_vars
  PROVE  TypeOK'
<1>1. CASE Load
  <2>1. config' \in Config
    BY <1>1, DefaultedConfig DEF Load, TypeOK
  <2>2. config'.block["spire"] # None => config'.block["spire"].mode # ""
    BY <1>1, DefaultedMode DEF Load, TypeOK
  <2>3. stage' \in Stages /\ UNCHANGED <<tls, cred, form>>
    BY <1>1 DEF Load, Stages
  <2> QED BY <2>1, <2>2, <2>3 DEF TypeOK
<1>2. CASE Fail
  BY <1>2 DEF Fail, TypeOK, Stages
<1>3. CASE NewSource
  <2>1. /\ stage = "identity" /\ stage' \in Stages
        /\ UNCHANGED <<config, tls, cred, form>>
    BY <1>3 DEF NewSource, Panic, Fail, Stages
  <2> QED BY <2>1 DEF TypeOK
<1>4. CASE NewDaemon
  <2>1. /\ stage = "daemon" /\ stage' \in Stages
        /\ UNCHANGED <<config, cred, form>> /\ tls' \in TLS
    <3>1. config \in Config /\ tls \in TLS
      BY DEF TypeOK
    <3> QED BY <1>4, <3>1, SettingsTyped
            DEF NewDaemon, ResolveTLS, Resolved, MergeRootCA, Fail, Stages
  <2> QED BY <2>1 DEF TypeOK
<1>5. CASE Credential
  <2>1. /\ stage = "credential" /\ stage' = "exchange"
        /\ cred' \in SourceCredentials /\ form' = FormOf(cred')
        /\ UNCHANGED <<config, tls>>
    BY <1>5 DEF Credential, StartInv, LoadedInv, Started
  <2>2. cred' \in Form /\ form' \in Form
    BY <2>1, FormTyped DEF StartInv, LoadedInv, Started
  <2> QED BY <2>1, <2>2 DEF TypeOK, Stages
<1>6. CASE UNCHANGED vars
  BY <1>6 DEF vars, TypeOK
<1> QED BY <1>1, <1>2, <1>3, <1>4, <1>5, <1>6
        DEF Next, LoadFails, NewSourceFails, CredentialFails, Ended

\* For every configuration every variable keeps its type, and SPIRE's mode,
\* once loaded, is never empty.
THEOREM TypeCorrect == Spec => []TypeOK
<1>1. Init => TypeOK
  <2>1. DefaultTLS \in TLS
    BY DEF DefaultTLS, TLS
  <2>2. NoForm \in Form
    BY DEF NoForm, Form, Types
  <2> QED BY <2>1, <2>2, ConstantsAssumption
          DEF Init, ConstantsAssumption, TypeOK, Stages
<1>2. TypeOK /\ StartInv /\ [Next]_vars => TypeOK'
  BY NextTypes, ConstantsAssumption
<1> QED BY <1>1, <1>2, Invariance, PTL DEF Spec

-----------------------------------------------------------------------------

\* For every configuration: no step of the start dereferences a block that is
\* not there.
THEOREM StartNeverPanics == Spec => []NeverPanics
<1>1. StartInv => NeverPanics
  BY DEF StartInv, NeverPanics
<1> QED BY <1>1, Invariance, PTL

\* For every configuration: the exchange carries exactly one proof of
\* identity, unless the source's token is empty.
THEOREM IdentityAlwaysPresented == Spec => []IdentityPresented
<1>1. StartInv => IdentityPresented
  BY DEF StartInv, TLSInv, FormInv, IdentityPresented, Exchanging
<1> QED BY <1>1, Invariance, PTL

\* For every configuration: a subject token has a type, the source's own or
\* the configured one.
THEOREM TokenAlwaysTyped == Spec => []TokenTyped
<1>1. StartInv => TokenTyped
  BY DEF StartInv, FormInv, TokenTyped
<1> QED BY <1>1, Invariance, PTL

\* For every configuration with a CA file: the file has been read, and it or
\* the SPIFFE trust bundle verifies the server, never the system's roots.
THEOREM CAFileOrBundleVerifies == Spec => []CAFileOrBundle
<1>1. StartInv => CAFileOrBundle
  BY DEF StartInv, TLSInv, CAFileOrBundle, VerifiedWith, Exchanging
<1> QED BY <1>1, Invariance, PTL

=============================================================================
