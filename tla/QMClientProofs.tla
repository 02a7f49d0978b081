--------------------------- MODULE QMClientProofs ---------------------------
(***************************************************************************)
(* Proofs about the client for any set of status codes: what the tables    *)
(* say once is enough for every answer that may come.                      *)
(***************************************************************************)
EXTENDS QMClient, TLAPS

\* What the tables of one operation must agree on.
Agree(o) ==
  /\ o[2] \subseteq o[1].errors \cap o[1].decodes
  /\ 0 \notin o[2]
  /\ o[1].ok \notin o[1].errors
  /\ o[1].returns = "decoded" => o[1].ok \in o[1].decodes

\* Every operation's do.
LEMMA TablesAgree == \A o \in Operations : Agree(o)
<1>1. \A o \in {Health, OpenIDConfiguration, CAChain, JWKS} \X {{}} : Agree(o)
  BY DEF Agree, Health, OpenIDConfiguration, CAChain, JWKS, Method,
         ParseHealthzHTTP, ParseOpenidConfigurationHTTP
<1>2. \A o \in {ListBillets, CreateBillet, ListPolicies} \X {{401, 403}} :
        Agree(o)
  BY DEF Agree, ListBillets, CreateBillet, ListPolicies, Method,
         ParseListBilletsHTTP, ParseCreateBilletHTTP, ParseListPoliciesHTTP
<1>3. \A o \in {GetAdminBillet, UpdateBillet, DeleteBillet, GetPolicy,
                CreatePolicy, UpdatePolicy, DeletePolicy, GetBilletMetadata}
               \X {{401, 403, 404}} : Agree(o)
  BY DEF Agree, GetAdminBillet, UpdateBillet, DeleteBillet, GetPolicy,
         CreatePolicy, UpdatePolicy, DeletePolicy, GetBilletMetadata, Method,
         ParseGetAdminBilletHTTP, ParseUpdateBilletHTTP, ParseDeleteBilletHTTP,
         ParseGetPolicyHTTP, ParseCreatePolicyHTTP, ParseUpdatePolicyHTTP,
         ParseDeletePolicyHTTP, ParseGetBilletMetadataHTTP
<1>4. \A o \in {DiscoverBillets, ExchangeToken} \X {{400, 401}} : Agree(o)
  BY DEF Agree, DiscoverBillets, ExchangeToken, Method,
         ParseBilletDiscoveryHTTP, ParseTokenExchangeHTTP
<1> QED BY <1>1, <1>2, <1>3, <1>4 DEF Operations

-----------------------------------------------------------------------------

\* Until a method returns there is no result; a parsed answer has been decoded
\* exactly when its parser decodes it.
ClientInv ==
  /\ op \in Operations
  /\ Called => result.kind = "none"
  /\ stage = "parsed" => decoded = Decodes
  /\ result.kind = "nil" => method.returns = "decoded" /\ ~ Decodes
  /\ ErrorIsSeen
  /\ ErrorExplained

\* What Return returns.
LEMMA ReturnedResult ==
  ASSUME ClientInv, stage = "parsed", answer.json \in BOOLEAN
  PROVE  /\ Returned.kind \in {"value", "nil"} => answer.status = method.ok
         /\ Returned.kind = "nil" => method.returns = "decoded" /\ ~ Decodes
         /\ Returned.status = answer.status
         /\ answer.status \in documented /\ answer.json =>
              Returned = Result("apiError", answer.status)
<1>1. Agree(op) /\ decoded = Decodes
  BY TablesAgree DEF ClientInv
<1>2. CASE answer.status = method.ok
  BY <1>1, <1>2 DEF Returned, Result, Agree, method, documented
<1>3. CASE answer.status # method.ok /\ answer.status \in method.errors
  <2>1. Returned = errorFromResponse
    BY <1>3 DEF Returned
  <2> QED BY <1>1, <1>3, <2>1
          DEF errorFromResponse, Result, Agree, Decodes, method, documented
<1>4. CASE answer.status # method.ok /\ answer.status \notin method.errors
  <2>1. Returned = Result("error", answer.status)
    BY <1>4 DEF Returned
  <2> QED BY <1>1, <1>4, <2>1 DEF Result, Agree, method, documented
<1> QED BY <1>2, <1>3, <1>4

\* Every step keeps the invariant.
LEMMA NextKeeps ==
  ASSUME ClientInv, answer.json \in BOOLEAN, [Next]_vars
  PROVE  ClientInv'
<1> USE DEF ClientInv, ErrorIsSeen, ErrorExplained, Called, Decodes, method,
            documented
<1>1. CASE New
  BY <1>1 DEF New, OwnClient
<1>2. CASE \E o \in Operations : Call(o)
  BY <1>2 DEF Call, NoResult, Result, NoAnswer
<1>3. CASE \E a \in Answers : Answer(a)
  BY <1>3 DEF Answer
<1>4. CASE ReturnError
  <2>1. Agree(op)
    BY TablesAgree
  <2> QED BY <1>4, <2>1 DEF ReturnError, Result, Agree
<1>5. CASE Parse
  BY <1>4, <1>5 DEF Parse
<1>6. CASE Return
  <2>1. /\ stage = "parsed" /\ stage' = "idle"
        /\ result' = Returned
        /\ UNCHANGED <<config, client, op, answer, decoded>>
    BY <1>6 DEF Return
  <2> QED BY <2>1, ReturnedResult
<1>7. CASE UNCHANGED vars
  BY <1>7 DEF vars
<1> QED BY <1>1, <1>2, <1>3, <1>4, <1>5, <1>6, <1>7 DEF Next, Fail, Timeout

\* The answer's JSON flag is a Boolean.
JsonIsBoolean == answer.json \in BOOLEAN

LEMMA Invariance == Spec => [](ClientInv /\ JsonIsBoolean)
<1>1. Init => ClientInv /\ JsonIsBoolean
  <2> SUFFICES ASSUME Init PROVE ClientInv /\ JsonIsBoolean
    OBVIOUS
  <2>1. op \in Operations
    BY DEF Init, Operations
  <2> QED BY <2>1 DEF Init, ClientInv, JsonIsBoolean, Called, NoResult, Result,
                      NoAnswer, ErrorIsSeen, ErrorExplained
<1>2. ClientInv /\ JsonIsBoolean /\ [Next]_vars => ClientInv' /\ JsonIsBoolean'
  <2> SUFFICES ASSUME ClientInv, JsonIsBoolean, [Next]_vars
               PROVE  ClientInv' /\ JsonIsBoolean'
    OBVIOUS
  <2>1. ClientInv'
    BY NextKeeps DEF JsonIsBoolean
  <2>2. answer' = answer \/ answer' = NoAnswer \/ answer' \in Answers
    <3>1. CASE New
      BY <3>1 DEF New
    <3>2. CASE \E o \in Operations : Call(o)
      BY <3>2 DEF Call
    <3>3. CASE \E a \in Answers : Answer(a)
      BY <3>3 DEF Answer
    <3>4. CASE Fail \/ Timeout \/ Parse \/ Return
      BY <3>4 DEF Fail, Timeout, Parse, Return, ReturnError
    <3>5. CASE UNCHANGED vars
      BY <3>5 DEF vars
    <3> QED BY <3>1, <3>2, <3>3, <3>4, <3>5 DEF Next
  <2>3. JsonIsBoolean'
    <3>1. CASE answer' = answer
      BY <3>1 DEF JsonIsBoolean
    <3>2. CASE answer' = NoAnswer
      BY <3>2 DEF JsonIsBoolean, NoAnswer
    <3>3. CASE answer' \in Answers
      BY <3>3 DEF JsonIsBoolean, Answers
    <3> QED BY <2>2, <3>1, <3>2, <3>3
  <2> QED BY <2>1, <2>3
<1> QED BY <1>1, <1>2, PTL DEF Spec

-----------------------------------------------------------------------------

\* The result of a method has a type.
LEMMA ResultTypes ==
  ASSUME answer \in Answers \cup {NoAnswer}
  PROVE  Returned \in [kind : {"none", "value", "nil", "error", "apiError"},
                       status : Statuses \cup {0}]
<1>1. answer.status \in Statuses \cup {0}
  BY DEF Answers, NoAnswer
<1> QED BY <1>1 DEF Returned, errorFromResponse, Result

\* New leaves the client nil only when it fails.
LEMMA NewTypes ==
  ASSUME ConstantsAssumption, TypeOK, New
  PROVE  TypeOK'
<1>1. config.httpClient \in BOOLEAN /\ config.mtls \in {"none", "good", "bad"}
  BY DEF TypeOK, ConstantsAssumption
<1>2. /\ stage = "new" /\ UNCHANGED <<config, op, answer, decoded, result>>
      /\ \/ client' \in {"given", "mtls", "default"} /\ stage' = "idle"
         \/ client' = "none" /\ stage' = "failed"
  BY <1>1 DEF New, OwnClient, TypeOK
<1> QED BY <1>2 DEF TypeOK

\* Every step keeps the types.
LEMMA NextTypes ==
  ASSUME ConstantsAssumption, TypeOK, [Next]_vars
  PROVE  TypeOK'
<1>1. CASE New
  BY <1>1, NewTypes
<1>2. ASSUME NEW o \in Operations, Call(o) PROVE TypeOK'
  BY <1>2 DEF Call, TypeOK, NoResult, Result
<1>3. ASSUME NEW a \in Answers, Answer(a) PROVE TypeOK'
  BY <1>3 DEF Answer, TypeOK
<1>4. CASE Waiting /\ ReturnError
  BY <1>4 DEF Waiting, ReturnError, TypeOK, Result
<1>5. CASE Parse
  <2>1. Decodes \in BOOLEAN
    BY DEF Decodes, TypeOK, Answers, NoAnswer
  <2>2. stage = "answered"
    BY <1>5 DEF Parse
  <2>3. CASE ~ ReturnError
    BY <1>5, <2>1, <2>2, <2>3 DEF Parse, TypeOK
  <2> QED BY <1>4, <2>2, <2>3 DEF Waiting
<1>6. CASE Return
  <2>1. result' \in [kind : {"none", "value", "nil", "error", "apiError"},
                     status : Statuses \cup {0}]
    BY <1>6, ResultTypes DEF Return, TypeOK
  <2> QED BY <1>6, <2>1 DEF Return, TypeOK
<1>7. CASE UNCHANGED vars
  BY <1>7 DEF vars, TypeOK
<1> QED BY <1>1, <1>2, <1>3, <1>4, <1>5, <1>6, <1>7 DEF Next, Fail, Timeout

\* For any status codes and configurations every variable keeps its type, and
\* New returns a client exactly when it returns no error.
THEOREM TypeCorrect == Spec => []TypeOK
<1>1. Init => TypeOK
  <2> SUFFICES ASSUME Init PROVE TypeOK
    OBVIOUS
  <2>1. op \in Operations
    BY DEF Init, Operations
  <2>2. result \in [kind : {"none", "value", "nil", "error", "apiError"},
                   status : Statuses \cup {0}]
    BY DEF Init, NoResult, Result
  <2> QED BY <2>1, <2>2 DEF Init, TypeOK
<1>2. TypeOK /\ [Next]_vars => TypeOK'
  BY NextTypes, ConstantsAssumption
<1> QED BY <1>1, <1>2, PTL DEF Spec

-----------------------------------------------------------------------------

\* For any status codes: a method returns without an error only after an
\* answer with the operation's success code.
THEOREM ErrorsAreSeen == Spec => []ErrorIsSeen
<1>1. ClientInv => ErrorIsSeen
  BY DEF ClientInv
<1> QED BY <1>1, Invariance, PTL

\* For any status codes: a documented error with a JSON body reaches the
\* caller as an APIError with its status.
THEOREM ErrorsAreExplained == Spec => []ErrorExplained
<1>1. ClientInv => ErrorExplained
  BY DEF ClientInv
<1> QED BY <1>1, Invariance, PTL

\* For any status codes: a nil result without an error had no JSON body.
THEOREM NilsHaveNoJSON == Spec => []NilOnlyWithoutJSON
<1>1. ClientInv => NilOnlyWithoutJSON
  <2> SUFFICES ASSUME ClientInv, result.kind = "nil" PROVE ~ answer.json
    BY DEF NilOnlyWithoutJSON
  <2>1. Agree(op) /\ answer.status = method.ok
    BY TablesAgree DEF ClientInv, ErrorIsSeen
  <2> QED BY <2>1 DEF ClientInv, Agree, Decodes, method
<1> QED BY <1>1, Invariance, PTL

=============================================================================
