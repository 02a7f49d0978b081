------------------------------ MODULE QMClient ------------------------------
(***************************************************************************)
(* A call of the Quartermaster client: qmclient.New, the generated client  *)
(* that sends the request and parses the answer, and the methods of API    *)
(* that make a result or an error of it.                                   *)
(*                                                                         *)
(* The seventeen operations are one template with different status codes:  *)
(* the codes are the tables below, the template is the actions.  Requests  *)
(* are not told apart.  Of an answer matters its status, whether its       *)
(* Content-Type contains "json", and how its body decodes.                 *)
(***************************************************************************)
EXTENDS Naturals

CONSTANTS
  Statuses,     \* the status codes Quartermaster, or a proxy, answers with
  Configs,      \* the configurations qmclient.New is called with
  Daemon        \* the one of daemon.New

ASSUME ConstantsAssumption ==
  /\ Statuses \subseteq Nat
  /\ Daemon = [httpClient |-> TRUE, mtls |-> "none"]
  /\ Daemon \in Configs
  /\ Configs \subseteq [httpClient : BOOLEAN, mtls : {"none", "good", "bad"}]

-----------------------------------------------------------------------------
(* The tables: which codes a parser decodes a JSON body of, what API makes *)
(* of them, and what openapi.json says they are.                           *)

ParseOpenidConfigurationHTTP == {200}
ParseListBilletsHTTP == {200, 401, 403}
\* Mutant: the created billet is expected with a 200.
ParseCreateBilletHTTP_200 == {200, 401, 403}
ParseCreateBilletHTTP == {201, 401, 403}
ParseDeleteBilletHTTP == {401, 403, 404}
ParseGetAdminBilletHTTP == {200, 401, 403, 404}
ParseUpdateBilletHTTP == {200, 401, 403, 404}
ParseListPoliciesHTTP == {200, 401, 403}
ParseCreatePolicyHTTP == {201, 401, 403, 404}
ParseDeletePolicyHTTP == {401, 403, 404}
ParseGetPolicyHTTP == {200, 401, 403, 404}
ParseUpdatePolicyHTTP == {200, 401, 403, 404}
ParseBilletDiscoveryHTTP == {200, 400, 401}
ParseGetBilletMetadataHTTP == {200, 401, 403, 404}
ParseCaChainHTTP == {}
ParseHealthzHTTP == {200}
ParseJwksHTTP == {}
ParseTokenExchangeHTTP == {200, 400, 401}

\* A method: its parser, the code of success, the codes it makes an APIError
\* of, and what it returns on success: the decoded value, the raw body, or
\* nothing.
Method(parser, ok, errors, returns) ==
  [decodes |-> parser, ok |-> ok, errors |-> errors, returns |-> returns]

Health == Method(ParseHealthzHTTP, 200, {}, "decoded")
OpenIDConfiguration == Method(ParseOpenidConfigurationHTTP, 200, {}, "decoded")
CAChain == Method(ParseCaChainHTTP, 200, {}, "body")
JWKS == Method(ParseJwksHTTP, 200, {}, "body")
ListBillets == Method(ParseListBilletsHTTP, 200, {401, 403}, "decoded")
GetAdminBillet ==
  Method(ParseGetAdminBilletHTTP, 200, {401, 403, 404}, "decoded")
CreateBillet == Method(ParseCreateBilletHTTP, 201, {401, 403}, "decoded")
UpdateBillet == Method(ParseUpdateBilletHTTP, 200, {401, 403, 404}, "decoded")
DeleteBillet == Method(ParseDeleteBilletHTTP, 204, {401, 403, 404}, "nothing")
\* Mutant: 403 is forgotten.
ListPolicies_No403 == Method(ParseListPoliciesHTTP, 200, {401}, "decoded")
ListPolicies == Method(ParseListPoliciesHTTP, 200, {401, 403}, "decoded")
GetPolicy == Method(ParseGetPolicyHTTP, 200, {401, 403, 404}, "decoded")
CreatePolicy == Method(ParseCreatePolicyHTTP, 201, {401, 403, 404}, "decoded")
UpdatePolicy == Method(ParseUpdatePolicyHTTP, 200, {401, 403, 404}, "decoded")
DeletePolicy == Method(ParseDeletePolicyHTTP, 204, {401, 403, 404}, "nothing")
GetBilletMetadata ==
  Method(ParseGetBilletMetadataHTTP, 200, {401, 403, 404}, "decoded")
DiscoverBillets == Method(ParseBilletDiscoveryHTTP, 200, {400, 401}, "decoded")
ExchangeToken == Method(ParseTokenExchangeHTTP, 200, {400, 401}, "decoded")


\* The operations with the error responses openapi.json gives them, each an
\* ErrorBody.  Methods that agree in all of the above are one element.
Operations ==
  ({Health, OpenIDConfiguration, CAChain, JWKS} \X {{}})
  \cup ({ListBillets, CreateBillet, ListPolicies} \X {{401, 403}})
  \cup ({GetAdminBillet, UpdateBillet, DeleteBillet, GetPolicy, CreatePolicy,
         UpdatePolicy, DeletePolicy, GetBilletMetadata} \X {{401, 403, 404}})
  \cup ({DiscoverBillets, ExchangeToken} \X {{400, 401}})

-----------------------------------------------------------------------------

VARIABLES
  stage,    \* "new" and "failed" are New's, the others those of a call
  config,   \* what New is called with
  client,   \* the http.Client New chose
  op,       \* the operation called last
  answer,   \* the answer to it
  decoded,  \* one of the parser's JSON fields is set
  result    \* what the method returned

vars == <<stage, config, client, op, answer, decoded, result>>

method == op[1]
documented == op[2]

Answers == [status : Statuses, json : BOOLEAN, decodes : BOOLEAN]
NoAnswer == [status |-> 0, json |-> FALSE, decodes |-> FALSE]
Result(kind, status) == [kind |-> kind, status |-> status]
NoResult == Result("none", 0)

TypeOK ==
  /\ stage \in {"new", "failed", "idle", "sent", "answered", "parsed"}
  /\ config \in Configs
  /\ client \in {"none", "given", "mtls", "default"}
  /\ client = "none" <=> stage \in {"new", "failed"}
  /\ op \in Operations
  /\ answer \in Answers \cup {NoAnswer}
  /\ decoded \in BOOLEAN
  /\ result \in [kind : {"none", "value", "nil", "error", "apiError"},
                 status : Statuses \cup {0}]

Init ==
  /\ stage = "new"
  /\ config \in Configs
  /\ client = "none"
  /\ op = <<Health, {}>>
  /\ answer = NoAnswer
  /\ decoded = FALSE
  /\ result = NoResult

\* Mutant: without options the client stays nil.
OwnClient_NilClient ==
  \/ config.mtls = "none" /\ stage' = "idle" /\ UNCHANGED client
  \/ config.mtls = "good" /\ client' = "mtls" /\ stage' = "idle"
  \/ config.mtls = "bad" /\ stage' = "failed" /\ UNCHANGED client

\* The client comes from MTLS, whose files must load, or is the default one.
OwnClient ==
  \/ config.mtls = "none" /\ client' = "default" /\ stage' = "idle"
  \/ config.mtls = "good" /\ client' = "mtls" /\ stage' = "idle"
  \/ config.mtls = "bad" /\ stage' = "failed" /\ UNCHANGED client

\* Mutant: the given client is ignored.
New_IgnoresHTTPClient ==
  stage = "new" /\ OwnClient /\ UNCHANGED <<config, op, answer, decoded, result>>

New ==
  /\ stage = "new"
  /\ IF config.httpClient THEN client' = "given" /\ stage' = "idle"
                          ELSE OwnClient
  /\ UNCHANGED <<config, op, answer, decoded, result>>

\* The method builds its request, applies the editors and sends it.
Call(o) ==
  /\ stage = "idle"
  /\ stage' = "sent"
  /\ op' = o
  /\ answer' = NoAnswer
  /\ decoded' = FALSE
  /\ result' = NoResult
  /\ UNCHANGED <<config, client>>

\* Status line and headers arrive: Do returns.
Answer(a) ==
  /\ stage = "sent"
  /\ stage' = "answered"
  /\ answer' = a
  /\ UNCHANGED <<config, client, op, decoded, result>>

Waiting == stage \in {"sent", "answered"}

ReturnError ==
  /\ stage' = "idle"
  /\ result' = Result("error", 0)
  /\ UNCHANGED <<config, client, op, answer, decoded>>

\* The request cannot be sent, the connection breaks, or ctx is cancelled.
Fail == Waiting /\ ReturnError

\* http.Client.Timeout, which covers reading the body; only the client that
\* the daemon gives to New has one.
Timeout == Waiting /\ client = "given" /\ ReturnError

\* The body has been read.  A parser looks at it when Content-Type contains
\* "json" and it knows the status.
Decodes == answer.json /\ answer.status \in method.decodes

Parse ==
  /\ stage = "answered"
  /\ \/ Decodes /\ ~ answer.decodes /\ ReturnError
     \/ /\ Decodes => answer.decodes
        /\ decoded' = Decodes
        /\ stage' = "parsed"
        /\ UNCHANGED <<config, client, op, answer, result>>

\* errorFromResponse(status, firstErrorBody(...))
errorFromResponse == IF decoded THEN Result("apiError", answer.status)
                                ELSE Result("error", answer.status)

\* Mutant: the switch has no default.
Returned_NoDefault ==
  CASE answer.status \in method.errors -> errorFromResponse
    [] OTHER -> Result(IF method.returns = "decoded" /\ ~ decoded
                       THEN "nil" ELSE "value", answer.status)

Returned ==
  CASE answer.status = method.ok ->
         Result(IF method.returns = "decoded" /\ ~ decoded
                THEN "nil" ELSE "value", answer.status)
    [] answer.status \in method.errors -> errorFromResponse
    [] OTHER -> Result("error", answer.status)

Return ==
  /\ stage = "parsed"
  /\ stage' = "idle"
  /\ result' = Returned
  /\ UNCHANGED <<config, client, op, answer, decoded>>

Next ==
  \/ New
  \/ \E o \in Operations : Call(o)
  \/ \E a \in Answers : Answer(a)
  \/ Fail \/ Timeout \/ Parse \/ Return
  \/ stage = "failed" /\ UNCHANGED vars

\* The time-out's timer fires and a parsed answer is returned; no answer has
\* to arrive.
Spec == Init /\ [][Next]_vars /\ WF_vars(Timeout) /\ WF_vars(Return)

-----------------------------------------------------------------------------

\* A method returns no error only when the status says the operation was done:
\* an answer of a proxy or a read cut short is never taken for one.
ErrorIsSeen ==
  result.kind \in {"value", "nil"} => answer.status = method.ok

\* The tables of the parsers and of API together cover the description: a
\* documented error with an ErrorBody reaches the caller as an APIError.
ErrorExplained ==
  /\ result.kind # "none"
  /\ result.status \in documented
  /\ answer.json
  => result = Result("apiError", answer.status)

\* The nil result without an error, which the daemon dereferences, needs a
\* success whose Content-Type is not JSON: the success code each method tests
\* is the one its parser decodes.
NilOnlyWithoutJSON == result.kind = "nil" => ~ answer.json

\* "APIError is returned when Quartermaster responds with a non-success
\* status."  Violated: a status outside the tables, or one without a JSON
\* body, is a plain error without the status.
NonSuccessIsAPIError ==
  /\ result.kind # "none"
  /\ result.status # 0
  /\ answer.status # method.ok
  => result.kind = "apiError"

Called == stage \in {"sent", "answered", "parsed"}

\* Every call of the client that daemon.New builds returns, whatever
\* Quartermaster does: what the fairness of Daemon takes for granted.
CallReturns == Called /\ config = Daemon ~> stage = "idle"

=============================================================================
