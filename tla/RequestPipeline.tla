-------------------------- MODULE RequestPipeline --------------------------
(***************************************************************************)
(* The way of a request through the middlewares and back.  Going down,     *)
(* each layer calls the next one in a task that starts with a copy of the  *)
(* caller's context variables; a response, or an exception that nobody     *)
(* handled, comes up through the same layers.  Requests take their steps   *)
(* in any order.                                                           *)
(*                                                                         *)
(* What a route does is in the other modules; here it may write a line to  *)
(* the log and ends with an answer or an exception.  What reaches the log  *)
(* is up to the loggers: uvicorn configures its own when it starts, then   *)
(* imports the application, which configures them again.                   *)
(***************************************************************************)
EXTENDS Integers, Sequences, FiniteSets

CONSTANTS Requests,
          Paths,      \* "files" for the routes under /files/, "api" for the others
          Queries     \* query strings, as sets of parameters

Parameters == [name: {"token", "page"}, upperCase: BOOLEAN, value: {"secret", "***"}]

ASSUME PipelineAssumption ==
  /\ IsFiniteSet(Requests)
  /\ Paths \subseteq {"files", "api"} /\ Queries \subseteq SUBSET Parameters

OrderCorsOutside == <<"requestId", "bodySize", "accessLog", "cors", "securityHeaders", "router">>
                    \* bug: the first two middlewares are swapped

(* The last middleware added is the outermost.  Starlette puts the handler *)
(* of Exception around them all, and the other handlers around the router. *)
Order == <<"requestId", "bodySize", "accessLog", "securityHeaders", "cors", "router">>

Layers == 1..6

VARIABLES
  phase,     \* "new", "down", "up", then "answered"
  at,        \* the layer each request is at, 0 outside them all
  request,   \* what the client sent
  id,        \* request.state.request_id
  context,   \* the context variable in the task of each layer
  response,  \* the response on its way up, or the exception
  lines,     \* the lines that were logged for each request
  nextId     \* the next uuid4

vars == <<phase, at, request, id, context, response, lines, nextId>>

NoId == 0           \* default of the context variable
Unknown == -1       \* what request_id_of falls back to
Ids == Unknown..(Cardinality(Requests) + 1)

(* The loggers that speak of requests; "route" is any logger of src.       *)
Loggers == {"api.access", "route", "uvicorn.error", "uvicorn.access"}

(* How a logger is set up: whether it has a handler of its own and whether *)
(* it hands what it gets on to the logger above, "uvicorn" or the root.    *)
LoggingOfUvicorn == [handlers  |-> {"uvicorn", "uvicorn.access"},
                     propagate |-> {"uvicorn.error", "route", "api.access"}]

ConfigureLoggingAlike(logging) ==    \* bug: the access log is routed like uvicorn's other lines
  [handlers  |-> {"root"},
   propagate |-> logging.propagate \cup {"uvicorn", "uvicorn.error", "uvicorn.access"}]

(* uvicorn.access is silenced, the other two go to the handler of the root.*)
ConfigureLogging(logging) ==
  [handlers  |-> {"root"} \cup (logging.handlers \ {"uvicorn.access", "uvicorn", "uvicorn.error"}),
   propagate |-> (logging.propagate \ {"uvicorn.access"}) \cup {"uvicorn", "uvicorn.error"}]

Logging == ConfigureLogging(LoggingOfUvicorn)

Sent == [path: Paths, query: Queries, tooLarge: BOOLEAN]

(* status 0 is an exception.  bodyId is the id in a problem document and   *)
(* headerId the one in X-Request-Id; framing says who may embed it.        *)
Raised == [status |-> 0, bodyId |-> NoId, headerId |-> NoId, framing |-> "anyone", cors |-> FALSE]
Plain(status) == [Raised EXCEPT !.status = status]

ProblemWithoutHeader(r, status) == [Plain(status) EXCEPT !.bodyId = id[r]]
                    \* bug: the header is left to the middleware

(* problem_response: the id goes into the body and into the header. *)
Problem(r, status) == [Plain(status) EXCEPT !.bodyId = id[r], !.headerId = id[r]]

TypeOK ==
  /\ phase \in [Requests -> {"new", "down", "up", "answered"}]
  /\ at \in [Requests -> 0..6]
  /\ request \in [Requests -> Sent]
  /\ id \in [Requests -> Ids]
  /\ context \in [Requests -> [Layers -> Ids]]
  /\ response \in [Requests -> [status: {0, 200, 404, 413, 422, 429, 500, 503},
                                bodyId: Ids, headerId: Ids,
                                framing: {"anyone", "ours", "nobody"}, cors: BOOLEAN]]
  /\ \A r \in Requests : \A i \in DOMAIN lines[r] :
       lines[r][i] \in [logger: Loggers, id: Ids,
                        status: {0, 200, 404, 413, 422, 429, 500, 503}, query: SUBSET Parameters]
  /\ nextId \in Ids

Init ==
  /\ phase = [r \in Requests |-> "new"]
  /\ at = [r \in Requests |-> 0]
  /\ request \in [Requests -> Sent]
  /\ id = [r \in Requests |-> Unknown]
  /\ context = [r \in Requests |-> [l \in Layers |-> NoId]]
  /\ response = [r \in Requests |-> Raised]
  /\ lines = [r \in Requests |-> <<>>]
  /\ nextId = 1

-----------------------------------------------------------------------------
(* uvicorn starts a task for each request.  One that waited on the same    *)
(* connection inherits the context of the request before it.               *)
Arrive(r) ==
  /\ phase[r] = "new"
  /\ phase' = [phase EXCEPT ![r] = "down"]
  /\ at' = [at EXCEPT ![r] = 1]
  /\ \E inherited \in {NoId} \cup {context[q][1] : q \in {q \in Requests : phase[q] = "answered"}} :
       context' = [context EXCEPT ![r][1] = inherited]
  /\ UNCHANGED <<request, id, response, lines, nextId>>

IsAt(r, direction, layer) == /\ phase[r] = direction
                             /\ at[r] \in Layers /\ Order[at[r]] = layer

(* call_next, from a task whose context variable is current. *)
CallNext(r, current) ==
  /\ at' = [at EXCEPT ![r] = @ + 1]
  /\ context' = [context EXCEPT ![r] = [l \in Layers |->
                   IF l \in {at[r], at[r] + 1} THEN current ELSE context[r][l]]]
  /\ UNCHANGED <<phase, request, response>>

(* The layer at hand gives answer to the one above it. *)
GiveUp(r, answer) == /\ response' = [response EXCEPT ![r] = answer]
                     /\ phase' = [phase EXCEPT ![r] = "up"]
                     /\ at' = [at EXCEPT ![r] = @ - 1]

GenerateId(r) ==
  /\ IsAt(r, "down", "requestId")
  /\ id' = [id EXCEPT ![r] = nextId]
  /\ nextId' = nextId + 1
  /\ CallNext(r, nextId)
  /\ UNCHANGED lines

LimitBodySize(r) ==
  /\ IsAt(r, "down", "bodySize")
  /\ \/ ~request[r].tooLarge /\ CallNext(r, context[r][at[r]])
     \/ request[r].tooLarge /\ GiveUp(r, Problem(r, 413)) /\ UNCHANGED <<request, context>>
  /\ UNCHANGED <<id, lines, nextId>>

PassOn(r) == /\ IsAt(r, "down", "accessLog") \/ IsAt(r, "down", "securityHeaders")
             /\ CallNext(r, context[r][at[r]])
             /\ UNCHANGED <<id, lines, nextId>>

(* A preflight ends here. *)
Cors(r) ==
  /\ IsAt(r, "down", "cors")
  /\ \/ CallNext(r, context[r][at[r]])
     \/ GiveUp(r, [Plain(200) EXCEPT !.cors = TRUE]) /\ UNCHANGED <<request, context>>
  /\ UNCHANGED <<id, lines, nextId>>

AmbientIsGlobal(r, layer) == nextId - 1     \* bug: a global instead of a context variable

(* What current_request_id() returns in the task of a layer. *)
Ambient(r, layer) == context[r][layer]

(* What a layer has to say; the filter adds the ambient id to it. *)
Line(r, logger, layer, status, query) ==
  [logger |-> logger, id |-> Ambient(r, layer), status |-> status, query |-> query]

(* The lines that come of it: one from each handler on the way up to the   *)
(* root.  Only the handler of the root has the filter (RequestIdFilter).   *)
Through(logger, line, above) ==
  (IF logger \notin Logging.handlers THEN <<>>
   ELSE IF logger = "root" THEN <<line>> ELSE <<[line EXCEPT !.id = Unknown]>>)
  \o (IF logger \in Logging.propagate THEN above ELSE <<>>)
Root(line) == Through("root", line, <<>>)
Written(line) ==
  Through(line.logger, line,
          IF line.logger \in {"uvicorn.error", "uvicorn.access"}
          THEN Through("uvicorn", line, Root(line)) ELSE Root(line))

Log(r, written) == lines' = [lines EXCEPT ![r] = @ \o written]

(* A controller or the readiness check may log from within the route.      *)
(* What a view catches is an HTTPException, which has a handler, as has a  *)
(* request that does not validate; anything else is raised.                *)
Answers(r) == {Plain(200), Plain(503), Raised}
              \cup {Problem(r, status) : status \in {404, 422, 429, 500}}

Route(r) == /\ IsAt(r, "down", "router")
            /\ \/ UNCHANGED lines
               \/ Log(r, Written(Line(r, "route", at[r], 0, {})))
            /\ \E answer \in Answers(r) : GiveUp(r, answer)
            /\ UNCHANGED <<request, id, context, nextId>>

-----------------------------------------------------------------------------
(* On the way up; an exception goes through every layer as it is. *)
Return(r, answer) ==
  /\ at' = [at EXCEPT ![r] = @ - 1]
  /\ response' = [response EXCEPT ![r] = IF @ = Raised THEN Raised ELSE answer]
  /\ UNCHANGED <<phase, request, id, context, nextId>>

AddCors(r) == /\ IsAt(r, "up", "cors")
              /\ Return(r, [response[r] EXCEPT !.cors = TRUE])
              /\ UNCHANGED lines

(* Our own pages may embed a file, nobody may embed anything else. *)
AddSecurityHeaders(r) ==
  /\ IsAt(r, "up", "securityHeaders")
  /\ Return(r, [response[r] EXCEPT !.framing = IF request[r].path = "files" THEN "ours" ELSE "nobody"])
  /\ UNCHANGED lines

(* The name is compared in lower case. *)
IsSensitive(p) == p.name = "token"

MaskQueryQuoted(query) ==          \* bug: urlencode without safe="*"
  {IF IsSensitive(p) THEN [p EXCEPT !.value = "%2A%2A%2A"] ELSE p : p \in query}

MaskQuery(query) == {IF IsSensitive(p) THEN [p EXCEPT !.value = "***"] ELSE p : p \in query}

StatusAnswered(r) == response[r].status     \* bug: an exception has no status

(* An exception is going to be a 500. *)
StatusOf(r) == IF response[r] = Raised THEN 500 ELSE response[r].status

LogAccess(r) ==
  /\ IsAt(r, "up", "accessLog")
  /\ Log(r, Written(Line(r, "api.access", at[r], StatusOf(r), MaskQuery(request[r].query))))
  /\ Return(r, response[r])

ReturnAsIs(r) == /\ IsAt(r, "up", "bodySize")
                 /\ Return(r, response[r])
                 /\ UNCHANGED lines

EchoId(r) == /\ IsAt(r, "up", "requestId")
             /\ Return(r, [response[r] EXCEPT !.headerId = id[r]])
             /\ UNCHANGED lines

(* The outermost handler answers an exception.  uvicorn has a line of its  *)
(* own for every answer it sends, with the query as the client sent it;    *)
(* the exception is raised again, for uvicorn to log as well.  All of that *)
(* is in the task of the outermost layer.                                  *)
Answer(r) ==
  LET answer == IF response[r] = Raised THEN Problem(r, 500) ELSE response[r]
      access == Line(r, "uvicorn.access", 1, answer.status, request[r].query)
      error  == Line(r, "uvicorn.error", 1, 0, {})
  IN  /\ phase[r] = "up" /\ at[r] = 0
      /\ phase' = [phase EXCEPT ![r] = "answered"]
      /\ response' = [response EXCEPT ![r] = answer]
      /\ Log(r, Written(access) \o (IF response[r] = Raised THEN Written(error) ELSE <<>>))
      /\ UNCHANGED <<at, request, id, context, nextId>>

Next == \E r \in Requests :
          \/ Arrive(r) \/ GenerateId(r) \/ LimitBodySize(r) \/ PassOn(r) \/ Cors(r) \/ Route(r)
          \/ AddCors(r) \/ AddSecurityHeaders(r) \/ LogAccess(r) \/ ReturnAsIs(r) \/ EchoId(r)
          \/ Answer(r)

Spec == Init /\ [][Next]_vars

-----------------------------------------------------------------------------
(* server.py 119-124: a client can quote the id of an answer and it will   *)
(* match the log.  Every line that was logged for a request, by whatever   *)
(* layer and among whatever others, has the id that the client is given,   *)
(* in the header and in a problem document, and no other request has it.   *)
AnswersMatchTheLog ==
  \A r \in Requests : phase[r] = "answered" =>
    /\ response[r].headerId = id[r]
    /\ response[r].bodyId \in {NoId, id[r]}
    /\ \A i \in DOMAIN lines[r] : lines[r][i].id = id[r]
    /\ \A q \in Requests \ {r} : id[q] # id[r]

(* access_log.py 49-60: there is one access line for each answer, with the *)
(* status that the client gets, also when it comes from the handler        *)
(* outside of the log; only a 413 has none.                                *)
AccessLinesTellTheAnswers ==
  \A r \in Requests : phase[r] = "answered" =>
    LET access == {i \in DOMAIN lines[r] : lines[r][i].logger = "api.access"}
    IN  IF response[r].status = 413
        THEN access = {}
        ELSE \E i \in access : access = {i} /\ lines[r][i].status = response[r].status

(* request_guards.py 44-80: every answer says who may embed it, whatever   *)
(* layer it comes from; only a 413 and an exception that nobody handled,   *)
(* which uvicorn logs, go without.                                         *)
AnswersSayWhoMayEmbedThem ==
  \A r \in Requests : phase[r] = "answered" =>
    \/ response[r].framing = (IF request[r].path = "files" THEN "ours" ELSE "nobody")
    \/ response[r].status = 413
    \/ \E i \in DOMAIN lines[r] : lines[r][i].logger = "uvicorn.error"

(* access_log.py 15-21, logging_config.py 117-124: the token of a signed   *)
(* link, which works for minutes, is in no line of a log that is kept for  *)
(* years, whichever logger has it and through whichever handler it gets    *)
(* there: not in the access line of the middleware, which masks it, and    *)
(* not in the one that uvicorn has for every answer, also for the 413 and  *)
(* the 500 made outside of the middleware, with the query as it was sent.  *)
TokensStayOutOfTheLog ==
  \A r \in Requests : \A i \in DOMAIN lines[r] :
    \A p \in lines[r][i].query : p.name = "token" => p.value = "***"

-----------------------------------------------------------------------------
(* The inductive invariant: how far a request has come, and what its id,   *)
(* its context variables, its response and its lines are by then.          *)

LogLine == [logger: Loggers, id: Ids,
            status: {0, 200, 404, 413, 422, 429, 500, 503}, query: SUBSET Parameters]

(* It gets its id in the first layer, and the id is nobody else's. *)
Identified(r) == phase[r] \in {"up", "answered"} \/ (phase[r] = "down" /\ at[r] > 1)
IdsInv ==
  /\ nextId = 1 + Cardinality({r \in Requests : Identified(r)})
  /\ \A r \in Requests : IF Identified(r) THEN id[r] \in 1..(nextId - 1) ELSE id[r] = Unknown
  /\ \A r, q \in Requests : Identified(r) /\ id[q] = id[r] => q = r

(* The tasks of the layers it has gone through carry that id. *)
ContextOK(r) ==
  /\ phase[r] = "down" => at[r] \in 1..6
  /\ phase[r] = "up" => at[r] \in 0..5
  /\ phase[r] = "answered" => at[r] = 0
  /\ Identified(r) => \A l \in Layers : l \in {1} \cup 1..at[r] => context[r][l] = id[r]

(* What comes up carries what the layers it has passed have added. *)
ResponseOK(r) ==
  /\ phase[r] \in {"new", "down"} => response[r] = Raised
  /\ phase[r] = "up" /\ at[r] > 1 => response[r].status # 413
  /\ phase[r] = "answered" => response[r].status # 0
  /\ response[r] # Raised =>
       /\ response[r].status # 0
       /\ response[r].bodyId \in {NoId, id[r]}
       /\ at[r] = 0 => response[r].headerId = id[r]
       /\ at[r] < 4 =>
            \/ response[r].framing = (IF request[r].path = "files" THEN "ours" ELSE "nobody")
            \/ response[r].status = 413
            \/ \E i \in DOMAIN lines[r] : lines[r][i].logger = "uvicorn.error"

(* Its lines carry its id and no token, and its access line its status. *)
AccessLines(r) == {i \in DOMAIN lines[r] : lines[r][i].logger = "api.access"}
LinesOK(r) ==
  /\ phase[r] \in {"new", "down"} => lines[r] = <<>>
  /\ \A i \in DOMAIN lines[r] : lines[r][i].id = id[r]
  /\ phase[r] = "up" /\ at[r] > 2 => AccessLines(r) = {}
  /\ phase[r] = "answered" \/ (phase[r] = "up" /\ at[r] < 3) =>
       IF response[r].status = 413
       THEN AccessLines(r) = {}
       ELSE \E i \in AccessLines(r) : AccessLines(r) = {i} /\ lines[r][i].status = StatusOf(r)

IInv == /\ TypeOK /\ IdsInv /\ TokensStayOutOfTheLog
        /\ lines \in [Requests -> Seq(LogLine)]
        /\ \A r \in Requests : ContextOK(r) /\ ResponseOK(r) /\ LinesOK(r)

=============================================================================
