--------------------------- MODULE PipelineProofs ---------------------------
(***************************************************************************)
(* Proofs about RequestPipeline: the id a client is given is the one on    *)
(* every line logged for its request and nobody else's, there is one       *)
(* access line for each answer, every answer says who may embed it, and no *)
(* token is logged, for any number of requests in any order.               *)
(***************************************************************************)
EXTENDS RequestPipeline, FiniteSetTheorems, TLAPS

USE PipelineAssumption

(* Where the layers are. *)
LEMMA Positions ==
  ASSUME NEW r \in Requests, NEW direction, NEW layer, IsAt(r, direction, layer)
  PROVE  /\ phase[r] = direction /\ at[r] \in 1..6
         /\ layer = "requestId" => at[r] = 1
         /\ layer = "bodySize" => at[r] = 2
         /\ layer = "accessLog" => at[r] = 3
         /\ layer = "securityHeaders" => at[r] = 4
         /\ layer = "cors" => at[r] = 5
         /\ layer = "router" => at[r] = 6
BY DEF IsAt, Order, Layers

LEMMA Cardinal == Cardinality(Requests) \in Nat
BY FS_CardinalityType

(* The twelve steps of a request. *)
Steps(r) == \/ Arrive(r) \/ GenerateId(r) \/ LimitBodySize(r) \/ PassOn(r) \/ Cors(r) \/ Route(r)
            \/ AddCors(r) \/ AddSecurityHeaders(r) \/ LogAccess(r) \/ ReturnAsIs(r) \/ EchoId(r)
            \/ Answer(r)

WellTyped == /\ phase \in [Requests -> {"new", "down", "up", "answered"}]
             /\ at \in [Requests -> 0..6]
             /\ id \in [Requests -> Ids]
             /\ context \in [Requests -> [Layers -> Ids]]
             /\ lines \in [Requests -> Seq(LogLine)]

LEMMA WellTypedAlways == IInv => WellTyped
BY DEF IInv, TypeOK, WellTyped

(* A step of r concerns r alone. *)
LEMMA OthersKept ==
  ASSUME IInv, NEW r \in Requests, Steps(r), NEW q \in Requests, q # r
  PROVE  /\ phase'[q] = phase[q] /\ at'[q] = at[q] /\ request'[q] = request[q] /\ id'[q] = id[q]
         /\ context'[q] = context[q] /\ response'[q] = response[q] /\ lines'[q] = lines[q]
<1> USE DEF IInv, TypeOK, CallNext, GiveUp, Return, Log
<1>1. CASE Arrive(r)
  BY <1>1 DEF Arrive
<1>2. CASE GenerateId(r)
  BY <1>2 DEF GenerateId
<1>3. CASE LimitBodySize(r)
  BY <1>3 DEF LimitBodySize
<1>4. CASE PassOn(r) \/ Cors(r)
  BY <1>4 DEF PassOn, Cors
<1>5. CASE Route(r)
  BY <1>5 DEF Route
<1>6. CASE AddCors(r) \/ AddSecurityHeaders(r)
  BY <1>6 DEF AddCors, AddSecurityHeaders
<1>7. CASE LogAccess(r) \/ ReturnAsIs(r) \/ EchoId(r)
  BY <1>7 DEF LogAccess, ReturnAsIs, EchoId
<1>8. CASE Answer(r)
  BY <1>8 DEF Answer
<1> QED
  BY <1>1, <1>2, <1>3, <1>4, <1>5, <1>6, <1>7, <1>8 DEF Steps

Statuses == {0, 200, 404, 413, 422, 429, 500, 503}

(* What a step puts at the end of the log of r. *)
Adds(r, line) == lines' = [lines EXCEPT ![r] = Append(@, line)]

LEMMA LineType ==
  ASSUME IInv, NEW r \in Requests, NEW logger \in {"api.access", "route", "uvicorn.error"},
         NEW layer \in Layers, NEW status \in Statuses, NEW query \in SUBSET Parameters
  PROVE  Line(r, logger, layer, status, query) \in LogLine
BY DEF Line, LogLine, Loggers, Ambient, IInv, TypeOK, Statuses

(* No token survives the mask. *)
LEMMA MaskHides ==
  ASSUME NEW query \in SUBSET Parameters
  PROVE  /\ MaskQuery(query) \in SUBSET Parameters
         /\ \A p \in MaskQuery(query) : p.name = "token" => p.value = "***"
BY DEF MaskQuery, IsSensitive, Parameters

(* A log with one line more. *)
LEMMA OneLineMore ==
  ASSUME NEW log \in Seq(LogLine), NEW line \in LogLine
  PROVE  /\ Append(log, line) \in Seq(LogLine)
         /\ Len(log) + 1 \notin DOMAIN log
         /\ DOMAIN Append(log, line) = DOMAIN log \cup {Len(log) + 1}
         /\ \A i \in DOMAIN log : Append(log, line)[i] = log[i]
         /\ Append(log, line)[Len(log) + 1] = line
OBVIOUS

(* Every logger but uvicorn.access reaches one handler, that of the root.  *)
LEMMA WrittenOnce ==
  ASSUME NEW line, line.logger \in {"api.access", "route", "uvicorn.error"}
  PROVE  Written(line) = <<line>>
<1>1. Root(line) = <<line>>
  BY DEF Root, Through, Logging, ConfigureLogging, LoggingOfUvicorn
<1>2. Through("uvicorn", line, Root(line)) = <<line>>
  BY <1>1 DEF Through, Logging, ConfigureLogging, LoggingOfUvicorn
<1>3. CASE line.logger = "uvicorn.error"
  BY <1>2, <1>3 DEF Written, Through, Logging, ConfigureLogging, LoggingOfUvicorn
<1>4. CASE line.logger \in {"api.access", "route"}
  <2>1. line.logger \notin Logging.handlers /\ line.logger \in Logging.propagate
    BY <1>4 DEF Logging, ConfigureLogging, LoggingOfUvicorn
  <2>2. Through(line.logger, line, Root(line)) = Root(line)
    BY <1>1, <2>1 DEF Through
  <2> QED
    BY <1>1, <1>4, <2>2 DEF Written
<1> QED
  BY <1>3, <1>4

(* uvicorn.access reaches none. *)
LEMMA NeverWritten ==
  ASSUME NEW line, line.logger = "uvicorn.access"
  PROVE  Written(line) = <<>>
BY DEF Written, Through, Logging, ConfigureLogging, LoggingOfUvicorn

LEMMA LogAdds ==
  ASSUME IInv, NEW r \in Requests, NEW line \in LogLine, Log(r, <<line>>)
  PROVE  Adds(r, line)
<1>1. lines[r] \in Seq(LogLine)
  BY DEF IInv
<1>2. lines[r] \o <<line>> = Append(lines[r], line)
  BY <1>1
<1> QED
  BY <1>2 DEF Log, Adds

LEMMA LogAddsNothing ==
  ASSUME IInv, NEW r \in Requests, Log(r, <<>>)
  PROVE  lines' = lines
<1>1. lines \in [Requests -> Seq(LogLine)]
  BY DEF IInv
<1>2. lines[r] \o <<>> = lines[r]
  BY <1>1
<1> QED
  BY <1>1, <1>2 DEF Log

(* What the layer at hand makes of a response. *)
Added(r) ==
  IF at[r] = 5 THEN [response[r] EXCEPT !.cors = TRUE]
  ELSE IF at[r] = 4
    THEN [response[r] EXCEPT !.framing = IF request[r].path = "files" THEN "ours" ELSE "nobody"]
  ELSE IF at[r] = 1 THEN [response[r] EXCEPT !.headerId = id[r]]
  ELSE response[r]

(* What a step does to the place of r, in the terms of the invariant. *)
Moves(r) ==
  \/ phase[r] = "new" /\ phase'[r] = "down" /\ at'[r] = 1 /\ Arrive(r)
  \/ phase[r] = "down" /\ at[r] = 1 /\ phase'[r] = "down" /\ at'[r] = 2 /\ GenerateId(r)
  \/ phase[r] = "down" /\ at[r] \in 2..5 /\ phase'[r] = "down" /\ at'[r] = at[r] + 1
       /\ CallNext(r, context[r][at[r]]) /\ UNCHANGED <<id, lines, nextId>>
  \/ phase[r] = "down" /\ at[r] \in {2, 5, 6} /\ phase'[r] = "up" /\ at'[r] = at[r] - 1
       /\ UNCHANGED <<request, id, context, nextId>>
       /\ \/ at[r] = 2 /\ response'[r] = Problem(r, 413) /\ lines' = lines
          \/ at[r] = 5 /\ response'[r] = [Plain(200) EXCEPT !.cors = TRUE] /\ lines' = lines
          \/ /\ at[r] = 6 /\ response'[r] \in Answers(r)
             /\ lines' = lines \/ Adds(r, Line(r, "route", at[r], 0, {}))
  \/ phase[r] = "up" /\ at[r] \in 1..5 /\ phase'[r] = "up" /\ at'[r] = at[r] - 1
       /\ UNCHANGED <<request, id, context, nextId>>
       /\ response'[r] = (IF response[r] = Raised THEN Raised ELSE Added(r))
       /\ IF at[r] = 3
          THEN Adds(r, Line(r, "api.access", at[r], StatusOf(r), MaskQuery(request[r].query)))
          ELSE lines' = lines
  \/ phase[r] = "up" /\ at[r] = 0 /\ phase'[r] = "answered" /\ at'[r] = 0
       /\ UNCHANGED <<request, id, context, nextId>>
       /\ \/ response[r] = Raised /\ response'[r] = Problem(r, 500)
               /\ Adds(r, Line(r, "uvicorn.error", 1, 0, {}))
          \/ response[r] # Raised /\ response'[r] = response[r] /\ lines' = lines

LEMMA MovesOnStep ==
  ASSUME IInv, NEW r \in Requests, Steps(r)
  PROVE  Moves(r) /\ request' = request
<1>a. /\ phase \in [Requests -> {"new", "down", "up", "answered"}] /\ at \in [Requests -> 0..6]
      /\ at[r] \in Int
      /\ response = [q \in Requests |-> response[q]]
      /\ phase[r] = "up" => at[r] \in 0..5
  <2>1. ContextOK(r) /\ TypeOK
    BY DEF IInv
  <2> QED
    BY <2>1 DEF TypeOK, ContextOK
<1> USE <1>a DEF Moves
<1>1. CASE Arrive(r)
  BY <1>1 DEF Arrive
<1>2. CASE GenerateId(r)
  BY <1>2, Positions DEF GenerateId, CallNext
<1>3. CASE LimitBodySize(r)
  BY <1>3, Positions DEF LimitBodySize, CallNext, GiveUp
<1>4. CASE PassOn(r)
  BY <1>4, Positions DEF PassOn, CallNext
<1>5. CASE Cors(r)
  <2>1. phase[r] = "down" /\ at[r] = 5
    BY <1>5, Positions DEF Cors
  <2>2. CASE CallNext(r, context[r][at[r]])
    BY <1>5, <2>1, <2>2 DEF Cors, CallNext
  <2>3. CASE GiveUp(r, [Plain(200) EXCEPT !.cors = TRUE]) /\ UNCHANGED <<request, context>>
    <3> DEFINE answer == [Plain(200) EXCEPT !.cors = TRUE]
    <3> HIDE DEF answer
    <3>1. GiveUp(r, answer)
      BY <2>3 DEF answer
    <3>2. phase'[r] = "up" /\ at'[r] = at[r] - 1 /\ response'[r] = answer
      BY <3>1 DEF GiveUp
    <3> QED
      BY <1>5, <2>1, <2>3, <3>2 DEF Cors, answer
  <2> QED
    BY <1>5, <2>2, <2>3 DEF Cors
<1>6. CASE Route(r)
  <2>1. phase[r] = "down" /\ at[r] = 6
    BY <1>6, Positions DEF Route
  <2>2. PICK answer \in Answers(r) : GiveUp(r, answer)
    BY <1>6 DEF Route
  <2>3. phase'[r] = "up" /\ at'[r] = at[r] - 1 /\ response'[r] \in Answers(r)
    BY <2>2 DEF GiveUp
  <2>4. lines' = lines \/ Adds(r, Line(r, "route", at[r], 0, {}))
    <3> DEFINE line == Line(r, "route", at[r], 0, {})
    <3>1. line \in LogLine
      BY <2>1, LineType DEF Layers, Statuses
    <3>2. line.logger = "route"
      BY DEF Line
    <3> HIDE DEF line
    <3>3. lines' = lines \/ Log(r, Written(line))
      BY <1>6 DEF Route, line
    <3> QED
      BY <3>1, <3>2, <3>3, WrittenOnce, LogAdds DEF line
  <2> QED
    BY <1>6, <2>1, <2>3, <2>4 DEF Route
<1>7. CASE AddCors(r)
  <2>1. phase[r] = "up" /\ at[r] = 5
    BY <1>7, Positions DEF AddCors
  <2>2. response'[r] = IF response[r] = Raised THEN Raised ELSE Added(r)
    BY <1>7, <2>1 DEF AddCors, Return, Added
  <2>3. at'[r] = at[r] - 1 /\ UNCHANGED <<phase, request, id, context, nextId>>
    BY <1>7 DEF AddCors, Return
  <2> QED
    BY <1>7, <2>1, <2>2, <2>3 DEF AddCors
<1>8. CASE AddSecurityHeaders(r)
  <2>1. phase[r] = "up" /\ at[r] = 4
    BY <1>8, Positions DEF AddSecurityHeaders
  <2>2. response'[r] = IF response[r] = Raised THEN Raised ELSE Added(r)
    BY <1>8, <2>1 DEF AddSecurityHeaders, Return, Added
  <2>3. at'[r] = at[r] - 1 /\ UNCHANGED <<phase, request, id, context, nextId>>
    BY <1>8 DEF AddSecurityHeaders, Return
  <2> QED
    BY <1>8, <2>1, <2>2, <2>3 DEF AddSecurityHeaders
<1>9. CASE LogAccess(r)
  <2>1. phase[r] = "up" /\ at[r] = 3
    BY <1>9, Positions DEF LogAccess
  <2>2. response'[r] = IF response[r] = Raised THEN Raised ELSE Added(r)
    BY <1>9, <2>1 DEF LogAccess, Return, Added
  <2>3. at'[r] = at[r] - 1 /\ UNCHANGED <<phase, request, id, context, nextId>>
    BY <1>9 DEF LogAccess, Return
  <2>4. Adds(r, Line(r, "api.access", at[r], StatusOf(r), MaskQuery(request[r].query)))
    <3> DEFINE line == Line(r, "api.access", at[r], StatusOf(r), MaskQuery(request[r].query))
    <3>1. request[r].query \in SUBSET Parameters /\ StatusOf(r) \in Statuses
      BY DEF IInv, TypeOK, Sent, StatusOf, Statuses
    <3>2. line \in LogLine /\ line.logger = "api.access"
      BY <2>1, <3>1, LineType, MaskHides DEF Line, Layers
    <3> QED
      BY <1>9, <3>2, WrittenOnce, LogAdds DEF LogAccess
  <2> QED
    BY <1>9, <2>1, <2>2, <2>3, <2>4 DEF LogAccess
<1>10. CASE ReturnAsIs(r)
  <2>1. phase[r] = "up" /\ at[r] = 2
    BY <1>10, Positions DEF ReturnAsIs
  <2>2. response'[r] = IF response[r] = Raised THEN Raised ELSE Added(r)
    BY <1>10, <2>1 DEF ReturnAsIs, Return, Added
  <2>3. at'[r] = at[r] - 1 /\ UNCHANGED <<phase, request, id, context, nextId>>
    BY <1>10 DEF ReturnAsIs, Return
  <2> QED
    BY <1>10, <2>1, <2>2, <2>3 DEF ReturnAsIs
<1>11. CASE EchoId(r)
  <2>1. phase[r] = "up" /\ at[r] = 1
    BY <1>11, Positions DEF EchoId
  <2>2. response'[r] = IF response[r] = Raised THEN Raised ELSE Added(r)
    BY <1>11, <2>1 DEF EchoId, Return, Added
  <2>3. at'[r] = at[r] - 1 /\ UNCHANGED <<phase, request, id, context, nextId>>
    BY <1>11 DEF EchoId, Return
  <2> QED
    BY <1>11, <2>1, <2>2, <2>3 DEF EchoId
<1>12. CASE Answer(r)
  <2> DEFINE answer == IF response[r] = Raised THEN Problem(r, 500) ELSE response[r]
             access == Line(r, "uvicorn.access", 1, answer.status, request[r].query)
             error  == Line(r, "uvicorn.error", 1, 0, {})
  <2>1. /\ phase[r] = "up" /\ at[r] = 0 /\ phase' = [phase EXCEPT ![r] = "answered"]
        /\ response' = [response EXCEPT ![r] = answer]
        /\ Log(r, Written(access) \o (IF response[r] = Raised THEN Written(error) ELSE <<>>))
        /\ UNCHANGED <<at, request, id, context, nextId>>
    BY <1>12 DEF Answer
  <2>2. Written(access) = <<>>
    <3>1. access.logger = "uvicorn.access"
      BY DEF Line
    <3> QED
      BY <3>1, NeverWritten
  <2>3. error \in LogLine /\ Written(error) = <<error>>
    <3>1. error \in LogLine
      BY LineType DEF Layers, Statuses
    <3>2. error.logger = "uvicorn.error"
      BY DEF Line
    <3> QED
      BY <3>1, <3>2, WrittenOnce
  <2>4. phase'[r] = "answered" /\ at'[r] = 0 /\ response'[r] = answer
    BY <2>1
  <2> HIDE DEF access, error
  <2>5. CASE response[r] = Raised
    <3>1. Adds(r, error)
      <4>1. <<>> \o <<error>> = <<error>>
        OBVIOUS
      <4> QED
        BY <2>1, <2>2, <2>3, <2>5, <4>1, LogAdds
    <3> QED
      BY <2>1, <2>4, <2>5, <3>1 DEF error
  <2>6. CASE response[r] # Raised
    <3>1. lines' = lines
      <4>1. <<>> \o <<>> = <<>>
        OBVIOUS
      <4> QED
        BY <2>1, <2>2, <2>6, <4>1, LogAddsNothing
    <3> QED
      BY <2>1, <2>4, <2>6, <3>1
  <2> QED
    BY <2>5, <2>6
<1> QED
  BY <1>1, <1>2, <1>3, <1>4, <1>5, <1>6, <1>7, <1>8, <1>9, <1>10, <1>11, <1>12 DEF Steps

(* A response that a layer makes or passes on is well typed. *)
Responses == [status: Statuses, bodyId: Ids, headerId: Ids,
              framing: {"anyone", "ours", "nobody"}, cors: BOOLEAN]

LEMMA IdsRange == Ids \subseteq Int /\ NoId \in Ids /\ Unknown \in Ids
BY Cardinal DEF Ids, NoId, Unknown

LEMMA ProblemType ==
  ASSUME NEW r \in Requests, id[r] \in Ids, NEW status \in Statuses
  PROVE  /\ Problem(r, status) \in Responses /\ Plain(status) \in Responses
         /\ Problem(r, status) =
              [status |-> status, bodyId |-> id[r], headerId |-> id[r], framing |-> "anyone",
               cors |-> FALSE]
         /\ Plain(status) =
              [status |-> status, bodyId |-> NoId, headerId |-> NoId, framing |-> "anyone",
               cors |-> FALSE]
<1>1. Plain(status) = [status |-> status, bodyId |-> NoId, headerId |-> NoId,
                       framing |-> "anyone", cors |-> FALSE]
  <2> DEFINE R == [status: Statuses \cup {0}, bodyId: {NoId}, headerId: {NoId}, framing: {"anyone"},
                   cors: {FALSE}]
  <2>1. Raised \in R
    BY DEF Raised
  <2>2. Plain(status) \in R /\ Plain(status).status = status
    BY <2>1 DEF Plain
  <2> QED
    BY <2>2
<1>2. Problem(r, status) = [status |-> status, bodyId |-> id[r], headerId |-> id[r],
                            framing |-> "anyone", cors |-> FALSE]
  <2> DEFINE R == [status: {status}, bodyId: {id[r], NoId}, headerId: {id[r], NoId},
                   framing: {"anyone"}, cors: {FALSE}]
  <2>1. Plain(status) \in R
    BY <1>1
  <2>2. /\ Problem(r, status) \in R
        /\ Problem(r, status).bodyId = id[r] /\ Problem(r, status).headerId = id[r]
    BY <2>1 DEF Problem
  <2> QED
    BY <2>2
<1> QED
  BY <1>1, <1>2, IdsRange DEF Responses

LEMMA AnswersType ==
  ASSUME IInv, NEW r \in Requests, NEW answer \in Answers(r)
  PROVE  /\ answer \in Responses /\ answer.status # 413
         /\ answer.status = 0 => answer = Raised
         /\ answer.bodyId \in {NoId, id[r]}
<1>a. id[r] \in Ids
  BY DEF IInv, TypeOK
<1>1. CASE answer = Raised
  BY <1>1, IdsRange DEF Raised, Responses, Statuses
<1>2. CASE answer \in {Plain(200), Plain(503)}
  <2>1. PICK status \in {200, 503} : answer = Plain(status)
    BY <1>2
  <2> QED
    BY <1>a, <2>1, ProblemType DEF Statuses
<1>3. CASE answer \in {Problem(r, status) : status \in {404, 422, 429, 500}}
  <2>1. PICK status \in {404, 422, 429, 500} : answer = Problem(r, status)
    BY <1>3
  <2> QED
    BY <1>a, <2>1, ProblemType DEF Statuses
<1> QED
  BY <1>1, <1>2, <1>3 DEF Answers

(* What a step adds to the log of r: nothing, or a line with the id of the *)
(* task it runs in, in which no token is readable.                         *)
Logs(r, logger) ==
  \E line \in LogLine :
    /\ line.logger = logger /\ line.id = context[r][IF logger = "uvicorn.error" THEN 1 ELSE at[r]]
    /\ \A p \in line.query : p.name = "token" => p.value = "***"
    /\ logger = "api.access" => line.status = StatusOf(r)
    /\ Adds(r, line)
LEMMA LogOnStep ==
  ASSUME IInv, NEW r \in Requests, Steps(r)
  PROVE  \/ lines' = lines /\ (phase[r] = "up" => at[r] # 3)
              /\ (phase[r] = "up" /\ at[r] = 0 => response[r] # Raised)
         \/ phase[r] = "down" /\ at[r] = 6 /\ Logs(r, "route")
         \/ phase[r] = "up" /\ at[r] = 3 /\ Logs(r, "api.access")
         \/ phase[r] = "up" /\ at[r] = 0 /\ response[r] = Raised /\ Logs(r, "uvicorn.error")
<1>a. Moves(r) /\ at[r] \in 0..6
  BY MovesOnStep DEF IInv, TypeOK
<1>1. CASE phase[r] = "down" /\ at[r] = 6 /\ Adds(r, Line(r, "route", at[r], 0, {}))
  <2>1. Line(r, "route", at[r], 0, {}) \in LogLine
    BY <1>1, LineType DEF Layers, Statuses
  <2> QED
    BY <1>1, <2>1 DEF Logs, Line, Ambient
<1>2. CASE phase[r] = "up" /\ at[r] = 3
  <2>1. request[r].query \in SUBSET Parameters
    BY DEF IInv, TypeOK, Sent
  <2>2. StatusOf(r) \in Statuses
    BY DEF IInv, TypeOK, StatusOf, Statuses
  <2> DEFINE line == Line(r, "api.access", at[r], StatusOf(r), MaskQuery(request[r].query))
  <2>3. line \in LogLine
    BY <1>2, <2>1, <2>2, LineType, MaskHides DEF Layers
  <2>4. Adds(r, line)
    BY <1>2, <1>a DEF Moves
  <2> QED
    BY <1>2, <2>1, <2>3, <2>4, MaskHides DEF Logs, Line, Ambient
<1>3. CASE phase[r] = "up" /\ at[r] = 0 /\ response[r] = Raised
  <2>1. Line(r, "uvicorn.error", 1, 0, {}) \in LogLine
    BY LineType DEF Layers, Statuses
  <2>2. Adds(r, Line(r, "uvicorn.error", 1, 0, {}))
    BY <1>3, <1>a DEF Moves
  <2> QED
    BY <1>3, <2>1, <2>2 DEF Logs, Line, Ambient
<1>4. CASE phase[r] = "new" \/ (phase[r] = "down" /\ at[r] = 1)
  BY <1>4, <1>a DEF Moves, Arrive, GenerateId
<1> QED
  BY <1>a, <1>1, <1>2, <1>3, <1>4 DEF Moves

-----------------------------------------------------------------------------
(* TypeOK *)

LEMMA UpwardControl ==
  ASSUME WellTyped, DOMAIN response = Requests, NEW r \in Requests, at[r] # 0, NEW answer,
         GiveUp(r, answer) \/ Return(r, answer)
  PROVE  /\ phase' \in [Requests -> {"new", "down", "up", "answered"}]
         /\ at' \in [Requests -> 0..6]
         /\ DOMAIN response' = Requests
<1>1. at \in [Requests -> 0..6] /\ at[r] - 1 \in 0..6
  BY DEF WellTyped
<1>2. at' = [at EXCEPT ![r] = at[r] - 1]
  BY DEF GiveUp, Return
<1>3. at' \in [Requests -> 0..6]
  BY <1>1, <1>2
<1>4. phase' = [phase EXCEPT ![r] = "up"] \/ phase' = phase
  BY DEF GiveUp, Return
<1>5. phase' \in [Requests -> {"new", "down", "up", "answered"}]
  BY <1>4 DEF WellTyped
<1>6. DOMAIN response' = Requests
  BY DEF GiveUp, Return
<1> QED
  BY <1>3, <1>5, <1>6

LEMMA StepControlType ==
  ASSUME IInv, NEW r \in Requests, Steps(r)
  PROVE  /\ phase' \in [Requests -> {"new", "down", "up", "answered"}]
         /\ at' \in [Requests -> 0..6]
         /\ request' \in [Requests -> Sent]
         /\ DOMAIN id' = Requests /\ DOMAIN response' = Requests /\ DOMAIN lines' = Requests
         /\ DOMAIN context' = Requests
<1>a. WellTyped /\ request \in [Requests -> Sent] /\ request' = request /\ DOMAIN response = Requests
  BY MovesOnStep, WellTypedAlways DEF IInv, TypeOK
<1>b. DOMAIN id' = Requests /\ DOMAIN lines' = Requests /\ DOMAIN context' = Requests
  BY <1>a DEF Steps, WellTyped, CallNext, Return, Log, Arrive, GenerateId, LimitBodySize, PassOn,
              Cors, Route, AddCors, AddSecurityHeaders, LogAccess, ReturnAsIs, EchoId, Answer
<1>c. ASSUME CallNext(r, id[r]) \/ CallNext(r, nextId) \/ CallNext(r, context[r][at[r]]),
             at[r] \in 1..5
      PROVE  /\ phase' \in [Requests -> {"new", "down", "up", "answered"}]
             /\ at' \in [Requests -> 0..6] /\ DOMAIN response' = Requests
  BY <1>a, <1>c DEF CallNext, WellTyped
<1>1. CASE Arrive(r)
  BY <1>a, <1>b, <1>1 DEF Arrive, WellTyped
<1>2. CASE GenerateId(r)
  BY <1>a, <1>b, <1>c, <1>2, Positions DEF GenerateId
<1>3. CASE LimitBodySize(r)
  BY <1>a, <1>b, <1>c, <1>3, Positions, UpwardControl DEF LimitBodySize
<1>4. CASE PassOn(r)
  BY <1>a, <1>b, <1>c, <1>4, Positions DEF PassOn
<1>5. CASE Cors(r)
  BY <1>a, <1>b, <1>c, <1>5, Positions, UpwardControl DEF Cors
<1>6. CASE Route(r)
  BY <1>a, <1>b, <1>6, Positions, UpwardControl DEF Route
<1>7. CASE AddCors(r) \/ AddSecurityHeaders(r) \/ LogAccess(r) \/ ReturnAsIs(r) \/ EchoId(r)
  <2>1. at[r] # 0 /\ \E answer : Return(r, answer)
    BY <1>7, Positions DEF AddCors, AddSecurityHeaders, LogAccess, ReturnAsIs, EchoId
  <2> QED
    BY <1>a, <1>b, <2>1, UpwardControl
<1>8. CASE Answer(r)
  <2>1. DOMAIN response' = Requests
    BY <1>a, <1>8 DEF Answer
  <2> QED
    BY <1>a, <1>b, <1>8, <2>1 DEF Answer, WellTyped
<1> QED
  BY <1>1, <1>2, <1>3, <1>4, <1>5, <1>6, <1>7, <1>8 DEF Steps

-----------------------------------------------------------------------------
(* IdsInv: an id is drawn once for each request. *)

LEMMA IdDrawn ==
  ASSUME IInv, NEW r \in Requests, GenerateId(r)
  PROVE  /\ ~Identified(r) /\ Identified(r)'
         /\ \A q \in Requests : q # r => Identified(q)' = Identified(q) /\ id'[q] = id[q]
         /\ id'[r] = nextId /\ nextId' = nextId + 1
         /\ nextId' = 1 + Cardinality({q \in Requests : Identified(q)'})
         /\ nextId \in Ids /\ nextId' \in Ids /\ nextId \in Nat /\ nextId # 0
<1>1. /\ ~Identified(r) /\ Identified(r)' /\ id' = [id EXCEPT ![r] = nextId] /\ nextId' = nextId + 1
  BY Positions DEF GenerateId, Identified, CallNext, IInv, TypeOK
<1>2. \A q \in Requests : q # r => Identified(q)' = Identified(q) /\ id'[q] = id[q]
  BY OthersKept DEF Steps, Identified
<1> DEFINE S == {q \in Requests : Identified(q)}
           T == {q \in Requests : Identified(q)'}
<1>3. T = S \cup {r} /\ r \notin S
  BY <1>1, <1>2
<1>4. IsFiniteSet(S) /\ IsFiniteSet(T) /\ T \subseteq Requests
  BY FS_Subset
<1>5. Cardinality(T) = Cardinality(S) + 1 /\ Cardinality(S) \in Nat
  BY <1>3, <1>4, FS_AddElement, FS_CardinalityType
<1>6. Cardinality(T) <= Cardinality(Requests)
  BY <1>4, FS_Subset
<1>7. nextId = 1 + Cardinality(S)
  BY DEF IInv, IdsInv
<1> HIDE DEF S, T
<1>8. nextId \in Nat /\ nextId # 0 /\ nextId' = 1 + Cardinality(T) /\ nextId \in Ids /\ nextId' \in Ids
  BY <1>1, <1>5, <1>6, <1>7, Cardinal DEF Ids, Unknown
<1> QED
  BY <1>1, <1>2, <1>8 DEF T, IInv, TypeOK

LEMMA StepIds ==
  ASSUME IInv, NEW r \in Requests, Steps(r)
  PROVE  IdsInv' /\ nextId' \in Ids /\ id' \in [Requests -> Ids]
<1>a. /\ IdsInv /\ nextId \in Ids /\ id \in [Requests -> Ids]
      /\ Cardinality({q \in Requests : Identified(q)}) \in Nat
  <2>1. IsFiniteSet({q \in Requests : Identified(q)})
    BY FS_Subset
  <2> QED
    BY <2>1, FS_CardinalityType DEF IInv, TypeOK
<1>b. nextId \in Nat
  BY <1>a DEF IdsInv
<1>1. CASE GenerateId(r)
  <2>1. nextId' = 1 + Cardinality({q \in Requests : Identified(q)}')
    BY <1>1, IdDrawn
  <2>2. ASSUME NEW q \in Requests
        PROVE  IF Identified(q)' THEN id'[q] \in 1..(nextId' - 1) ELSE id'[q] = Unknown
    <3>1. CASE q = r
      <4>1. id'[r] = nextId /\ nextId' = nextId + 1 /\ nextId \in Nat /\ nextId # 0
        BY <1>1, IdDrawn
      <4>2. id'[r] \in 1..(nextId' - 1)
        BY <4>1
      <4>3. Identified(q)'
        BY <1>1, <3>1, IdDrawn DEF Identified
      <4> QED
        BY <3>1, <4>2, <4>3
    <3>2. CASE q # r
      <4>1. IF Identified(q) THEN id[q] \in 1..(nextId - 1) ELSE id[q] = Unknown
        BY <1>a DEF IdsInv
      <4>2. Identified(q)' = Identified(q) /\ id'[q] = id[q] /\ nextId' = nextId + 1
        BY <1>1, <3>2, IdDrawn
      <4> QED
        BY <1>b, <4>1, <4>2
    <3> QED
      BY <3>1, <3>2
  <2>3. ASSUME NEW q \in Requests, NEW p \in Requests, Identified(q)', id'[p] = id'[q]
        PROVE  p = q
    <3>1. \A t \in Requests : t # r => id'[t] # nextId
      <4> SUFFICES ASSUME NEW t \in Requests, t # r PROVE id'[t] # nextId
        OBVIOUS
      <4>1. IF Identified(t) THEN id[t] \in 1..(nextId - 1) ELSE id[t] = Unknown
        BY <1>a DEF IdsInv
      <4>2. id'[t] = id[t]
        BY <1>1, IdDrawn
      <4> QED
        BY <1>b, <4>1, <4>2 DEF Unknown
    <3>2. CASE p = r \/ q = r
      BY <1>1, <2>3, <3>1, <3>2, IdDrawn
    <3>3. CASE p # r /\ q # r
      BY <1>a, <1>1, <2>3, <3>3, IdDrawn DEF IdsInv
    <3> QED
      BY <3>2, <3>3
  <2> QED
    BY <1>a, <1>1, <2>1, <2>2, <2>3, IdDrawn DEF IdsInv, GenerateId
<1>2. CASE ~GenerateId(r)
  <2>1. id' = id /\ nextId' = nextId
    BY <1>2 DEF Steps, Arrive, LimitBodySize, PassOn, Cors, Route, AddCors, AddSecurityHeaders,
                LogAccess, ReturnAsIs, EchoId, Answer, Return
  <2>2. \A q \in Requests : Identified(q)' = Identified(q)
    <3>1. Identified(r)' = Identified(r)
      <4>1. at[r] \in 0..6 /\ Moves(r)
        BY MovesOnStep DEF IInv, TypeOK
      <4>2. phase[r] = "down" /\ at[r] = 1 => phase'[r] = "down" /\ at'[r] = 2 /\ FALSE
        BY <1>2, <4>1 DEF Moves
      <4> QED
        BY <4>1, <4>2 DEF Moves, Identified
    <3> QED
      BY <3>1, OthersKept DEF Identified
  <2>3. {q \in Requests : Identified(q)}' = {q \in Requests : Identified(q)}
    BY <2>2
  <2> QED
    BY <1>a, <2>1, <2>2, <2>3 DEF IdsInv
<1> QED
  BY <1>1, <1>2

-----------------------------------------------------------------------------
(* ContextOK: the id goes down with the request. *)

LEMMA StepContext ==
  ASSUME IInv, NEW r \in Requests, Steps(r)
  PROVE  context' \in [Requests -> [Layers -> Ids]] /\ \A q \in Requests : ContextOK(q)'
<1>a. /\ WellTyped /\ ContextOK(r) /\ Moves(r) /\ nextId \in Ids
      /\ \A q \in Requests : q # r => ContextOK(q)'
      /\ \A q \in Requests : q # r => context'[q] = context[q]
      /\ DOMAIN context' = Requests /\ context' = [q \in DOMAIN context' |-> context'[q]]
  <2>1. ASSUME NEW q \in Requests, q # r PROVE ContextOK(q)'
    <3>1. ContextOK(q)
      BY DEF IInv
    <3> QED
      BY <2>1, <3>1, OthersKept DEF ContextOK, Identified
  <2>2. context' = [q \in DOMAIN context' |-> context'[q]]
    BY WellTypedAlways DEF WellTyped, Steps, CallNext, Return, Arrive, GenerateId, LimitBodySize, PassOn,
              Cors, Route, AddCors, AddSecurityHeaders, LogAccess, ReturnAsIs, EchoId, Answer
  <2> QED
    BY <2>1, <2>2, WellTypedAlways, MovesOnStep, OthersKept, StepControlType DEF IInv, TypeOK
<1>1. context'[r] \in [Layers -> Ids] /\ ContextOK(r)' => 
        context' \in [Requests -> [Layers -> Ids]] /\ \A q \in Requests : ContextOK(q)'
  BY <1>a DEF WellTyped
<1>2. CASE Arrive(r)
  <2>1. PICK inherited \in {NoId} \cup {context[q][1] : q \in {q \in Requests : phase[q] = "answered"}} :
          context' = [context EXCEPT ![r][1] = inherited]
    BY <1>2 DEF Arrive
  <2>2. inherited \in Ids
    BY <1>a, <2>1, IdsRange DEF WellTyped, Layers
  <2>3. context'[r] \in [Layers -> Ids]
    BY <1>a, <2>1, <2>2 DEF WellTyped
  <2>4. phase'[r] = "down" /\ at'[r] = 1
    BY <1>a, <1>2 DEF Arrive, WellTyped
  <2> QED
    BY <1>1, <2>3, <2>4 DEF ContextOK, Identified
<1>3. ASSUME NEW current \in Ids, CallNext(r, current), phase[r] = "down", at[r] \in 1..5,
             at[r] = 1 => current = id'[r],
             at[r] > 1 => current = context[r][at[r]] /\ id'[r] = id[r]
      PROVE  context'[r] \in [Layers -> Ids] /\ ContextOK(r)'
  <2>1. /\ context'[r] = [l \in Layers |-> IF l \in {at[r], at[r] + 1} THEN current ELSE context[r][l]]
        /\ phase'[r] = "down" /\ at'[r] = at[r] + 1
    BY <1>a, <1>3 DEF CallNext, WellTyped
  <2>2. context'[r] \in [Layers -> Ids]
    BY <1>a, <1>3, <2>1 DEF WellTyped
  <2>3. ASSUME NEW l \in Layers, l \in {1} \cup 1..at'[r]
        PROVE  context'[r][l] = id'[r]
    BY <1>a, <1>3, <2>1, <2>3 DEF ContextOK, Identified, Layers
  <2> QED
    BY <1>3, <2>1, <2>2, <2>3 DEF ContextOK
<1>4. CASE GenerateId(r)
  <2>1. CallNext(r, nextId) /\ id'[r] = nextId /\ phase[r] = "down" /\ at[r] = 1
    BY <1>a, <1>4, Positions DEF GenerateId, WellTyped
  <2> QED
    BY <1>a, <1>1, <1>3, <2>1
<1>5. CASE phase[r] = "down" /\ at[r] \in 2..5 /\ CallNext(r, context[r][at[r]]) /\ id' = id
  <2>1. context[r][at[r]] \in Ids
    BY <1>a, <1>5 DEF WellTyped, Layers
  <2> QED
    BY <1>1, <1>3, <1>5, <2>1
<1>6. CASE /\ UNCHANGED <<context, id>>
           /\ \/ phase[r] = "down" /\ at[r] \in {2, 5, 6} /\ phase'[r] = "up" /\ at'[r] = at[r] - 1
              \/ phase[r] = "up" /\ at[r] \in 1..5 /\ phase'[r] = "up" /\ at'[r] = at[r] - 1
              \/ phase[r] = "up" /\ at[r] = 0 /\ phase'[r] = "answered" /\ at'[r] = 0
  BY <1>a, <1>1, <1>6 DEF ContextOK, Identified, WellTyped, Layers
<1> QED
  BY <1>a, <1>2, <1>4, <1>5, <1>6 DEF Moves

-----------------------------------------------------------------------------
(* ResponseOK: what each layer adds on the way up. *)

LEMMA ResponseElsewhere ==
  ASSUME IInv, NEW r \in Requests, Steps(r), NEW q \in Requests, q # r
  PROVE  ResponseOK(q)' /\ LinesOK(q)'
<1>1. ResponseOK(q) /\ LinesOK(q)
  BY DEF IInv
<1> QED
  BY <1>1, OthersKept DEF ResponseOK, LinesOK, AccessLines, StatusOf

(* A response that a layer passes on. *)
LEMMA AddedType ==
  ASSUME IInv, NEW r \in Requests, at[r] \in 1..5, response[r] # Raised
  PROVE  /\ Added(r) \in Responses /\ Added(r) # Raised
         /\ Added(r).status = response[r].status /\ Added(r).bodyId = response[r].bodyId
         /\ at[r] # 4 => Added(r).framing = response[r].framing
         /\ at[r] = 4 => Added(r).framing = (IF request[r].path = "files" THEN "ours" ELSE "nobody")
         /\ at[r] # 1 => Added(r).headerId = response[r].headerId
         /\ at[r] = 1 => Added(r).headerId = id[r]
<1>1. response[r] \in Responses /\ id[r] \in Ids /\ response[r].status # 0
  BY DEF IInv, TypeOK, Responses, Statuses, ResponseOK
<1>2. Raised.status = 0
  BY DEF Raised
<1> DEFINE framing == IF request[r].path = "files" THEN "ours" ELSE "nobody"
<1> HIDE DEF framing
<1>a. framing \in {"anyone", "ours", "nobody"}
  BY DEF framing
<1>3. CASE at[r] = 5
  <2> DEFINE yes == TRUE
  <2>1. Added(r) = [response[r] EXCEPT !.cors = yes] /\ yes \in BOOLEAN
    BY <1>3 DEF Added
  <2> HIDE DEF yes
  <2> QED
    BY <1>1, <1>2, <1>3, <1>a, <2>1 DEF Responses
<1>4. CASE at[r] = 4
  <2>1. Added(r) = [response[r] EXCEPT !.framing = framing]
    BY <1>4 DEF Added, framing
  <2> QED
    BY <1>1, <1>2, <1>4, <1>a, <2>1 DEF Responses, framing
<1>5. CASE at[r] = 1
  <2>1. Added(r) = [response[r] EXCEPT !.headerId = id[r]]
    BY <1>5 DEF Added
  <2> QED
    BY <1>1, <1>2, <1>5, <1>a, <2>1 DEF Responses
<1>6. CASE at[r] \in {2, 3}
  <2>1. Added(r) = response[r]
    BY <1>6 DEF Added
  <2> QED
    BY <1>1, <1>2, <1>6, <2>1
<1> QED
  BY <1>3, <1>4, <1>5, <1>6

(* The lines that are there stay. *)
LEMMA LinesGrow ==
  ASSUME IInv, NEW r \in Requests, Steps(r)
  PROVE  /\ lines'[r] \in Seq(LogLine)
         /\ \A i \in DOMAIN lines[r] : i \in DOMAIN lines'[r] /\ lines'[r][i] = lines[r][i]
<1>1. lines \in [Requests -> Seq(LogLine)]
  BY DEF IInv
<1>2. ASSUME NEW line \in LogLine, Adds(r, line)
      PROVE  lines'[r] = Append(lines[r], line)
  BY <1>1, <1>2 DEF Adds
<1> QED
  <2>1. CASE lines' = lines
    BY <1>1, <2>1
  <2>2. CASE \E line \in LogLine : Adds(r, line)
    <3>1. PICK line \in LogLine : Adds(r, line)
      BY <2>2
    <3>2. lines'[r] = Append(lines[r], line) /\ lines[r] \in Seq(LogLine)
      BY <1>1, <1>2, <3>1
    <3> QED
      BY <3>2, OneLineMore
  <2> QED
    BY <2>1, <2>2, LogOnStep DEF Logs

LEMMA StepResponse ==
  ASSUME IInv, NEW r \in Requests, Steps(r)
  PROVE  response'[r] \in Responses /\ ResponseOK(r)'
<1>a. /\ ResponseOK(r) /\ Moves(r) /\ response[r] \in Responses /\ at[r] \in 0..6
      /\ id[r] \in Ids /\ request' = request /\ response \in [Requests -> Responses]
      /\ ContextOK(r)
  BY MovesOnStep DEF IInv, TypeOK, Responses, Statuses
<1>b. Raised \in Responses /\ Raised.status = 0
  BY IdsRange DEF Raised, Responses, Statuses
<1>1. CASE phase'[r] \in {"new", "down"}
  <2>1. response'[r] = response[r] /\ phase[r] \in {"new", "down"}
    BY <1>a, <1>1 DEF Moves, Arrive, GenerateId, CallNext
  <2> QED
    BY <1>a, <1>1, <2>1 DEF ResponseOK
<1>2. CASE phase[r] = "down" /\ phase'[r] = "up"
  <2>1. id' = id /\ at'[r] = at[r] - 1 /\ at[r] \in {2, 5, 6}
    BY <1>a, <1>2 DEF Moves
  <2>2. CASE at[r] = 2
    <3>1. response'[r] = Problem(r, 413)
      BY <1>a, <1>2, <2>2 DEF Moves
    <3>2. response'[r] \in Responses /\ response'[r].status = 413 /\ response'[r].bodyId = id[r]
      BY <1>a, <3>1, ProblemType DEF Statuses
    <3> QED
      BY <1>2, <2>1, <2>2, <3>2 DEF ResponseOK
  <2>3. CASE at[r] = 5
    <3> DEFINE plain == Plain(200)
               yes == TRUE
    <3>1. response'[r] = [plain EXCEPT !.cors = yes] /\ yes \in BOOLEAN
      BY <1>a, <1>2, <2>3 DEF Moves
    <3>2. plain \in Responses /\ plain.status = 200 /\ plain.bodyId = NoId
      BY <1>a, ProblemType DEF Statuses
    <3> HIDE DEF plain, yes
    <3>3. response'[r] \in Responses /\ response'[r].status = 200 /\ response'[r].bodyId = NoId
      BY <3>1, <3>2 DEF Responses
    <3> QED
      BY <1>2, <2>1, <2>3, <3>3 DEF ResponseOK
  <2>4. CASE at[r] = 6
    <3>1. response'[r] \in Answers(r)
      BY <1>a, <1>2, <2>4 DEF Moves
    <3> QED
      BY <1>2, <2>1, <2>4, <3>1, AnswersType DEF ResponseOK
  <2> QED
    BY <2>1, <2>2, <2>3, <2>4
<1>3. CASE phase[r] = "up" /\ phase'[r] = "up"
  <2>1. /\ id' = id /\ at'[r] = at[r] - 1 /\ at[r] \in 1..5
        /\ response'[r] = IF response[r] = Raised THEN Raised ELSE Added(r)
    BY <1>a, <1>3 DEF Moves
  <2>2. CASE response[r] = Raised
    BY <1>b, <1>3, <2>1, <2>2 DEF ResponseOK
  <2>3. CASE response[r] # Raised
    <3>1. response'[r] = Added(r)
      BY <2>1, <2>3
    <3>2. at[r] - 1 # 0 \/ at[r] = 1
      BY <2>1
    <3>3. at[r] < 4 =>
            \/ response'[r].framing = (IF request'[r].path = "files" THEN "ours" ELSE "nobody")
            \/ response'[r].status = 413
            \/ \E i \in DOMAIN lines'[r] : lines'[r][i].logger = "uvicorn.error"
      BY <1>a, <2>1, <2>3, <3>1, AddedType, LinesGrow DEF ResponseOK
    <3>4. at'[r] < 4 => at[r] < 4 \/ at[r] = 4
      BY <2>1
    <3>5. response'[r] \in Responses /\ response'[r].status = response[r].status
          /\ response'[r].bodyId = response[r].bodyId /\ (at[r] = 1 => response'[r].headerId = id[r])
          /\ (at[r] = 4 =>
                response'[r].framing = (IF request'[r].path = "files" THEN "ours" ELSE "nobody"))
      BY <1>a, <2>1, <2>3, <3>1, AddedType
    <3>6. response[r].status # 0 /\ response[r].bodyId \in {NoId, id[r]}
          /\ (at[r] > 1 => response[r].status # 413)
      BY <1>a, <1>3, <2>3 DEF ResponseOK
    <3> QED
      BY <1>3, <2>1, <3>2, <3>3, <3>4, <3>5, <3>6 DEF ResponseOK
  <2> QED
    BY <2>2, <2>3
<1>4. CASE phase'[r] = "answered"
  <2>1. phase[r] = "up" /\ at[r] = 0 /\ id' = id /\ at'[r] = 0
    BY <1>a, <1>4 DEF Moves
  <2>2. CASE response[r] = Raised
    <3>1. response'[r] = Problem(r, 500) /\ Adds(r, Line(r, "uvicorn.error", 1, 0, {}))
      BY <1>a, <2>1, <2>2 DEF Moves
    <3>2. /\ response'[r] \in Responses /\ response'[r].status = 500
          /\ response'[r].bodyId = id[r] /\ response'[r].headerId = id[r]
      BY <1>a, <3>1, ProblemType DEF Statuses
    <3>3. \E i \in DOMAIN lines'[r] : lines'[r][i].logger = "uvicorn.error"
      <4>0. Line(r, "uvicorn.error", 1, 0, {}) \in LogLine
        BY LineType DEF Layers, Statuses
      <4>1. Line(r, "uvicorn.error", 1, 0, {}).logger = "uvicorn.error"
        BY DEF Line
      <4>2. /\ lines[r] \in Seq(LogLine)
            /\ lines'[r] = Append(lines[r], Line(r, "uvicorn.error", 1, 0, {}))
        BY <3>1 DEF Adds, IInv
      <4> QED
        BY <4>0, <4>1, <4>2, OneLineMore
    <3> QED
      BY <1>4, <2>1, <3>2, <3>3 DEF ResponseOK
  <2>3. CASE response[r] # Raised
    <3>1. response'[r] = response[r] /\ lines' = lines
      BY <1>a, <2>1, <2>3 DEF Moves
    <3> QED
      BY <1>a, <1>4, <2>1, <2>3, <3>1 DEF ResponseOK
  <2> QED
    BY <2>2, <2>3
<1> QED
  BY <1>a, <1>1, <1>2, <1>3, <1>4 DEF Moves

-----------------------------------------------------------------------------
(* LinesOK: one access line, written by the layer that sees the status. *)

LEMMA StepLines ==
  ASSUME IInv, NEW r \in Requests, Steps(r)
  PROVE  LinesOK(r)' /\ (\A i \in DOMAIN lines'[r] : \A p \in lines'[r][i].query :
                            p.name = "token" => p.value = "***")
<1>a. /\ LinesOK(r) /\ ResponseOK(r) /\ ContextOK(r) /\ Moves(r) /\ at[r] \in 0..6
      /\ lines \in [Requests -> Seq(LogLine)]
      /\ phase[r] \in {"new", "down", "up", "answered"}
      /\ \A i \in DOMAIN lines[r] : \A p \in lines[r][i].query : p.name = "token" => p.value = "***"
  BY MovesOnStep DEF IInv, TypeOK, TokensStayOutOfTheLog
<1>b. phase[r] # "answered"
  BY <1>a DEF Moves
<1>c. phase[r] = "up" \/ (phase[r] = "down" /\ at[r] > 1) => id'[r] = id[r]
  BY <1>a DEF Moves
(* The response a step leaves, as far as an access line is about it. *)
<1>d. /\ phase[r] = "up" => StatusOf(r)' = StatusOf(r) /\ phase'[r] \in {"up", "answered"}
      /\ phase[r] = "up" /\ at[r] # 0 => (response'[r].status = 413 <=> response[r].status = 413)
      /\ phase[r] = "up" /\ at[r] = 0 => (response'[r].status = 413 <=> response[r].status = 413)
  <2>0. Raised.status = 0
    BY DEF Raised
  <2>1. CASE phase[r] = "up" /\ at[r] \in 1..5
    <3>1. response'[r] = IF response[r] = Raised THEN Raised ELSE Added(r)
      BY <1>a, <2>1 DEF Moves
    <3> QED
      BY <1>a, <2>0, <2>1, <3>1, AddedType DEF StatusOf, Moves
  <2>2. CASE phase[r] = "up" /\ at[r] = 0
    <3>1. CASE response[r] = Raised
      <4>1. response'[r] = Problem(r, 500)
        BY <1>a, <2>2, <3>1 DEF Moves
      <4>2. response'[r].status = 500
        BY <4>1, ProblemType DEF IInv, TypeOK, Statuses
      <4>3. response'[r] # Raised
        BY <2>0, <4>2
      <4> QED
        BY <1>a, <2>0, <2>2, <3>1, <4>2, <4>3 DEF StatusOf, Moves
    <3>2. CASE response[r] # Raised
      BY <1>a, <2>2, <3>2 DEF StatusOf, Moves
    <3> QED
      BY <3>1, <3>2
  <2> QED
    BY <1>a, <2>1, <2>2 DEF ContextOK
(* No line, or one more. *)
<1>1. CASE lines' = lines
  <2>1. CASE phase[r] = "new" \/ (phase[r] = "down" /\ phase'[r] = "down")
    <3>1. lines[r] = <<>> /\ phase'[r] = "down"
      BY <1>a, <2>1 DEF LinesOK, Moves
    <3> QED
      BY <1>1, <3>1 DEF LinesOK
  <2>2. CASE phase[r] = "down" /\ phase'[r] = "up"
    <3>1. lines[r] = <<>> /\ at'[r] = at[r] - 1 /\ at[r] \in {2, 5, 6}
      BY <1>a, <2>2 DEF LinesOK, Moves
    <3>2. at[r] = 2 => response'[r].status = 413
      <4>1. at[r] = 2 => response'[r] = Problem(r, 413)
        BY <1>a, <2>2 DEF Moves
      <4> QED
        BY <4>1, ProblemType DEF IInv, TypeOK, Statuses
    <3> QED
      BY <1>1, <2>2, <3>1, <3>2 DEF LinesOK, AccessLines
  <2>3. CASE phase[r] = "up" /\ phase'[r] = "up" /\ at[r] # 3
    <3>1. at'[r] = at[r] - 1 /\ at[r] \in {1, 2, 4, 5}
      BY <1>a, <2>3, LogOnStep DEF Moves
    <3>2. AccessLines(r)' = AccessLines(r)
      BY <1>1 DEF AccessLines
    <3> QED
      BY <1>1, <1>a, <1>c, <1>d, <2>3, <3>1, <3>2 DEF LinesOK
  <2>4. CASE phase[r] = "up" /\ phase'[r] = "answered"
    <3>1. at[r] = 0
      BY <1>a, <2>4 DEF Moves
    <3>2. AccessLines(r)' = AccessLines(r)
      BY <1>1 DEF AccessLines
    <3> QED
      BY <1>1, <1>a, <1>c, <1>d, <2>4, <3>1, <3>2 DEF LinesOK
  <2>5. phase[r] = "up" => at[r] # 3
    <3>1. SUFFICES ASSUME phase[r] = "up", at[r] = 3, Logs(r, "api.access") PROVE FALSE
      BY LogOnStep
    <3>2. PICK line \in LogLine : Adds(r, line)
      BY <3>1 DEF Logs
    <3>3. lines'[r] = Append(lines[r], line) /\ lines[r] \in Seq(LogLine)
      BY <1>a, <3>2 DEF Adds
    <3>4. DOMAIN lines'[r] # DOMAIN lines[r]
      BY <3>3, OneLineMore
    <3> QED
      BY <1>1, <3>4
  <2> QED
    BY <1>1, <1>a, <1>b, <1>d, <2>1, <2>2, <2>3, <2>4, <2>5 DEF Moves
<1>2. ASSUME NEW logger \in {"api.access", "route", "uvicorn.error"}, Logs(r, logger),
             logger = "route" => phase[r] = "down" /\ at[r] = 6,
             logger = "api.access" => phase[r] = "up" /\ at[r] = 3,
             logger = "uvicorn.error" => phase[r] = "up" /\ at[r] = 0
      PROVE  LinesOK(r)' /\ (\A i \in DOMAIN lines'[r] : \A p \in lines'[r][i].query :
                                p.name = "token" => p.value = "***")
  <2>1. PICK line \in LogLine :
          /\ line.logger = logger /\ line.id = context[r][IF logger = "uvicorn.error" THEN 1 ELSE at[r]]
          /\ \A p \in line.query : p.name = "token" => p.value = "***"
          /\ logger = "api.access" => line.status = StatusOf(r)
          /\ Adds(r, line)
    BY <1>2 DEF Logs
  <2> DEFINE n == Len(lines[r]) + 1
  <2>2. /\ n \notin DOMAIN lines[r] /\ DOMAIN lines'[r] = DOMAIN lines[r] \cup {n}
        /\ \A i \in DOMAIN lines[r] : lines'[r][i] = lines[r][i]
        /\ lines'[r][n] = line
    <3>1. lines'[r] = Append(lines[r], line) /\ lines[r] \in Seq(LogLine)
      BY <1>a, <2>1 DEF Adds
    <3> QED
      BY <3>1, OneLineMore
  <2> HIDE DEF n
  <2>3. line.id = id[r] /\ id'[r] = id[r]
    <3>1. id'[r] = id[r] /\ Identified(r)
      BY <1>2, <1>c DEF Identified
    <3> QED
      BY <1>2, <1>a, <2>1, <3>1 DEF ContextOK, Layers
  <2>4. \A i \in DOMAIN lines'[r] : lines'[r][i].id = id'[r]
    BY <1>a, <2>2, <2>3 DEF LinesOK
  <2>5. AccessLines(r)' = IF logger = "api.access" THEN AccessLines(r) \cup {n} ELSE AccessLines(r)
    BY <2>1, <2>2 DEF AccessLines
  <2>6. \A i \in AccessLines(r) : i \in DOMAIN lines[r] /\ lines'[r][i] = lines[r][i]
    BY <2>2 DEF AccessLines
  <2>7. LinesOK(r)'
    <3>1. CASE logger = "route"
      <4>1. phase'[r] = "up" /\ at'[r] = 5 /\ AccessLines(r) = {}
        <5>1. phase'[r] = "up" /\ at'[r] = 5
          BY <1>2, <1>a, <3>1 DEF Moves
        <5> QED
          BY <1>2, <1>a, <3>1, <5>1 DEF LinesOK, AccessLines
      <4> QED
        BY <2>4, <2>5, <3>1, <4>1 DEF LinesOK
    <3>2. CASE logger = "api.access"
      <4>1. phase'[r] = "up" /\ at'[r] = 2
        BY <1>2, <1>a, <3>2 DEF Moves
      <4>2. AccessLines(r) = {} /\ response[r].status # 413
        BY <1>2, <1>a, <3>2 DEF LinesOK, ResponseOK
      <4>3. response'[r].status # 413 /\ StatusOf(r)' = StatusOf(r)
        BY <1>2, <1>d, <3>2, <4>2
      <4>4. AccessLines(r)' = {n} /\ lines'[r][n].status = StatusOf(r)'
        BY <2>1, <2>2, <2>5, <3>2, <4>2, <4>3
      <4> QED
        BY <2>4, <4>1, <4>3, <4>4 DEF LinesOK
    <3>3. CASE logger = "uvicorn.error"
      <4>1. phase[r] = "up" /\ at[r] = 0 /\ phase'[r] = "answered" /\ at'[r] = 0
        BY <1>2, <1>a, <3>3 DEF Moves
      <4>2. AccessLines(r)' = AccessLines(r)
        BY <2>5, <3>3
      <4>3. IF response[r].status = 413 THEN AccessLines(r) = {}
            ELSE \E i \in AccessLines(r) : AccessLines(r) = {i} /\ lines[r][i].status = StatusOf(r)
        BY <1>a, <4>1 DEF LinesOK
      <4>4. IF response'[r].status = 413 THEN AccessLines(r)' = {}
            ELSE \E i \in AccessLines(r)' : AccessLines(r)' = {i}
                                            /\ lines'[r][i].status = StatusOf(r)'
        BY <1>d, <2>6, <4>1, <4>2, <4>3
      <4> QED
        BY <2>4, <4>1, <4>4 DEF LinesOK
    <3> QED
      BY <1>2, <3>1, <3>2, <3>3
  <2> QED
    BY <1>a, <2>1, <2>2, <2>7
<1>3. \A i \in DOMAIN lines'[r] : lines' = lines => \A p \in lines'[r][i].query :
        p.name = "token" => p.value = "***"
  BY <1>a
<1> QED
  BY <1>1, <1>2, <1>3, LogOnStep

-----------------------------------------------------------------------------
(* The theorems. *)

LEMMA InitInv ==
  ASSUME Init
  PROVE  IInv
<1>1. /\ phase = [r \in Requests |-> "new"] /\ at = [r \in Requests |-> 0]
      /\ request \in [Requests -> Sent] /\ id = [r \in Requests |-> Unknown]
      /\ context = [r \in Requests |-> [l \in Layers |-> NoId]]
      /\ response = [r \in Requests |-> Raised] /\ lines = [r \in Requests |-> <<>>] /\ nextId = 1
  BY DEF Init
<1>2. TypeOK
  <2>1. Raised \in Responses
    BY IdsRange DEF Raised, Responses, Statuses
  <2>2. 1 \in Ids
    BY Cardinal DEF Ids, Unknown
  <2> QED
    BY <1>1, <2>1, <2>2, IdsRange DEF TypeOK, Responses, Statuses
<1>3. IdsInv
  <2>1. {r \in Requests : Identified(r)} = {} /\ \A r \in Requests : ~Identified(r)
    BY <1>1 DEF Identified
  <2> QED
    <3>1. Cardinality({r \in Requests : Identified(r)}) = 0
      BY <2>1, FS_EmptySet
    <3> QED
      BY <1>1, <2>1, <3>1 DEF IdsInv
<1>4. ASSUME NEW r \in Requests PROVE ContextOK(r) /\ ResponseOK(r) /\ LinesOK(r)
  BY <1>1 DEF ContextOK, ResponseOK, LinesOK, Identified
<1> QED
  BY <1>1, <1>2, <1>3, <1>4 DEF IInv, TokensStayOutOfTheLog

LEMMA StepInv ==
  ASSUME IInv, NEW r \in Requests, Steps(r)
  PROVE  IInv'
<1>1. ASSUME NEW q \in Requests PROVE ResponseOK(q)' /\ LinesOK(q)'
  <2>1. CASE q = r
    BY <2>1, StepResponse, StepLines
  <2>2. CASE q # r
    BY <2>2, ResponseElsewhere
  <2> QED
    BY <2>1, <2>2
<1>2. ASSUME NEW q \in Requests
      PROVE  response'[q] \in Responses /\ lines'[q] \in Seq(LogLine)
  <2>1. response[q] \in Responses /\ lines[q] \in Seq(LogLine)
    BY DEF IInv, TypeOK, Responses, Statuses
  <2> QED
    BY <2>1, StepResponse, LinesGrow, OthersKept
<1>3. response' = [q \in DOMAIN response' |-> response'[q]]
      /\ lines' = [q \in DOMAIN lines' |-> lines'[q]]
  <2>1. CASE Answer(r)
    <3> DEFINE answer == IF response[r] = Raised THEN Problem(r, 500) ELSE response[r]
               log == lines[r]
                      \o (Written(Line(r, "uvicorn.access", 1, answer.status, request[r].query))
                          \o (IF response[r] = Raised
                              THEN Written(Line(r, "uvicorn.error", 1, 0, {})) ELSE <<>>))
    <3>1. response' = [response EXCEPT ![r] = answer] /\ lines' = [lines EXCEPT ![r] = log]
      BY <2>1 DEF Answer, Log, IInv
    <3> HIDE DEF answer, log
    <3>2. /\ response' = [q \in DOMAIN response |-> IF q = r THEN answer ELSE response[q]]
          /\ lines' = [q \in DOMAIN lines |-> IF q = r THEN log ELSE lines[q]]
      BY <3>1
    <3> QED
      BY <3>2, Zenon
  <2>2. CASE Steps(r) /\ ~Answer(r)
    BY <2>2 DEF IInv, TypeOK, Log, Steps, CallNext, GiveUp, Return, Arrive, GenerateId,
                LimitBodySize, PassOn, Cors, Route, AddCors, AddSecurityHeaders, LogAccess,
                ReturnAsIs, EchoId
  <2> QED
    BY <2>1, <2>2
<1>4. response' \in [Requests -> Responses] /\ lines' \in [Requests -> Seq(LogLine)]
  BY <1>2, <1>3, StepControlType
<1>5. TypeOK'
  <2>1. ASSUME NEW q \in Requests, NEW i \in DOMAIN lines'[q] PROVE lines'[q][i] \in LogLine
    BY <1>2
  <2> QED
    BY <1>4, <2>1, StepControlType, StepIds, StepContext DEF TypeOK, Responses, Statuses, LogLine
<1>6. TokensStayOutOfTheLog'
  BY StepLines, OthersKept DEF IInv, TokensStayOutOfTheLog
<1> QED
  BY <1>1, <1>4, <1>5, <1>6, StepIds, StepContext DEF IInv

LEMMA StutterInv ==
  ASSUME IInv, UNCHANGED vars
  PROVE  IInv'
<1> USE DEF vars
<1>1. TypeOK' /\ TokensStayOutOfTheLog' /\ lines' \in [Requests -> Seq(LogLine)]
  BY DEF IInv, TypeOK, TokensStayOutOfTheLog
<1>2. IdsInv'
  <2>1. {r \in Requests : Identified(r)}' = {r \in Requests : Identified(r)}
    BY DEF Identified
  <2>2. \A r \in Requests : Identified(r)' = Identified(r)
    BY DEF Identified
  <2> QED
    BY <2>1, <2>2 DEF IInv, IdsInv
<1>3. ASSUME NEW r \in Requests PROVE ContextOK(r)' /\ ResponseOK(r)' /\ LinesOK(r)'
  <2>1. ContextOK(r) /\ ResponseOK(r) /\ LinesOK(r)
    BY DEF IInv
  <2> QED
    BY <2>1 DEF ContextOK, Identified, ResponseOK, LinesOK, AccessLines, StatusOf
<1> QED
  BY <1>1, <1>2, <1>3 DEF IInv

(* What a request carries at each layer, for any number of requests that   *)
(* take their steps in any order and inherit each other's contexts.        *)
THEOREM Invariance == Spec => []IInv
<1>1. Init => IInv
  BY InitInv
<1>2. IInv /\ [Next]_vars => IInv'
  BY StepInv, StutterInv DEF Next, Steps
<1> QED
  BY <1>1, <1>2, PTL DEF Spec

(* The types, the bound on the ids included: one per request is enough. *)
THEOREM TypeCorrect == Spec => []TypeOK
<1>1. IInv => TypeOK
  BY DEF IInv
<1> QED
  BY <1>1, Invariance, PTL

(* server.py 119-124, for any number of requests: the id a client quotes   *)
(* is on every line of its request, uvicorn's included, and on no other's. *)
THEOREM AnswersCorrect == Spec => []AnswersMatchTheLog
<1>1. IInv => AnswersMatchTheLog
  <2> SUFFICES ASSUME IInv, NEW r \in Requests, phase[r] = "answered"
               PROVE  /\ response[r].headerId = id[r]
                      /\ response[r].bodyId \in {NoId, id[r]}
                      /\ \A i \in DOMAIN lines[r] : lines[r][i].id = id[r]
                      /\ \A q \in Requests \ {r} : id[q] # id[r]
    BY DEF AnswersMatchTheLog
  <2>1. ResponseOK(r) /\ LinesOK(r) /\ IdsInv /\ Identified(r)
    BY DEF IInv, Identified
  <2>2. response[r] # Raised
    BY <2>1 DEF ResponseOK, Raised
  <2>3. at[r] = 0
    BY DEF IInv, ContextOK
  <2> QED
    BY <2>1, <2>2, <2>3 DEF ResponseOK, LinesOK, IdsInv
<1> QED
  BY <1>1, Invariance, PTL

(* access_log.py 49-60, for every way a request can end. *)
THEOREM AccessLinesCorrect == Spec => []AccessLinesTellTheAnswers
<1>1. IInv => AccessLinesTellTheAnswers
  <2> SUFFICES ASSUME IInv, NEW r \in Requests, phase[r] = "answered"
               PROVE  IF response[r].status = 413
                      THEN AccessLines(r) = {}
                      ELSE \E i \in AccessLines(r) : AccessLines(r) = {i}
                                                     /\ lines[r][i].status = response[r].status
    BY DEF AccessLinesTellTheAnswers, AccessLines
  <2>1. ResponseOK(r) /\ LinesOK(r)
    BY DEF IInv
  <2>2. response[r] # Raised
    BY <2>1 DEF ResponseOK, Raised
  <2> QED
    BY <2>1, <2>2 DEF LinesOK, StatusOf
<1> QED
  BY <1>1, Invariance, PTL

(* request_guards.py 44-80, for every way a request can end. *)
THEOREM FramingCorrect == Spec => []AnswersSayWhoMayEmbedThem
<1>1. IInv => AnswersSayWhoMayEmbedThem
  <2> SUFFICES ASSUME IInv, NEW r \in Requests, phase[r] = "answered"
               PROVE  \/ response[r].framing =
                           (IF request[r].path = "files" THEN "ours" ELSE "nobody")
                      \/ response[r].status = 413
                      \/ \E i \in DOMAIN lines[r] : lines[r][i].logger = "uvicorn.error"
    BY DEF AnswersSayWhoMayEmbedThem
  <2>1. ResponseOK(r) /\ at[r] = 0
    BY DEF IInv, ContextOK
  <2>2. response[r] # Raised
    BY <2>1 DEF ResponseOK, Raised
  <2> QED
    BY <2>1, <2>2 DEF ResponseOK
<1> QED
  BY <1>1, Invariance, PTL

(* access_log.py 15-21, logging_config.py 117-124, for any query and every *)
(* way to answer it: of the loggers that speak of a request, each either   *)
(* hides the token, has no query to tell, or reaches no handler.           *)
THEOREM TokensCorrect == Spec => []TokensStayOutOfTheLog
<1>1. IInv => TokensStayOutOfTheLog
  BY DEF IInv
<1> QED
  BY <1>1, Invariance, PTL
=============================================================================
