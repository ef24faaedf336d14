--------------------------- MODULE CorrelationFlow --------------------------
(***************************************************************************)
(* mixin_logging/adapters: how a correlation id travels through a process  *)
(* and from one process to the next.                                       *)
(*                                                                         *)
(* An inbound adapter resolves the id of a request (a header that is safe, *)
(* or a fresh one), sets it in the context the request is served in, runs  *)
(* the application, and clears it.  The application may meanwhile start    *)
(* tasks and threads, enter another adapter in the same context (a second  *)
(* middleware, a Celery task that runs eagerly), send requests and tasks    *)
(* that carry the id to other adapters, and make notification events and   *)
(* resolver contexts that keep it.  The context itself is the module       *)
(* CorrelationContext.                                                     *)
(*                                                                         *)
(* Messages are never removed, so that each may be delivered late, several *)
(* times or never.                                                         *)
(***************************************************************************)
EXTENDS CorrelationContext, Integers, Sequences, FiniteSets, SequencesExt

CONSTANTS Workers,         \* contexts that serve one request after the other
          Adapters,        \* the inbound adapters in use
          Nestable,        \* those that may be entered inside another one
          ClientIds,       \* safe ids a client may send
          NonAscii,        \* those of them that are not ASCII
          Absent, Empty, Unsafe, Undecodable, \* what else it may send
          CloudEvents,     \* the events a cloud function may get
          MaxRequests, MaxMessages, MaxNesting   \* bounds

\* uuid4: the number of the request stands for the id generated for it
Ids == ClientIds \cup Nat
Headers == Ids \cup {Absent, Empty, Unsafe, Undecodable}

\* AsgiCorrelation, FastApiCorrelation and so on: these three set the id, await
\* the application, and clear the id in a finally
Middlewares == {"asgi", "fastapi", "websocket"}
AllAdapters == Middlewares \cup {"wsgi", "grpc", "celery", "cloud"}

\* an event, by what its headers, the attributes of its first record, its detail
\* and its top level hold (an SQS attribute that is empty counts as absent, an SNS
\* attribute that is empty does not)
Events == [1..4 -> Headers]

ASSUME FlowAssumption ==
  /\ Workers \subseteq Contexts
  /\ Adapters \subseteq AllAdapters /\ Nestable \subseteq AllAdapters \ {"grpc", "cloud"}
  /\ ClientIds \cap Nat = {}
  /\ NonAscii \subseteq ClientIds /\ NonAscii # {}
  /\ {Null, Missing, Absent, Empty, Unsafe, Undecodable} \cap Ids = {}
  /\ CloudEvents \subseteq Events
  /\ MaxRequests \in Nat /\ MaxMessages \in Nat /\ MaxNesting \in Nat

VARIABLES entry,     \* the adapter through which a worker is reached
          alive,     \* the contexts that run
          frames,    \* the adapter calls a context is inside, innermost last
          inherited, \* the requests a task or thread was started for
          origin,    \* the request whose id a task was started with, or 0
          requests,  \* the requests so far: their id, and the request they come from
          messages   \* what has been sent, and made to be read later

flowVars == <<entry, alive, frames, inherited, origin, requests, messages>>
vars == <<correlation_ctx, flowVars>>

\* A call of an adapter.  n: the number of the request.  phase: "handler" once
\* intercept_service has returned, "scope" in every other call.  holds: the request
\* whose id the code of this call is to find; 0 when there is none, or when an adapter
\* entered inside this one has cleared the id.
Frame == [n : Nat \ {0}, adapter : AllAdapters, phase : {"scope", "handler"},
          holds : Nat]

\* what an inbound adapter receives: what a client sent, or what an outbound adapter
\* did; a respelt request has the header twice
Hops == {"request", "respelt", "task"}
Inbound == Hops \cup {"client"}
\* what goes out, and events and resolver contexts, which are made to be read later
Outbound == Hops \cup {"event", "resolver", "response"}

\* id: Null for a Celery task without a usable header.  from: the request that
\* sent the message this one was started by, 0 when that is not known.
Request == [id : Ids \cup {Null}, from : Nat, kind : Inbound]
\* from: the request whose id the suite has put into it, 0 when there is none.
Message == [kind : Outbound, header : Ids \cup {Absent}, from : Nat]

\* the requests a context works for
Work(c) == inherited[c] \cup {f.n : f \in Range(frames[c])}

Top(c) == Last(frames[c])

\* the request whose id the code that runs in c is to find, or 0
Holder(c) == IF frames[c] = <<>> THEN origin[c] ELSE Top(c).holds

Init ==
  /\ correlation_ctx \in [Contexts -> {Null, Missing}]
  /\ \A c \in Contexts \ Workers : correlation_ctx[c] = Missing
  /\ entry \in [Workers -> Adapters]
  /\ alive = Workers
  /\ frames = [c \in Contexts |-> <<>>]
  /\ inherited = [c \in Contexts |-> {}]
  /\ origin = [c \in Contexts |-> 0]
  /\ requests = <<>>
  /\ messages = {}

-----------------------------------------------------------------------------
(* What an adapter makes of a header                                       *)

Generated == Len(requests) + 1

\* from_scope (ASGI), from_metadata (gRPC), from_event: a safe header is the id,
\* otherwise one is generated.  Clients write an id that is not ASCII as UTF-8 or as
\* Latin-1, servers read either as the other, and some of that cannot be decoded.
FromScope(h) == IF h \in NonAscii THEN NonAscii \cup {Generated}
                ELSE IF h \in Ids THEN {h} ELSE {Generated}

\* from_headers of FastAPI: Starlette reads every byte as Latin-1
FromHeaders(h) == IF h = Undecodable THEN NonAscii ELSE FromScope(h)

\* from_environ: an environ is read as Latin-1 too, and WSGI takes an empty
\* header for safe and raises ValueError, before anything is set
FromEnviron(h) == IF h = Empty THEN {} ELSE FromHeaders(h)

\* from_headers of WebSocket leaves out the bytes it cannot decode, and may be
\* left with a safe id
FromHandshake(h) ==
  IF h \in NonAscii \cup {Undecodable} THEN ClientIds \cup {Generated} ELSE FromScope(h)

\* seeded bug: the header is not looked at closely
ResolveUnchecked(adapter, h) ==
  IF h \in {Absent, Empty, Undecodable} THEN {Generated} ELSE {h}

\* the ids an adapter may resolve a header to
Resolve(adapter, h) ==
  CASE adapter = "fastapi"   -> FromHeaders(h)
    [] adapter = "wsgi"      -> FromEnviron(h)
    [] adapter = "websocket" -> FromHandshake(h)
    [] OTHER                 -> FromScope(h)

\* from_event: the first of the four places that holds anything, safe or not
Candidate(event) ==
  IF event[1] # Absent THEN event[1]
  ELSE IF event[2] # Absent THEN event[2]
  ELSE IF event[3] # Absent THEN event[3] ELSE event[4]

-----------------------------------------------------------------------------
(* Entering an adapter                                                     *)

\* an idle worker is reached through its own adapter; the application may enter
\* another one in the context it runs in
CanEnter(c, adapter) ==
  /\ c \in alive
  /\ Len(requests) < MaxRequests
  /\ IF Work(c) = {} THEN adapter = entry[c]
                     ELSE adapter \in Nestable /\ Len(frames[c]) < MaxNesting

Enters(c, adapter, id, arrived) ==
  /\ requests' = Append(requests, [id |-> id, from |-> arrived.from, kind |-> arrived.kind])
  /\ frames' = [frames EXCEPT ![c] =
                  Append(@, [n |-> Len(requests) + 1, adapter |-> adapter, phase |-> "scope",
                             holds |-> IF id = Null THEN Holder(c) ELSE Len(requests) + 1])]
  /\ UNCHANGED <<entry, alive, inherited, origin, messages>>

\* what may arrive: a client's request or task, with any header, and what an
\* adapter has sent
Arriving(kinds) ==
  [header : ClientIds \cup {Absent, Empty, Unsafe, Undecodable}, from : {0},
   kind : {"client"}]
  \cup {m \in messages : m.kind \in kinds}

\* Of a header that is there twice ASGI servers hand on both, and the first is read;
\* WSGI servers and gateways hand on one of the two, or both in one.
ReadOf(m, adapter) ==
  IF m.kind = "respelt" /\ adapter \in {"wsgi", "cloud"}
  THEN ClientIds \cup {Unsafe} \cup {requests[n].id : n \in {m.from} \ {0}}
  ELSE {m.header}

\* what starts a cloud function: an event, or a request by way of a gateway
CloudArriving ==
  [event : CloudEvents, from : {0}, kind : {"client"}]
  \cup UNION {{[event |-> <<h, Absent, Absent, Absent>>, from |-> m.from, kind |-> m.kind] :
                 h \in ReadOf(m, "cloud")} :
               m \in {x \in messages : x.kind \in {"request", "respelt"}}}

\* ASGI, FastAPI and WebSocket middleware, the first item taken from the WSGI
\* generator, and intercept_service
EnterRequest(c, adapter, arrived) ==
  /\ adapter \in Middlewares \cup {"wsgi", "grpc"}
  /\ CanEnter(c, adapter)
  /\ adapter = "grpc" => arrived.from = 0 /\ arrived.header \notin NonAscii
  /\ \E h \in ReadOf(arrived, adapter) : \E id \in Resolve(adapter, h) :
       SetId(c, id) /\ Enters(c, adapter, id, arrived)

\* restore_on_prerun: the id is set when there is a safe one, and left as it is
\* otherwise
EnterTask(c, arrived) ==
  /\ CanEnter(c, "celery")
  /\ IF arrived.header \in Ids
     THEN SetId(c, arrived.header) /\ Enters(c, "celery", arrived.header, arrived)
     ELSE UNCHANGED correlation_ctx /\ Enters(c, "celery", Null, arrived)

\* setup_correlation_id
EnterCloud(c, arrived) ==
  /\ CanEnter(c, "cloud")
  /\ \E id \in Resolve("cloud", Candidate(arrived.event)) :
       SetId(c, id) /\ Enters(c, "cloud", id, arrived)

-----------------------------------------------------------------------------
(* Leaving it                                                              *)

\* the innermost call is over; what is around it has lost its id if `wipes'
PopFrame(c, wipes) ==
  LET outer == Front(frames[c])
  IN  /\ frames' = [frames EXCEPT ![c] =
                      [i \in DOMAIN outer |->
                         IF i = Len(outer) /\ wipes
                         THEN [outer[i] EXCEPT !.holds = 0] ELSE outer[i]]]
      /\ origin' = [origin EXCEPT ![c] = IF outer = <<>> /\ wipes THEN 0 ELSE @]
      /\ UNCHANGED <<entry, alive, inherited, requests, messages>>

\* seeded bug: the id is cleared only where the application returns
LeaveWithoutClear(c) ==
  /\ c \in alive /\ frames[c] # <<>>
  /\ Top(c).adapter \in Middlewares \cup {"wsgi", "celery"}
  /\ Clear(c) \/ UNCHANGED correlation_ctx
  /\ PopFrame(c, TRUE)

\* the application returns, raises or is cancelled, or the WSGI generator is
\* closed: the finally clears the id.  After a Celery task clear_on_postrun does.
Leave(c) ==
  /\ c \in alive /\ frames[c] # <<>>
  /\ Top(c).adapter \in Middlewares \cup {"wsgi", "celery"}
  /\ Clear(c)
  /\ PopFrame(c, TRUE)

\* continuation() has looked the handler up: intercept_service clears the id and
\* hands the handler to the server, which then runs it
InterceptorReturns(c) ==
  /\ c \in alive /\ frames[c] # <<>>
  /\ Top(c).adapter = "grpc" /\ Top(c).phase = "scope"
  /\ Clear(c)
  /\ frames' = [frames EXCEPT ![c][Len(frames[c])].phase = "handler",
                              ![c][Len(frames[c])].holds = 0]
  /\ UNCHANGED <<entry, alive, inherited, origin, requests, messages>>

\* the handler of an RPC ends, or a cloud function: nothing of the adapter runs
LeaveHandler(c) ==
  /\ c \in alive /\ frames[c] # <<>>
  /\ Top(c).adapter = "cloud" \/ Top(c).phase = "handler"
  /\ PopFrame(c, FALSE)
  /\ UNCHANGED correlation_ctx

-----------------------------------------------------------------------------
(* The application                                                         *)

InApplication(c) == c \in alive /\ Work(c) # {}

\* from_context: None when the id is not set; every id an adapter sets is safe
OutboundHeader(c) == IF HasId(c) THEN correlation_ctx[c] ELSE Absent

\* what the application may have given a request or a task under the header's name
Own == ClientIds \cup {Absent}

\* seeded bug: the client leaves a header that is there
KeptIfPresent(c, own) == IF own = Absent THEN OutboundHeader(c) ELSE own

\* every client writes the id over a header that is there, and leaves it alone where
\* from_context is None
Overwritten(c, own) == IF HasId(c) THEN correlation_ctx[c] ELSE own

Leaving(c, kind, header, from) ==
  /\ Cardinality(messages) < MaxMessages
  /\ messages' = messages \cup {[kind |-> kind, header |-> header, from |-> from]}
  /\ UNCHANGED <<correlation_ctx, entry, alive, frames, inherited, origin, requests>>

Sent(c, kind, header) == Leaving(c, kind, header, Holder(c))

\* httpx, requests, urllib3, aiohttp, botocore: the header is added to a request;
\* where current_id raises, so does the client
SendRequest(c, own) ==
  InApplication(c) /\ ~LookUpFails(c) /\ Sent(c, "request", Overwritten(c, own))

\* urlopen alone keeps a header the application has spelt in another way, since a
\* dict tells the two apart: both are sent, the application's first
SendRespelt(c, own) ==
  /\ InApplication(c) /\ HasId(c) /\ own # Absent
  /\ Sent(c, "respelt", own)

\* inject_on_publish: what it raises stays in the signal, the task is published
PublishTask(c, own) == InApplication(c) /\ Sent(c, "task", Overwritten(c, own))

\* NotificationEventClient.create: the event has the id, or None, for as long as it
\* is retried and wherever it is sent from
CreateEvent(c) ==
  InApplication(c) /\ ~LookUpFails(c) /\ Sent(c, "event", OutboundHeader(c))

\* CorrelationContextInjector.inject, whose id or None takes the place of what the
\* resolver context had under the key
InjectResolver(c) ==
  InApplication(c) /\ ~LookUpFails(c) /\ Sent(c, "resolver", OutboundHeader(c))

\* wrapped_send of ASGI, wrapped_start_response of WSGI, and the end of FastAPI's
\* dispatch: the response gets the id that was resolved, whatever the variable holds
Respond(c) ==
  /\ c \in alive /\ frames[c] # <<>>
  /\ Top(c).adapter \in {"asgi", "fastapi", "wsgi"}
  /\ Leaving(c, "response", requests[Top(c).n].id, Top(c).n)

\* the application, or FastAPI's call_next, starts a task
StartTask(c, child) ==
  /\ InApplication(c) /\ child \in Contexts \ alive
  /\ CopyContext(c, child)
  /\ alive' = alive \cup {child}
  /\ inherited' = [inherited EXCEPT ![child] = Work(c)]
  /\ origin' = [origin EXCEPT ![child] = Holder(c)]
  /\ UNCHANGED <<entry, frames, requests, messages>>

StartThread(c, child) ==
  /\ InApplication(c) /\ child \in Contexts \ alive
  /\ EmptyContext(child)
  /\ alive' = alive \cup {child}
  /\ inherited' = [inherited EXCEPT ![child] = Work(c)]
  /\ origin' = [origin EXCEPT ![child] = 0]
  /\ UNCHANGED <<entry, frames, requests, messages>>

\* a task or thread ends, and its context with it
Ends(c) ==
  /\ c \in alive \ Workers /\ frames[c] = <<>>
  /\ EmptyContext(c)
  /\ alive' = alive \ {c}
  /\ inherited' = [inherited EXCEPT ![c] = {}]
  /\ origin' = [origin EXCEPT ![c] = 0]
  /\ UNCHANGED <<entry, frames, requests, messages>>

\* every request is served: the behaviour may stop
BoundsReached == /\ Len(requests) = MaxRequests
                 /\ alive = Workers
                 /\ \A c \in Workers : frames[c] = <<>>
                 /\ UNCHANGED vars

Next == \/ \E c \in Contexts, a \in AllAdapters, x \in Arriving({"request", "respelt"}) :
             EnterRequest(c, a, x)
        \/ \E c \in Contexts, x \in Arriving({"task"}) : EnterTask(c, x)
        \/ \E c \in Contexts, x \in CloudArriving : EnterCloud(c, x)
        \/ \E c \in Contexts : Leave(c)
        \/ \E c \in Contexts : InterceptorReturns(c)
        \/ \E c \in Contexts : LeaveHandler(c)
        \/ \E c \in Contexts, own \in Own : SendRequest(c, own)
        \/ \E c \in Contexts, own \in Own : SendRespelt(c, own)
        \/ \E c \in Contexts, own \in Own : PublishTask(c, own)
        \/ \E c \in Contexts : CreateEvent(c)
        \/ \E c \in Contexts : InjectResolver(c)
        \/ \E c \in Contexts : Respond(c)
        \/ \E c, child \in Contexts : StartTask(c, child)
        \/ \E c, child \in Contexts : StartThread(c, child)
        \/ \E c \in Contexts : Ends(c)
        \/ BoundsReached

Spec == Init /\ [][Next]_vars

-----------------------------------------------------------------------------
(* Properties                                                              *)

\* Every variable keeps its type; in particular an id that is set is one the
\* outbound adapters take for safe, whatever the client sent.
TypeOK ==
  /\ correlation_ctx \in [Contexts -> Ids \cup {Null, Missing}]
  /\ entry \in [Workers -> Adapters]
  /\ Workers \subseteq alive /\ alive \subseteq Contexts
  /\ frames \in [Contexts -> Seq(Frame)]
  /\ \A c \in Contexts : \A f \in Range(frames[c]) :
       f.n <= Len(requests) /\ f.holds <= Len(requests)
  /\ inherited \in [Contexts -> SUBSET (1..Len(requests))]
  /\ origin \in [Contexts -> 0..Len(requests)]
  /\ requests \in Seq(Request)
  /\ messages \subseteq Message
  /\ \A m \in messages : m.from <= Len(requests)

\* An id is read only by code that works for the request the id belongs to: no
\* log line and no outbound request of another request, of an idle worker or of
\* a thread that is reused carries it.  (A cloud function leaves its id behind,
\* where only what runs before the next setup_correlation_id can see it.)
IdOfOwnWork ==
  \A c \in alive : HasId(c) =>
    \/ \E n \in Work(c) : requests[n].id = correlation_ctx[c]
    \/ c \in Workers /\ Work(c) = {} /\ entry[c] = "cloud"

\* From where an adapter sets the id until it clears it, the code it runs finds
\* that id, in its own context and in every task started there, whatever other tasks,
\* threads and requests do.  (An adapter that is entered and left in the same context
\* clears the id of the one around it: from there on none is promised.)
IdThroughoutScope ==
  \A c \in alive : Holder(c) # 0 => correlation_ctx[c] = requests[Holder(c)].id

\* A request keeps its id across processes: what is sent for it, from its own context
\* or from a task that has its id, its response, and every event and resolver context
\* made for it have its id, whatever header the application has put there; and what
\* is sent arrives with it, on every path from an outbound to an inbound adapter,
\* however late, however often and wherever it is delivered.  Two exceptions: an id that
\* is not ASCII may be another one after an HTTP hop (it is the same after a Celery
\* task), and so may any id that urllib3 sends beside a header the application has
\* spelt in its own way, though urllib3-adapter-review.md:186 promises that the id
\* takes precedence.
HopsKeepId ==
  /\ \A m \in messages :
       m.from # 0 /\ m.kind # "respelt" => m.header = requests[m.from].id
  /\ \A n \in DOMAIN requests :
       LET r == requests[n]
       IN  r.from # 0 => /\ r.from < n
                         /\ \/ r.id = requests[r.from].id
                            \/ r.kind = "request" /\ requests[r.from].id \in NonAscii
                            \/ r.kind = "respelt"

\* current_id: "Return the current correlation id, or None if unset."  Code that
\* works for a request can ask for the id, and so log through the filter and send
\* through the outbound adapters, wherever it runs.
IdIsReadable == \A c \in alive : InApplication(c) => ~LookUpFails(c)

\* grpc.md: "After the handler completes or raises, the correlation context is
\* cleared", and all logging within the handler includes the id.
HandlerHasId ==
  \A c \in alive : frames[c] # <<>> /\ Top(c).adapter = "grpc" =>
    correlation_ctx[c] = requests[Top(c).n].id
=============================================================================
