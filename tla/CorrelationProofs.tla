-------------------------- MODULE CorrelationProofs --------------------------
(***************************************************************************)
(* Proofs about CorrelationFlow, for every value of its constants.         *)
(***************************************************************************)
EXTENDS CorrelationFlow, SequenceFacts

\* A context that does not run is inside no adapter; a worker was started for no
\* request and without an id, a task or thread for at least one.
Started(c) == /\ c \notin alive => frames[c] = <<>>
              /\ c \in Workers => inherited[c] = {} /\ origin[c] = 0
              /\ c \in alive \ Workers => inherited[c] # {}

\* gRPC and the cloud are never entered inside another adapter.
Outermost(c) ==
  \A i \in 1..Len(frames[c]) :
    /\ frames[c][i].phase = "handler" => frames[c][i].adapter = "grpc"
    /\ frames[c][i].adapter \in {"grpc", "cloud"} =>
         i = 1 /\ c \in Workers /\ frames[c][i].adapter = entry[c]

\* Every adapter but Celery has resolved an id.
Resolved(c) ==
  \A i \in 1..Len(frames[c]) :
    frames[c][i].adapter # "celery" => requests[frames[c][i].n].id \in Ids

\* What runs in a context finds no id of somebody else's, ...
OwnId(c) == HasId(c) => \/ \E n \in Work(c) : requests[n].id = correlation_ctx[c]
                        \/ c \in Workers /\ Work(c) = {} /\ entry[c] = "cloud"

\* ... the id that it is to find while there is one, ...
ScopeId(c) == Holder(c) # 0 => /\ correlation_ctx[c] \in Ids
                               /\ correlation_ctx[c] = requests[Holder(c)].id

\* ... and none in an RPC handler.
HandlerId(c) == frames[c] # <<>> /\ Top(c).phase = "handler" => ~HasId(c)

Context(c) == /\ Started(c) /\ Outermost(c) /\ Resolved(c)
              /\ c \in alive => OwnId(c) /\ ScopeId(c) /\ HandlerId(c)

\* What was sent by somebody who held an id has that id.
MessagesKeepId ==
  \A m \in messages : m.from # 0 /\ m.kind # "respelt" =>
    m.header \in Ids /\ m.header = requests[m.from].id

\* What a message of this kind may make of the id it was sent under.
Carried(kind, sent, received) == \/ received = sent
                                 \/ kind = "request" /\ sent \in NonAscii
                                 \/ kind = "respelt"

\* What a message has started has the id the message was sent under.
RequestsKeepId ==
  \A n \in DOMAIN requests :
    LET r == requests[n]
    IN  r.from # 0 => r.from < n /\ Carried(r.kind, requests[r.from].id, r.id)

IInv == /\ TypeOK
        /\ \A c \in Contexts : Context(c)
        /\ MessagesKeepId
        /\ RequestsKeepId

-----------------------------------------------------------------------------
(* Ids                                                                     *)

\* Nothing that stands for the lack of an id is one.
LEMMA NoIds ==
  /\ Null \notin Ids /\ Missing \notin Ids /\ Absent \notin Ids /\ Empty \notin Ids
  /\ Undecodable \notin Ids
  /\ Null # Missing
  /\ ClientIds \subseteq Ids /\ Nat \subseteq Ids
  BY FlowAssumption, ContextAssumption DEF Ids

\* An adapter resolves any header to an id, and a safe one that is ASCII to itself.
LEMMA ResolveSound ==
  ASSUME requests \in Seq(Request), NEW adapter, NEW h, NEW id \in Resolve(adapter, h)
  PROVE  /\ id \in Ids
         /\ h \in Ids \ NonAscii => id = h
  <1>1. Generated \in Ids /\ NonAscii \subseteq Ids
    BY NoIds, FlowAssumption DEF Generated
  <1>2. \A i \in FromScope(h) : i \in Ids /\ (h \in Ids \ NonAscii => i = h)
    BY <1>1 DEF FromScope
  <1>3. \A i \in FromHeaders(h) : i \in Ids /\ (h \in Ids \ NonAscii => i = h)
    BY <1>1, <1>2, NoIds DEF FromHeaders
  <1>4. \A i \in FromEnviron(h) : i \in Ids /\ (h \in Ids \ NonAscii => i = h)
    BY <1>3, NoIds DEF FromEnviron
  <1>5. \A i \in FromHandshake(h) : i \in Ids /\ (h \in Ids \ NonAscii => i = h)
    BY <1>1, <1>2, NoIds DEF FromHandshake
  <1> QED BY <1>2, <1>3, <1>4, <1>5 DEF Resolve

\* A context that has an id has one that is safe.
LEMMA IdIsSafe ==
  ASSUME TypeOK, NEW c \in Contexts
  PROVE  HasId(c) <=> correlation_ctx[c] \in Ids
  BY NoIds DEF TypeOK, HasId

-----------------------------------------------------------------------------
(* Frames                                                                  *)

\* The innermost call, and the requests of a context.
LEMMA TopType ==
  ASSUME TypeOK, NEW c \in Contexts, frames[c] # <<>>
  PROVE  /\ Len(frames[c]) \in Nat \ {0}
         /\ Top(c) = frames[c][Len(frames[c])]
         /\ Top(c) \in Frame
         /\ Top(c).n \in 1..Len(requests)
         /\ Top(c).n \in Work(c)
         /\ Top(c).holds \in 0..Len(requests)
  <1>1. frames[c] \in Seq(Frame) /\ Len(requests) \in Nat
    BY DEF TypeOK
  <1>2. Len(frames[c]) \in Nat \ {0}
    BY <1>1, EmptySeq
  <1>3. Top(c) = frames[c][Len(frames[c])] /\ Top(c) \in Frame
    BY <1>1, FrontLast DEF Top
  <1>4. Top(c) \in Range(frames[c])
    BY <1>1, <1>2, <1>3 DEF Range
  <1>5. /\ Top(c).n <= Len(requests) /\ Top(c).n \in Nat \ {0}
        /\ Top(c).holds <= Len(requests) /\ Top(c).holds \in Nat
    BY <1>3, <1>4 DEF TypeOK, Frame
  <1> QED BY <1>1, <1>2, <1>3, <1>4, <1>5 DEF Work

\* Each call is that of a request that there has been.
LEMMA FrameNumbers ==
  ASSUME TypeOK, NEW c \in Contexts, NEW f \in Range(frames[c])
  PROVE  f.n \in 1..Len(requests) /\ f.holds \in 0..Len(requests)
  <1>1. f \in Frame
    BY DEF TypeOK, Range
  <1>2. f.n <= Len(requests) /\ f.holds <= Len(requests) /\ Len(requests) \in Nat
    BY DEF TypeOK
  <1> QED BY <1>1, <1>2 DEF Frame

\* A context works for requests that there have been.
LEMMA WorkType ==
  ASSUME TypeOK, NEW c \in Contexts
  PROVE  Work(c) \subseteq 1..Len(requests)
  <1>1. \A f \in Range(frames[c]) : f.n \in 1..Len(requests)
    BY FrameNumbers
  <1>2. inherited[c] \subseteq 1..Len(requests)
    BY DEF TypeOK
  <1> QED BY <1>1, <1>2 DEF Work

\* Whose id a context is to find is settled by where it is.
LEMMA HolderType ==
  ASSUME TypeOK, NEW c \in Contexts
  PROVE  Holder(c) \in 0..Len(requests)
  <1>1. frames[c] # <<>> => Top(c).holds \in 0..Len(requests)
    BY TopType
  <1> QED BY <1>1 DEF Holder, TypeOK

\* A context that works for nothing is inside no adapter.
LEMMA NoWork ==
  ASSUME TypeOK, NEW c \in Contexts, Work(c) = {}
  PROVE  frames[c] = <<>> /\ inherited[c] = {}
  BY TopType DEF Work

-----------------------------------------------------------------------------
(* Steps                                                                   *)

\* There are as many requests as before or more, and those there were are the same.
Grown == /\ requests' \in Seq(Request)
         /\ Len(requests) <= Len(requests')
         /\ \A n \in 1..Len(requests) : requests'[n] = requests[n]

\* A step that is not of this context.
Apart(c) == /\ correlation_ctx'[c] = correlation_ctx[c]
            /\ frames'[c] = frames[c]
            /\ inherited'[c] = inherited[c]
            /\ origin'[c] = origin[c]
            /\ c \in alive' <=> c \in alive

\* A context keeps its part of the invariant through what happens elsewhere.
LEMMA ApartKeeps ==
  ASSUME TypeOK, NEW c \in Contexts, Context(c), Apart(c), Grown, entry' = entry
  PROVE  Context(c)'
  <1>1. /\ Work(c)' = Work(c) /\ Top(c)' = Top(c) /\ Holder(c)' = Holder(c)
        /\ HasId(c)' <=> HasId(c)
    BY DEF Apart, Work, Top, Holder, HasId
  <1>2. Started(c)' /\ Outermost(c)' /\ (c \in alive' => HandlerId(c)')
    BY <1>1 DEF Apart, Context, Started, Outermost, HandlerId
  <1>3. ASSUME c \in alive'
        PROVE  OwnId(c)'
    <2>1. OwnId(c)
      BY <1>3 DEF Apart, Context
    <2>2. \A n \in Work(c) : requests'[n] = requests[n]
      BY WorkType DEF Grown
    <2> QED BY <1>1, <2>1, <2>2 DEF OwnId, Apart
  <1>4. ASSUME c \in alive'
        PROVE  ScopeId(c)'
    <2>1. Holder(c) # 0 => Holder(c) \in 1..Len(requests)
      BY HolderType DEF TypeOK
    <2>2. Holder(c) # 0 => requests'[Holder(c)] = requests[Holder(c)]
      BY <2>1 DEF Grown
    <2>3. ScopeId(c)
      BY <1>4 DEF Apart, Context
    <2> QED BY <1>1, <2>2, <2>3 DEF ScopeId, Apart
  <1>5. Resolved(c)'
    <2>1. \A i \in 1..Len(frames[c]) : frames[c][i].n \in 1..Len(requests)
      BY ElementOfSeq, FrameNumbers DEF TypeOK, Range
    <2>2. \A i \in 1..Len(frames[c]) :
            requests'[frames[c][i].n] = requests[frames[c][i].n]
      BY <2>1 DEF Grown
    <2> QED BY <2>2 DEF Apart, Context, Resolved
  <1> QED BY <1>2, <1>3, <1>4, <1>5 DEF Context

\* A step that leaves requests and messages alone leaves what is said of them true.
LEMMA SameRequests ==
  ASSUME UNCHANGED requests
  PROVE  /\ TypeOK => Grown
         /\ RequestsKeepId => RequestsKeepId'
         /\ MessagesKeepId /\ UNCHANGED messages => MessagesKeepId'
  <1>1. TypeOK => Grown
    BY DEF TypeOK, Grown
  <1> QED BY <1>1 DEF RequestsKeepId, MessagesKeepId

\* Entering an adapter appends a request and a frame.
LEMMA EntersType ==
  ASSUME TypeOK, NEW c \in Contexts, NEW adapter \in AllAdapters,
         NEW id \in Ids \cup {Null}, NEW arrived, arrived.from \in Nat,
         arrived.kind \in Inbound, Enters(c, adapter, id, arrived)
  PROVE  LET n == Len(requests) + 1
             frame == [n |-> n, adapter |-> adapter, phase |-> "scope",
                       holds |-> IF id = Null THEN Holder(c) ELSE n]
         IN  /\ Grown
             /\ n \in Nat \ {0} /\ Len(requests') = n
             /\ requests'[n] = [id |-> id, from |-> arrived.from, kind |-> arrived.kind]
             /\ frame \in Frame /\ frame.holds \in 0..n
             /\ frames' \in [Contexts -> Seq(Frame)]
             /\ \A d \in Contexts \ {c} : frames'[d] = frames[d]
             /\ frames'[c] # <<>>
             /\ Len(frames'[c]) = Len(frames[c]) + 1
             /\ \A i \in 1..Len(frames[c]) : frames'[c][i] = frames[c][i]
             /\ frames'[c][Len(frames[c]) + 1] = frame
             /\ Top(c)' = frame
             /\ Range(frames'[c]) = Range(frames[c]) \cup {frame}
             /\ Work(c)' = Work(c) \cup {n}
  <1> DEFINE n == Len(requests) + 1
             frame == [n |-> n, adapter |-> adapter, phase |-> "scope",
                       holds |-> IF id = Null THEN Holder(c) ELSE n]
             request == [id |-> id, from |-> arrived.from, kind |-> arrived.kind]
  <1>1. /\ requests \in Seq(Request) /\ request \in Request
        /\ requests' = Append(requests, request)
    BY DEF TypeOK, Enters, Request
  <1>2. /\ Grown /\ n \in Nat \ {0} /\ Len(requests') = n /\ requests'[n] = request
    BY <1>1, AppendProperties DEF Grown
  <1>3. frame \in Frame /\ frame.holds \in 0..n
    <2>1. Holder(c) \in 0..n
      BY <1>2, HolderType DEF TypeOK
    <2> QED BY <1>2, <2>1 DEF Frame
  <1>4. frames[c] \in Seq(Frame) /\ frames' = [frames EXCEPT ![c] = Append(frames[c], frame)]
    BY DEF TypeOK, Enters
  <1> HIDE DEF frame, n
  <1>5. /\ Append(frames[c], frame) \in Seq(Frame)
        /\ Append(frames[c], frame) # <<>>
        /\ Len(Append(frames[c], frame)) = Len(frames[c]) + 1
        /\ \A i \in 1..Len(frames[c]) : Append(frames[c], frame)[i] = frames[c][i]
        /\ Append(frames[c], frame)[Len(frames[c]) + 1] = frame
    BY <1>3, <1>4, AppendProperties
  <1>6. frames'[c] = Append(frames[c], frame)
    BY <1>4 DEF TypeOK
  <1>7. frames' \in [Contexts -> Seq(Frame)] /\ \A d \in Contexts \ {c} : frames'[d] = frames[d]
    BY <1>4, <1>5 DEF TypeOK
  <1>8. Last(Append(frames[c], frame)) = frame
    BY <1>5, FrontLast
  <1>9. Range(frames'[c]) = Range(frames[c]) \cup {frame}
    BY <1>3, <1>4, <1>6, RangeAppend
  <1>10. inherited'[c] = inherited[c]
    BY DEF Enters
  <1>11. frame.n = n
    BY DEF frame
  <1>12. Work(c)' = Work(c) \cup {n}
    BY <1>9, <1>10, <1>11 DEF Work
  <1>13. Top(c)' = frame
    BY <1>6, <1>8 DEF Top
  <1> QED BY <1>2, <1>3, <1>5, <1>6, <1>7, <1>9, <1>12, <1>13 DEF frame, n

-----------------------------------------------------------------------------
(* Entering an adapter                                                     *)

\* Requests and messages that there were keep what is said of them.
LEMMA GrownKeeps ==
  ASSUME TypeOK, Grown, messages' = messages, RequestsKeepId, MessagesKeepId
  PROVE  /\ \A m \in messages : m.from \in Nat /\ m.from <= Len(requests')
         /\ MessagesKeepId'
         /\ \A n \in 1..Len(requests) : LET r == requests'[n]
              IN r.from # 0 => r.from < n /\ Carried(r.kind, requests'[r.from].id, r.id)
  <1>1. Len(requests) \in Nat /\ Len(requests') \in Nat /\ Len(requests) <= Len(requests')
    BY DEF TypeOK, Grown
  <1>2. \A m \in messages : m.from \in Nat /\ m.from <= Len(requests)
    BY DEF TypeOK, Message
  <1>3. \A m \in messages : m.from # 0 => requests'[m.from] = requests[m.from]
    BY <1>1, <1>2 DEF Grown
  <1>4. MessagesKeepId'
    BY <1>3 DEF MessagesKeepId
  <1>5. ASSUME NEW n \in 1..Len(requests), requests'[n].from # 0
        PROVE  /\ requests'[n].from < n
               /\ Carried(requests'[n].kind, requests'[requests'[n].from].id,
                          requests'[n].id)
    <2>1. requests'[n] = requests[n] /\ requests[n] \in Request
      BY ElementOfSeq DEF TypeOK, Grown
    <2>2. requests[n].from \in Nat /\ requests[n].from # 0
      BY <1>5, <2>1 DEF Request
    <2>3. /\ requests[n].from < n
          /\ Carried(requests[n].kind, requests[requests[n].from].id, requests[n].id)
      BY <2>2, DOMAIN requests = 1..Len(requests) DEF RequestsKeepId, TypeOK
    <2>4. requests[n].from \in 1..Len(requests)
      BY <1>1, <2>2, <2>3
    <2> QED BY <2>1, <2>3, <2>4 DEF Grown
  <1> QED BY <1>1, <1>2, <1>4, <1>5

\* What every adapter does on entry keeps the invariant.
LEMMA EntersIInv ==
  ASSUME IInv, NEW c \in Contexts, NEW adapter \in AllAdapters, CanEnter(c, adapter),
         NEW id \in Ids \cup {Null}, NEW arrived, arrived.from \in Nat,
         arrived.kind \in Inbound, Enters(c, adapter, id, arrived),
         \/ id \in Ids /\ SetId(c, id)
         \/ id = Null /\ adapter = "celery" /\ UNCHANGED correlation_ctx,
         arrived.from # 0 => /\ arrived.from \in 1..Len(requests)
                             /\ Carried(arrived.kind, requests[arrived.from].id, id)
  PROVE  IInv'
  <1> DEFINE n == Len(requests) + 1
             frame == [n |-> n, adapter |-> adapter, phase |-> "scope",
                       holds |-> IF id = Null THEN Holder(c) ELSE n]
  <1>1. TypeOK /\ RequestsKeepId /\ MessagesKeepId /\ Context(c)
    BY DEF IInv
  <1>2. /\ Grown
        /\ n \in Nat \ {0} /\ Len(requests') = n
        /\ requests'[n] = [id |-> id, from |-> arrived.from, kind |-> arrived.kind]
        /\ frame \in Frame /\ frame.holds \in 0..n
        /\ frames' \in [Contexts -> Seq(Frame)]
        /\ \A d \in Contexts \ {c} : frames'[d] = frames[d]
        /\ frames'[c] # <<>>
        /\ Len(frames'[c]) = Len(frames[c]) + 1
        /\ \A i \in 1..Len(frames[c]) : frames'[c][i] = frames[c][i]
        /\ frames'[c][Len(frames[c]) + 1] = frame
        /\ Top(c)' = frame
        /\ Range(frames'[c]) = Range(frames[c]) \cup {frame}
        /\ Work(c)' = Work(c) \cup {n}
    BY <1>1, EntersType
  <1>3. /\ frame.n = n /\ frame.adapter = adapter
        /\ frame.phase = "scope"
        /\ frame.holds = IF id = Null THEN Holder(c) ELSE n
    OBVIOUS
  <1>4. UNCHANGED <<entry, alive, inherited, origin, messages>> /\ c \in alive
    BY DEF Enters, CanEnter
  <1> HIDE DEF frame, n
  <1>5. /\ correlation_ctx' \in [Contexts -> Ids \cup {Null, Missing}]
        /\ \A d \in Contexts \ {c} : correlation_ctx'[d] = correlation_ctx[d]
        /\ \/ id \in Ids /\ correlation_ctx'[c] = id
           \/ id = Null /\ adapter = "celery" /\ correlation_ctx'[c] = correlation_ctx[c]
    BY <1>1 DEF TypeOK, SetId
  <1>6. /\ \A m \in messages : m.from \in Nat /\ m.from <= Len(requests')
        /\ MessagesKeepId'
        /\ \A k \in 1..Len(requests) : requests'[k].from # 0 =>
             /\ requests'[k].from < k
             /\ Carried(requests'[k].kind, requests'[requests'[k].from].id, requests'[k].id)
    BY <1>1, <1>2, <1>4, GrownKeeps
  <1>7. Len(requests) \in Nat /\ n = Len(requests) + 1
    BY <1>1 DEF TypeOK, n
  <1>8. TypeOK'
    <2>1. \A d \in Contexts : \A f \in Range(frames'[d]) :
            f.n <= Len(requests') /\ f.holds <= Len(requests')
      <3>1. \A d \in Contexts : \A f \in Range(frames[d]) :
              f.n \in 1..Len(requests) /\ f.holds \in 0..Len(requests)
        BY <1>1, FrameNumbers
      <3>2. \A d \in Contexts : \A f \in Range(frames[d]) :
              f.n <= Len(requests') /\ f.holds <= Len(requests')
        BY <1>2, <1>7, <3>1
      <3> QED BY <1>2, <1>3, <3>2, SMTT(30)
    <2>2. /\ inherited' \in [Contexts -> SUBSET (1..Len(requests'))]
          /\ origin' \in [Contexts -> 0..Len(requests')]
      <3>1. /\ 1..Len(requests) \subseteq 1..Len(requests')
            /\ 0..Len(requests) \subseteq 0..Len(requests')
        BY <1>2, <1>7
      <3> QED BY <1>1, <1>4, <3>1 DEF TypeOK
    <2> QED BY <1>1, <1>2, <1>4, <1>5, <1>6, <2>1, <2>2 DEF TypeOK, Grown
  <1>9. Outermost(c)'
    <2>1. Outermost(c) /\ Len(frames[c]) \in Nat
      BY <1>1 DEF Context, TypeOK
    <2>2. ASSUME adapter \in {"grpc", "cloud"}
          PROVE  Len(frames[c]) + 1 = 1 /\ c \in Workers /\ adapter = entry[c]
      <3>1. Work(c) = {} /\ adapter = entry[c]
        BY <2>2, FlowAssumption DEF CanEnter
      <3>2. frames[c] = <<>> /\ inherited[c] = {}
        BY <1>1, <3>1, NoWork
      <3>3. c \in Workers
        BY <1>1, <1>4, <3>2 DEF Context, Started
      <3> QED BY <3>1, <3>2, <3>3, EmptySeq
    <2>3. ASSUME NEW i \in 1..Len(frames[c])
          PROVE  /\ frames'[c][i].phase = "handler" => frames'[c][i].adapter = "grpc"
                 /\ frames'[c][i].adapter \in {"grpc", "cloud"} =>
                      i = 1 /\ c \in Workers /\ frames'[c][i].adapter = entry'[c]
      BY <1>2, <1>4, <2>1 DEF Outermost
    <2>4. LET i == Len(frames[c]) + 1
          IN  /\ frames'[c][i].phase = "handler" => frames'[c][i].adapter = "grpc"
              /\ frames'[c][i].adapter \in {"grpc", "cloud"} =>
                   i = 1 /\ c \in Workers /\ frames'[c][i].adapter = entry'[c]
      BY <1>2, <1>3, <1>4, <2>2
    <2>5. 1..Len(frames'[c]) = 1..Len(frames[c]) \cup {Len(frames[c]) + 1}
      BY <1>2, <2>1
    <2> QED BY <2>3, <2>4, <2>5 DEF Outermost
  <1>10. OwnId(c)'
    <2>1. CASE id \in Ids /\ correlation_ctx'[c] = id
      BY <1>2, <2>1 DEF OwnId
    <2>2. CASE id = Null /\ adapter = "celery" /\ correlation_ctx'[c] = correlation_ctx[c]
      <3>1. ASSUME HasId(c)'
            PROVE  \E k \in Work(c) : requests[k].id = correlation_ctx[c]
        <4>1. HasId(c)
          BY <2>2, <3>1 DEF HasId
        <4>2. ~(Work(c) = {} /\ entry[c] = "cloud")
          BY <2>2 DEF CanEnter
        <4> QED BY <1>1, <1>4, <4>1, <4>2 DEF Context, OwnId
      <3>2. \A k \in Work(c) : requests'[k] = requests[k]
        BY <1>1, <1>2, WorkType DEF Grown
      <3> QED BY <1>2, <2>2, <3>1, <3>2 DEF OwnId
    <2> QED BY <1>5, <2>1, <2>2
  <1>11. ScopeId(c)'
    <2>1. Holder(c)' = IF id = Null THEN Holder(c) ELSE n
      BY <1>2, <1>3 DEF Holder
    <2>2. CASE id = Null
      <3>1. Holder(c) # 0 => Holder(c) \in 1..Len(requests)
        BY <1>1, HolderType DEF TypeOK
      <3>2. Holder(c) # 0 => requests'[Holder(c)] = requests[Holder(c)]
        BY <1>2, <3>1 DEF Grown
      <3>3. ScopeId(c) /\ correlation_ctx'[c] = correlation_ctx[c]
        BY <1>1, <1>4, <1>5, <2>2, NoIds DEF Context
      <3> QED BY <2>1, <2>2, <3>2, <3>3 DEF ScopeId
    <2>3. CASE id # Null
      BY <1>2, <1>5, <2>1, <2>3 DEF ScopeId
    <2> QED BY <2>2, <2>3
  <1>12. Started(c)' /\ HandlerId(c)'
    BY <1>1, <1>2, <1>3, <1>4 DEF Context, Started, HandlerId
  <1>15. Resolved(c)'
    <2>1. Len(frames[c]) \in Nat /\ Resolved(c)
      BY <1>1 DEF Context, TypeOK
    <2>2. \A i \in 1..Len(frames[c]) :
            /\ frames'[c][i] = frames[c][i]
            /\ requests'[frames[c][i].n] = requests[frames[c][i].n]
      <3>1. \A i \in 1..Len(frames[c]) : frames[c][i].n \in 1..Len(requests)
        BY <1>1, ElementOfSeq, FrameNumbers DEF TypeOK, Range
      <3> QED BY <1>2, <3>1 DEF Grown
    <2>3. frames'[c][Len(frames[c]) + 1].adapter # "celery" =>
            requests'[frames'[c][Len(frames[c]) + 1].n].id \in Ids
      BY <1>2, <1>3, <1>5
    <2>4. 1..Len(frames'[c]) = 1..Len(frames[c]) \cup {Len(frames[c]) + 1}
      BY <1>2, <2>1
    <2> QED BY <2>1, <2>2, <2>3, <2>4 DEF Resolved
  <1>13. \A d \in Contexts : Context(d)'
    <2>1. \A d \in Contexts \ {c} : Apart(d)
      BY <1>2, <1>4, <1>5 DEF Apart
    <2>2. \A d \in Contexts \ {c} : Context(d)'
      BY <1>1, <1>2, <1>4, <2>1, ApartKeeps DEF IInv
    <2> QED BY <1>9, <1>10, <1>11, <1>12, <1>15, <2>2 DEF Context
  <1>14. RequestsKeepId'
    <2>1. DOMAIN requests' = 1..Len(requests) \cup {n}
      BY <1>2, <1>7 DEF Grown
    <2>2. arrived.from # 0 => /\ arrived.from < n
                              /\ requests'[arrived.from] = requests[arrived.from]
      BY <1>2, <1>7 DEF Grown
    <2>3. /\ requests'[n].from = arrived.from /\ requests'[n].kind = arrived.kind
          /\ requests'[n].id = id
      BY <1>2
    <2> QED BY <1>6, <2>1, <2>2, <2>3 DEF RequestsKeepId
  <1> QED BY <1>6, <1>8, <1>13, <1>14 DEF IInv

\* What arrives with a known sender has the sender's id, or two headers.
LEMMA ArrivingKeepsId ==
  ASSUME IInv, NEW kinds \in SUBSET Hops, NEW m \in Arriving(kinds)
  PROVE  /\ m.from \in Nat /\ m.kind \in kinds \cup {"client"}
         /\ m.from # 0 => /\ m.kind \in kinds
                          /\ m.from \in 1..Len(requests)
                          /\ m.kind # "respelt" =>
                               m.header \in Ids /\ m.header = requests[m.from].id
  <1>1. /\ Len(requests) \in Nat
        /\ m \in messages => m.from \in Nat /\ m.from <= Len(requests)
    BY DEF IInv, TypeOK, Message
  <1>2. m \in messages /\ m.from # 0 /\ m.kind # "respelt" =>
          m.header \in Ids /\ m.header = requests[m.from].id
    BY DEF IInv, MessagesKeepId
  <1>3. \/ m.from = 0 /\ m.kind = "client"
        \/ m \in messages /\ m.kind \in kinds
    BY DEF Arriving
  <1> QED BY <1>1, <1>2, <1>3

\* What an adapter resolves of it is carried over.
LEMMA ResolveCarries ==
  ASSUME IInv, NEW m \in Arriving({"request", "respelt"}), NEW adapter,
         NEW h \in ReadOf(m, adapter), NEW id \in Resolve(adapter, h), m.from # 0
  PROVE  Carried(m.kind, requests[m.from].id, id)
  <1>1. {"request", "respelt"} \in SUBSET Hops
    BY DEF Hops
  <1>2. /\ m.kind \in {"request", "respelt"}
        /\ m.kind # "respelt" => m.header \in Ids /\ m.header = requests[m.from].id
    BY <1>1, ArrivingKeepsId
  <1>3. m.kind # "respelt" => h = m.header
    BY DEF ReadOf
  <1>4. h \in Ids \ NonAscii => id = h
    BY ResolveSound DEF IInv, TypeOK
  <1> QED BY <1>2, <1>3, <1>4 DEF Carried

\* Middlewares and the interceptor.
LEMMA EnterRequestIInv ==
  ASSUME IInv, NEW c \in Contexts, NEW adapter \in AllAdapters,
         NEW arrived \in Arriving({"request", "respelt"}), EnterRequest(c, adapter, arrived)
  PROVE  IInv'
  <1>a. PICK h \in ReadOf(arrived, adapter) :
          \E id \in Resolve(adapter, h) : SetId(c, id) /\ Enters(c, adapter, id, arrived)
    BY DEF EnterRequest
  <1>1. PICK id \in Resolve(adapter, h) : SetId(c, id) /\ Enters(c, adapter, id, arrived)
    BY <1>a
  <1>2. {"request", "respelt"} \in SUBSET Hops
    BY DEF Hops
  <1>3. /\ arrived.from \in Nat /\ arrived.kind \in Inbound
        /\ arrived.from # 0 => arrived.from \in 1..Len(requests)
    BY <1>2, ArrivingKeepsId DEF Inbound, Hops
  <1>4. arrived.from # 0 => Carried(arrived.kind, requests[arrived.from].id, id)
    BY ResolveCarries
  <1>5. id \in Ids
    BY ResolveSound DEF IInv, TypeOK
  <1> QED BY <1>1, <1>3, <1>4, <1>5, EntersIInv DEF EnterRequest

\* Celery.
LEMMA EnterTaskIInv ==
  ASSUME IInv, NEW c \in Contexts, NEW arrived \in Arriving({"task"}), EnterTask(c, arrived)
  PROVE  IInv'
  <1>1. {"task"} \in SUBSET Hops
    BY DEF Hops
  <1>2. /\ arrived.from \in Nat /\ arrived.kind \in Inbound
        /\ arrived.from # 0 => /\ arrived.from \in 1..Len(requests)
                               /\ arrived.header \in Ids
                               /\ arrived.header = requests[arrived.from].id
    BY <1>1, ArrivingKeepsId DEF Inbound, Hops
  <1>3. CanEnter(c, "celery") /\ "celery" \in AllAdapters
    BY DEF EnterTask, AllAdapters
  <1>4. CASE arrived.header \in Ids
    BY <1>2, <1>3, <1>4, EntersIInv DEF EnterTask, Carried
  <1>5. CASE arrived.header \notin Ids
    BY <1>2, <1>3, <1>5, EntersIInv DEF EnterTask
  <1> QED BY <1>4, <1>5

\* Cloud functions: the header of a gateway's event comes first.
LEMMA EnterCloudIInv ==
  ASSUME IInv, NEW c \in Contexts, NEW arrived \in CloudArriving, EnterCloud(c, arrived)
  PROVE  IInv'
  <1> DEFINE header == Candidate(arrived.event)
  <1>1. PICK id \in Resolve("cloud", header) : SetId(c, id) /\ Enters(c, "cloud", id, arrived)
    BY DEF EnterCloud
  <1>2. \/ arrived.from = 0 /\ arrived.kind = "client"
        \/ \E m \in Arriving({"request", "respelt"}) : \E h \in ReadOf(m, "cloud") :
             /\ arrived.from = m.from /\ arrived.kind = m.kind
             /\ arrived.event = <<h, Absent, Absent, Absent>>
    BY DEF CloudArriving, Arriving
  <1>3. {"request", "respelt"} \in SUBSET Hops
    BY DEF Hops
  <1>4. /\ arrived.from \in Nat /\ arrived.kind \in Inbound
        /\ arrived.from # 0 => arrived.from \in 1..Len(requests)
    BY <1>2, <1>3, ArrivingKeepsId DEF Inbound, Hops
  <1>5. arrived.from # 0 => Carried(arrived.kind, requests[arrived.from].id, id)
    <2>1. SUFFICES ASSUME arrived.from # 0,
                          NEW m \in Arriving({"request", "respelt"}), NEW h \in ReadOf(m, "cloud"),
                          arrived.from = m.from, arrived.kind = m.kind,
                          arrived.event = <<h, Absent, Absent, Absent>>
                   PROVE  Carried(arrived.kind, requests[arrived.from].id, id)
      BY <1>2
    <2>2. header = h
      BY <2>1 DEF Candidate
    <2> HIDE DEF header
    <2> QED BY <1>1, <2>1, <2>2, ResolveCarries
  <1>6. id \in Ids
    BY <1>1, ResolveSound DEF IInv, TypeOK
  <1>7. CanEnter(c, "cloud") /\ "cloud" \in AllAdapters
    BY DEF EnterCloud, AllAdapters
  <1> HIDE DEF header
  <1> QED BY <1>1, <1>4, <1>5, <1>6, <1>7, EntersIInv

-----------------------------------------------------------------------------
(* Leaving an adapter                                                      *)

\* Without the innermost frame, the others are as they were but for the id they hold.
LEMMA PopFrameType ==
  ASSUME TypeOK, NEW c \in Contexts, frames[c] # <<>>, NEW wipes \in BOOLEAN,
         PopFrame(c, wipes)
  PROVE  /\ frames' \in [Contexts -> Seq(Frame)]
         /\ \A d \in Contexts \ {c} : frames'[d] = frames[d]
         /\ Len(frames'[c]) = Len(frames[c]) - 1
         /\ \A i \in 1..Len(frames'[c]) : /\ frames'[c][i].n = frames[c][i].n
                                          /\ frames'[c][i].adapter = frames[c][i].adapter
                                          /\ frames'[c][i].phase = frames[c][i].phase
         /\ wipes => Holder(c)' = 0
         /\ origin' \in [Contexts -> 0..Len(requests)]
         /\ \A d \in Contexts \ {c} : origin'[d] = origin[d]
         /\ origin'[c] \in {0, origin[c]}
         /\ Range(frames'[c]) \subseteq Frame
         /\ \A f \in Range(frames'[c]) :
              f.n \in 1..Len(requests) /\ f.holds \in 0..Len(requests)
  <1> DEFINE outer == Front(frames[c])
             left == [i \in DOMAIN outer |->
                        IF i = Len(outer) /\ wipes
                        THEN [outer[i] EXCEPT !.holds = 0] ELSE outer[i]]
  <1>1. frames' = [frames EXCEPT ![c] = left] /\ frames[c] \in Seq(Frame)
    BY DEF PopFrame, TypeOK
  <1>2. /\ outer \in Seq(Frame) /\ Len(outer) = Len(frames[c]) - 1
        /\ \A i \in 1..(Len(frames[c]) - 1) : outer[i] = frames[c][i]
    BY <1>1, FrontLast
  <1> HIDE DEF outer
  <1>3. DOMAIN outer = 1..Len(outer) /\ Len(outer) \in Nat
    BY <1>2
  <1>4. \A i \in 1..Len(outer) : outer[i] \in Frame
    BY <1>2, ElementOfSeq
  <1>5. \A f \in Frame : /\ [f EXCEPT !.holds = 0] \in Frame
                         /\ [f EXCEPT !.holds = 0].n = f.n
                         /\ [f EXCEPT !.holds = 0].adapter = f.adapter
                         /\ [f EXCEPT !.holds = 0].phase = f.phase
                         /\ [f EXCEPT !.holds = 0].holds = 0
    BY DEF Frame
  <1>6. /\ left \in [1..Len(outer) -> Frame]
        /\ \A i \in 1..Len(outer) : /\ left[i].n = outer[i].n
                                    /\ left[i].adapter = outer[i].adapter
                                    /\ left[i].phase = outer[i].phase
                                    /\ left[i].holds \in {0, outer[i].holds}
                                    /\ i = Len(outer) /\ wipes => left[i].holds = 0
    BY <1>3, <1>4, <1>5
  <1>7. left \in Seq(Frame) /\ Len(left) = Len(outer)
    BY <1>3, <1>6, IsASeq, LenProperties
  <1> HIDE DEF left
  <1>8. frames'[c] = left /\ frames' \in [Contexts -> Seq(Frame)]
        /\ \A d \in Contexts \ {c} : frames'[d] = frames[d]
    BY <1>1, <1>7 DEF TypeOK
  <1>9. wipes /\ left # <<>> => Last(left).holds = 0
    <2>1. left # <<>> => Len(left) \in 1..Len(left)
      BY <1>7, EmptySeq
    <2>2. left # <<>> => Last(left) = left[Len(left)]
      BY <1>7, FrontLast
    <2>3. left # <<>> => (Len(left) = Len(outer) /\ wipes => left[Len(left)].holds = 0)
      BY <1>6, <1>7, <2>1
    <2> QED BY <1>7, <2>2, <2>3
  <1>10. \A i \in 1..Len(outer) : /\ left[i] \in Frame
                                  /\ left[i].n = frames[c][i].n
                                  /\ left[i].adapter = frames[c][i].adapter
                                  /\ left[i].phase = frames[c][i].phase
                                  /\ left[i].holds \in {0, frames[c][i].holds}
                                  /\ frames[c][i] \in Range(frames[c])
    <2>1. \A i \in 1..Len(outer) : outer[i] = frames[c][i] /\ i \in DOMAIN frames[c]
      BY <1>1, <1>2, <1>3
    <2> QED BY <1>6, <2>1 DEF Range
  <1>11. /\ Range(left) \subseteq Frame
         /\ \A f \in Range(left) : f.n \in 1..Len(requests) /\ f.holds \in 0..Len(requests)
    <2>1. \A f \in Range(frames[c]) :
            f.n \in 1..Len(requests) /\ f.holds \in 0..Len(requests)
      BY FrameNumbers
    <2>a. 0 \in 0..Len(requests)
      BY DEF TypeOK
    <2>3. ASSUME NEW i \in 1..Len(outer)
          PROVE  left[i].n \in 1..Len(requests) /\ left[i].holds \in 0..Len(requests)
      BY <1>10, <2>1, <2>a, Zenon
    <2>2. Range(left) = {left[i] : i \in 1..Len(outer)}
      BY <1>6 DEF Range
    <2> QED BY <1>10, <2>2, <2>3
  <1>12. origin' = [origin EXCEPT ![c] = IF outer = <<>> /\ wipes THEN 0 ELSE @]
    BY DEF PopFrame, outer
  <1>13. /\ origin' \in [Contexts -> 0..Len(requests)]
         /\ \A d \in Contexts \ {c} : origin'[d] = origin[d]
         /\ origin'[c] \in {0, origin[c]}
         /\ outer = <<>> /\ wipes => origin'[c] = 0
    BY <1>12 DEF TypeOK
  <1>14. left = <<>> => outer = <<>>
    BY <1>2, <1>7, EmptySeq
  <1>15. wipes => Holder(c)' = 0
    BY <1>8, <1>9, <1>13, <1>14 DEF Holder, Top
  <1> QED BY <1>2, <1>7, <1>8, <1>10, <1>11, <1>13, <1>15

\* A step of one context that makes no request and sends nothing.
LEMMA OwnStepIInv ==
  ASSUME IInv, NEW c \in Contexts, UNCHANGED <<entry, requests, messages>>,
         \A d \in Contexts \ {c} : Apart(d), TypeOK', Context(c)'
  PROVE  IInv'
  <1>1. Grown /\ RequestsKeepId' /\ MessagesKeepId'
    BY SameRequests DEF IInv
  <1>2. \A d \in Contexts \ {c} : Context(d)'
    BY <1>1, ApartKeeps DEF IInv
  <1> QED BY <1>1, <1>2 DEF IInv

\* A clear leaves no id.
LEMMA Cleared ==
  ASSUME TypeOK, NEW c \in Contexts, Clear(c)
  PROVE  /\ correlation_ctx' \in [Contexts -> Ids \cup {Null, Missing}]
         /\ \A d \in Contexts \ {c} : correlation_ctx'[d] = correlation_ctx[d]
         /\ ~HasId(c)'
  BY DEF TypeOK, Clear, HasId

\* What every adapter does on leaving keeps the types and the outer frames.
LEMMA PopFrameKeeps ==
  ASSUME IInv, NEW c \in Contexts, c \in alive, frames[c] # <<>>, NEW wipes \in BOOLEAN,
         PopFrame(c, wipes),
         correlation_ctx' \in [Contexts -> Ids \cup {Null, Missing}],
         \A d \in Contexts \ {c} : correlation_ctx'[d] = correlation_ctx[d],
         OwnId(c)', ScopeId(c)', HandlerId(c)'
  PROVE  IInv'
  <1>1. TypeOK /\ Context(c)
    BY DEF IInv
  <1>2. /\ frames' \in [Contexts -> Seq(Frame)]
        /\ \A d \in Contexts \ {c} : frames'[d] = frames[d]
        /\ Len(frames'[c]) = Len(frames[c]) - 1
        /\ \A i \in 1..Len(frames'[c]) : /\ frames'[c][i].n = frames[c][i].n
                                         /\ frames'[c][i].adapter = frames[c][i].adapter
                                         /\ frames'[c][i].phase = frames[c][i].phase
        /\ \A f \in Range(frames'[c]) :
             f.n \in 1..Len(requests) /\ f.holds \in 0..Len(requests)
        /\ origin' \in [Contexts -> 0..Len(requests)]
        /\ \A d \in Contexts \ {c} : origin'[d] = origin[d]
        /\ origin'[c] \in {0, origin[c]}
    BY <1>1, PopFrameType
  <1>3. UNCHANGED <<entry, alive, inherited, requests, messages>>
    BY DEF PopFrame
  <1>4. TypeOK'
    <2>1. \A d \in Contexts : \A f \in Range(frames'[d]) :
            f.n \in 1..Len(requests) /\ f.holds \in 0..Len(requests)
      BY <1>1, <1>2, FrameNumbers
    <2>2. Len(requests) \in Nat
      BY <1>1 DEF TypeOK
    <2>3. \A d \in Contexts : \A f \in Range(frames'[d]) :
            f.n <= Len(requests) /\ f.holds <= Len(requests)
      BY <2>1, <2>2
    <2> QED BY <1>1, <1>2, <1>3, <2>3 DEF TypeOK
  <1>5. Outermost(c)' /\ Resolved(c)'
    <2>1. Len(frames[c]) \in Nat \ {0}
      BY <1>1, TopType
    <2>2. \A i \in 1..Len(frames'[c]) : i \in 1..Len(frames[c])
      BY <1>2, <2>1
    <2>3. Outermost(c)'
      BY <1>1, <1>2, <1>3, <2>2 DEF Outermost, Context
    <2>4. Resolved(c)'
      BY <1>1, <1>2, <1>3, <2>2 DEF Resolved, Context
    <2> QED BY <2>3, <2>4
  <1>6. Started(c)'
    BY <1>1, <1>2, <1>3 DEF Started, Context
  <1>7. Context(c)'
    BY <1>5, <1>6 DEF Context
  <1>8. \A d \in Contexts \ {c} : Apart(d)
    BY <1>2, <1>3 DEF Apart
  <1> QED BY <1>3, <1>4, <1>7, <1>8, OwnStepIInv

\* The finally of a middleware, and clear_on_postrun.
LEMMA LeaveIInv ==
  ASSUME IInv, NEW c \in Contexts, Leave(c)
  PROVE  IInv'
  <1>1. TypeOK /\ c \in alive /\ frames[c] # <<>> /\ Clear(c) /\ PopFrame(c, TRUE)
    BY DEF IInv, Leave
  <1>2. OwnId(c)' /\ HandlerId(c)'
    BY <1>1, Cleared DEF OwnId, HandlerId
  <1>3. Holder(c)' = 0
    BY <1>1, PopFrameType
  <1>4. ScopeId(c)'
    BY <1>3 DEF ScopeId
  <1> QED BY <1>1, <1>2, <1>4, Cleared, PopFrameKeeps

\* The end of an RPC handler or of a cloud function.
LEMMA LeaveHandlerIInv ==
  ASSUME IInv, NEW c \in Contexts, LeaveHandler(c)
  PROVE  IInv'
  <1>1. /\ TypeOK /\ Context(c)
        /\ c \in alive /\ frames[c] # <<>> /\ PopFrame(c, FALSE)
        /\ UNCHANGED correlation_ctx
        /\ Top(c).adapter = "cloud" \/ Top(c).phase = "handler"
    BY DEF IInv, LeaveHandler
  <1>2. Len(frames[c]) \in Nat \ {0} /\ Top(c) = frames[c][Len(frames[c])]
    BY <1>1, TopType
  <1>3. Top(c).adapter \in {"grpc", "cloud"}
    BY <1>1, <1>2 DEF Context, Outermost
  <1>4. Len(frames[c]) = 1 /\ c \in Workers /\ Top(c).adapter = entry[c]
    <2>1. Len(frames[c]) \in 1..Len(frames[c])
      BY <1>2
    <2>2. Outermost(c)
      BY <1>1 DEF Context
    <2> QED BY <1>2, <1>3, <2>1, <2>2 DEF Outermost
  <1>5. inherited[c] = {} /\ origin'[c] = 0 /\ UNCHANGED <<entry, inherited>>
    BY <1>1, <1>4, PopFrameType DEF Context, Started, PopFrame
  <1>6. frames'[c] = <<>>
    <2>1. frames'[c] \in Seq(Frame) /\ Len(frames'[c]) = Len(frames[c]) - 1
      BY <1>1, PopFrameType
    <2> QED BY <1>4, <2>1, EmptySeq
  <1>7. Range(frames'[c]) = {}
    BY <1>6, EmptySeq DEF Range
  <1>8. Work(c)' = {}
    BY <1>5, <1>7 DEF Work
  <1>9. OwnId(c)'
    <2>1. Top(c).phase = "handler" => ~HasId(c)'
      BY <1>1 DEF Context, HandlerId, HasId
    <2>2. Top(c).adapter = "cloud" => c \in Workers /\ Work(c)' = {} /\ entry'[c] = "cloud"
      BY <1>4, <1>5, <1>8
    <2> QED BY <1>1, <2>1, <2>2 DEF OwnId
  <1>10. ScopeId(c)' /\ HandlerId(c)'
    BY <1>5, <1>6 DEF ScopeId, Holder, HandlerId
  <1>11. correlation_ctx' \in [Contexts -> Ids \cup {Null, Missing}]
         /\ \A d \in Contexts \ {c} : correlation_ctx'[d] = correlation_ctx[d]
    BY <1>1 DEF TypeOK
  <1> QED BY <1>1, <1>9, <1>10, <1>11, PopFrameKeeps

\* intercept_service returns the handler.
LEMMA InterceptorReturnsIInv ==
  ASSUME IInv, NEW c \in Contexts, InterceptorReturns(c)
  PROVE  IInv'
  <1> DEFINE last == Len(frames[c])
             called == [Top(c) EXCEPT !.phase = "handler", !.holds = 0]
  <1>1. /\ TypeOK /\ Context(c)
        /\ c \in alive /\ frames[c] # <<>> /\ Clear(c)
        /\ Top(c).adapter = "grpc"
        /\ UNCHANGED <<entry, alive, inherited, origin, requests, messages>>
    BY DEF IInv, InterceptorReturns
  <1>2. /\ last \in Nat \ {0} /\ Top(c) = frames[c][last] /\ Top(c) \in Frame
        /\ Top(c).n \in 1..Len(requests)
    BY <1>1, TopType
  <1>3. /\ called \in Frame /\ called.n = Top(c).n /\ called.adapter = "grpc"
        /\ called.phase = "handler" /\ called.holds = 0
    BY <1>1, <1>2 DEF Frame
  <1>4. frames' = [frames EXCEPT ![c] = [frames[c] EXCEPT ![last] = called]]
    BY <1>1, <1>2 DEF InterceptorReturns
  <1> HIDE DEF called
  <1>5. frames[c] \in Seq(Frame) /\ last \in 1..Len(frames[c])
    BY <1>1, <1>2 DEF TypeOK
  <1>6. /\ [frames[c] EXCEPT ![last] = called] \in Seq(Frame)
        /\ Len([frames[c] EXCEPT ![last] = called]) = last
        /\ \A i \in 1..last : [frames[c] EXCEPT ![last] = called][i] =
             IF i = last THEN called ELSE frames[c][i]
    BY <1>3, <1>5, ExceptSeq
  <1>7. /\ frames' \in [Contexts -> Seq(Frame)]
        /\ \A d \in Contexts \ {c} : frames'[d] = frames[d]
        /\ frames'[c] \in Seq(Frame) /\ Len(frames'[c]) = last
        /\ \A i \in 1..last : frames'[c][i] = IF i = last THEN called ELSE frames[c][i]
    BY <1>1, <1>4, <1>6 DEF TypeOK
  <1> HIDE DEF last
  <1>8. TypeOK'
    <2>1. \A f \in Range(frames'[c]) :
            f.n \in 1..Len(requests) /\ f.holds \in 0..Len(requests)
      <3>1. \A f \in Range(frames'[c]) : f = called \/ f \in Range(frames[c])
        <4>1. DOMAIN frames'[c] = 1..last /\ DOMAIN frames[c] = 1..last
          BY <1>5, <1>7 DEF last
        <4> QED BY <1>7, <4>1 DEF Range
      <3>2. 0 \in 0..Len(requests)
        BY <1>1 DEF TypeOK
      <3> QED BY <1>1, <1>2, <1>3, <3>1, <3>2, FrameNumbers
    <2>2. \A d \in Contexts : \A f \in Range(frames'[d]) :
            f.n \in 1..Len(requests) /\ f.holds \in 0..Len(requests)
      BY <1>1, <1>7, <2>1, FrameNumbers
    <2>3. Len(requests) \in Nat
      BY <1>1 DEF TypeOK
    <2>4. \A d \in Contexts : \A f \in Range(frames'[d]) :
            f.n <= Len(requests) /\ f.holds <= Len(requests)
      BY <2>2, <2>3
    <2> QED BY <1>1, <1>7, <2>4, Cleared DEF TypeOK
  <1>9. Outermost(c)' /\ Resolved(c)'
    <2>1. Len(frames[c]) = last
      BY DEF last
    <2>2. Outermost(c)'
      BY <1>1, <1>2, <1>3, <1>7, <2>1 DEF Context, Outermost
    <2>3. \A i \in 1..last : /\ frames'[c][i].n = frames[c][i].n
                             /\ frames'[c][i].adapter = frames[c][i].adapter
      BY <1>1, <1>2, <1>3, <1>7
    <2>4. Resolved(c)'
      BY <1>1, <1>7, <2>1, <2>3 DEF Context, Resolved
    <2> QED BY <2>2, <2>4
  <1>10. OwnId(c)' /\ HandlerId(c)'
    BY <1>1, Cleared DEF OwnId, HandlerId
  <1>11. ScopeId(c)'
    <2>1. frames'[c] # <<>> => Top(c)' = frames'[c][last]
      BY <1>7, FrontLast DEF Top
    <2>2. frames'[c][last] = called
      BY <1>2, <1>7
    <2>3. Len(frames'[c]) # 0
      BY <1>2, <1>7 DEF last
    <2>4. frames'[c] # <<>>
      BY <2>3, EmptySeq
    <2> QED BY <1>3, <2>1, <2>2, <2>4 DEF ScopeId, Holder
  <1>12. Started(c)'
    BY <1>1 DEF Context, Started
  <1>13. \A d \in Contexts \ {c} : Apart(d)
    BY <1>1, <1>7, Cleared DEF Apart
  <1> QED BY <1>1, <1>8, <1>9, <1>10, <1>11, <1>12, <1>13, OwnStepIInv DEF Context

-----------------------------------------------------------------------------
(* The application                                                         *)

\* Sending something, with a header, for a request or for none.
LEMMA LeavingIInv ==
  ASSUME IInv, NEW c \in Contexts,
         NEW kind \in Outbound, NEW header \in Ids \cup {Absent}, NEW from \in Nat,
         from <= Len(requests),
         from # 0 /\ kind # "respelt" => header \in Ids /\ header = requests[from].id,
         Leaving(c, kind, header, from)
  PROVE  IInv'
  <1> DEFINE m == [kind |-> kind, header |-> header, from |-> from]
  <1>1. TypeOK
    BY DEF IInv
  <1>2. /\ messages' = messages \cup {m}
        /\ UNCHANGED <<correlation_ctx, entry, alive, frames, inherited, origin, requests>>
    BY DEF Leaving
  <1>8. m \in Message
    BY DEF Message
  <1>9. m.from = from /\ m.header = header /\ m.kind = kind
    OBVIOUS
  <1> HIDE DEF m
  <1>10. TypeOK'
    BY <1>1, <1>2, <1>8, <1>9 DEF TypeOK
  <1>11. MessagesKeepId'
    BY <1>2, <1>9 DEF IInv, MessagesKeepId
  <1>12. Grown /\ RequestsKeepId'
    BY <1>2, SameRequests DEF IInv
  <1>13. \A d \in Contexts : Apart(d)
    BY <1>2 DEF Apart
  <1>14. \A d \in Contexts : Context(d)'
    BY <1>2, <1>12, <1>13, ApartKeeps DEF IInv
  <1> QED BY <1>10, <1>11, <1>12, <1>14 DEF IInv

\* Sending something with what the context has, or with what the application gave.
LEMMA SentIInv ==
  ASSUME IInv, NEW c \in Contexts, InApplication(c),
         NEW kind \in Outbound,
         NEW header, \/ header = OutboundHeader(c)
                     \/ \E own \in Own : header = Overwritten(c, own)
                     \/ kind = "respelt" /\ header \in Own,
         Sent(c, kind, header)
  PROVE  IInv'
  <1> DEFINE from == Holder(c)
  <1>1. TypeOK /\ c \in alive
    BY DEF IInv, InApplication
  <1>2. HasId(c) => correlation_ctx[c] \in Ids
    BY <1>1, IdIsSafe
  <1>3. header \in Ids \cup {Absent}
    BY <1>2, NoIds DEF OutboundHeader, Overwritten, Own
  <1>4. HasId(c) /\ kind # "respelt" => header = correlation_ctx[c]
    BY DEF OutboundHeader, Overwritten
  <1>5. Len(requests) \in Nat
    BY <1>1 DEF TypeOK
  <1>6. from \in Nat /\ from <= Len(requests)
    BY <1>1, <1>5, HolderType
  <1>7. from # 0 /\ kind # "respelt" => header \in Ids /\ header = requests[from].id
    <2>1. ScopeId(c)
      BY <1>1 DEF IInv, Context
    <2> QED BY <1>1, <1>4, <2>1, IdIsSafe DEF ScopeId
  <1>8. Leaving(c, kind, header, from)
    BY DEF Sent
  <1> QED BY <1>3, <1>6, <1>7, <1>8, LeavingIInv

\* Sending a request that keeps a header of the application's.
LEMMA RespeltIInv ==
  ASSUME IInv, NEW c \in Contexts, NEW own \in Own, SendRespelt(c, own)
  PROVE  IInv'
  BY SentIInv DEF SendRespelt, Outbound, Hops

\* A response has the id its adapter has resolved.
LEMMA RespondIInv ==
  ASSUME IInv, NEW c \in Contexts, Respond(c)
  PROVE  IInv'
  <1>1. TypeOK /\ Resolved(c)
    BY DEF IInv, Context
  <1>2. /\ Len(frames[c]) \in Nat \ {0} /\ Top(c) = frames[c][Len(frames[c])]
        /\ Top(c).n \in 1..Len(requests)
    BY <1>1, TopType DEF Respond
  <1>3. Len(frames[c]) \in 1..Len(frames[c])
    BY <1>2
  <1>4. requests[Top(c).n].id \in Ids
    BY <1>1, <1>2, <1>3 DEF Respond, Resolved
  <1>5. Len(requests) \in Nat
    BY <1>1 DEF TypeOK
  <1>6. Top(c).n \in Nat /\ Top(c).n <= Len(requests)
    BY <1>2, <1>5
  <1> QED BY <1>4, <1>6, LeavingIInv DEF Respond, Outbound

\* Starting a task or a thread: it works for what its creator works for, and has
\* the creator's id or none.
LEMMA StartIInv ==
  ASSUME IInv, NEW c \in Contexts, NEW child \in Contexts,
         StartTask(c, child) \/ StartThread(c, child)
  PROVE  IInv'
  <1>1. /\ TypeOK /\ Context(c) /\ Context(child)
        /\ c \in alive /\ Work(c) # {} /\ child \notin alive
        /\ alive' = alive \cup {child}
        /\ inherited' = [inherited EXCEPT ![child] = Work(c)]
        /\ \/ /\ origin' = [origin EXCEPT ![child] = Holder(c)]
              /\ correlation_ctx' = [correlation_ctx EXCEPT ![child] = correlation_ctx[c]]
           \/ origin' = [origin EXCEPT ![child] = 0]
        /\ UNCHANGED <<entry, frames, requests, messages>>
    BY DEF IInv, StartTask, StartThread, InApplication, CopyContext
  <1>2. /\ correlation_ctx' \in [Contexts -> Ids \cup {Null, Missing}]
        /\ \A d \in Contexts \ {child} : correlation_ctx'[d] = correlation_ctx[d]
        /\ correlation_ctx'[child] \in {correlation_ctx[c], Missing}
    BY <1>1 DEF TypeOK, StartTask, StartThread, CopyContext, EmptyContext
  <1>3. Work(c) \subseteq 1..Len(requests) /\ {0, Holder(c)} \subseteq 0..Len(requests)
    BY <1>1, WorkType, HolderType DEF TypeOK
  <1>4. TypeOK'
    <2>1. inherited' \in [Contexts -> SUBSET (1..Len(requests))]
      BY <1>1, <1>3 DEF TypeOK
    <2>2. origin' \in [Contexts -> 0..Len(requests)]
      BY <1>1, <1>3 DEF TypeOK
    <2>3. Workers \subseteq alive' /\ alive' \subseteq Contexts
      BY <1>1 DEF TypeOK
    <2> QED BY <1>1, <1>2, <2>1, <2>2, <2>3 DEF TypeOK
  <1>5. /\ frames'[child] = <<>> /\ inherited'[child] = Work(c)
        /\ child \notin Workers /\ Work(c) \subseteq Work(child)'
    BY <1>1 DEF TypeOK, Context, Started, Work
  <1>6. OwnId(child)'
    <2>1. HasId(child)' => HasId(c) /\ correlation_ctx'[child] = correlation_ctx[c]
      BY <1>2 DEF HasId
    <2>2. HasId(c) => \E n \in Work(c) : requests[n].id = correlation_ctx[c]
      BY <1>1 DEF Context, OwnId
    <2> QED BY <1>1, <1>5, <2>1, <2>2 DEF OwnId
  <1>7. Started(child)' /\ HandlerId(child)'
    BY <1>1, <1>5 DEF Started, HandlerId
  <1>10. ScopeId(child)'
    <2>1. ScopeId(c) /\ Holder(child)' = origin'[child]
      BY <1>1, <1>5 DEF Context, Holder
    <2>2. \/ origin'[child] = 0
          \/ origin'[child] = Holder(c) /\ correlation_ctx'[child] = correlation_ctx[c]
      BY <1>1 DEF TypeOK
    <2> QED BY <1>1, <2>1, <2>2 DEF ScopeId
  <1>8. Outermost(child)' /\ Resolved(child)'
    BY <1>1 DEF Context, Outermost, Resolved
  <1>9. \A d \in Contexts \ {child} : Apart(d)
    BY <1>1, <1>2 DEF Apart, TypeOK
  <1> QED BY <1>1, <1>4, <1>6, <1>7, <1>8, <1>9, <1>10, OwnStepIInv DEF Context

\* The end of a task or a thread.
LEMMA EndsIInv ==
  ASSUME IInv, NEW c \in Contexts, Ends(c)
  PROVE  IInv'
  <1>1. /\ TypeOK /\ Context(c)
        /\ c \in alive \ Workers /\ frames[c] = <<>>
        /\ correlation_ctx' = [correlation_ctx EXCEPT ![c] = Missing]
        /\ alive' = alive \ {c}
        /\ inherited' = [inherited EXCEPT ![c] = {}]
        /\ origin' = [origin EXCEPT ![c] = 0]
        /\ UNCHANGED <<entry, frames, requests, messages>>
    BY DEF IInv, Ends, EmptyContext
  <1>2. TypeOK'
    <2>1. 0 \in 0..Len(requests)
      BY <1>1 DEF TypeOK
    <2> QED BY <1>1, <2>1 DEF TypeOK
  <1>3. Context(c)'
    BY <1>1 DEF Context, Started, Outermost, Resolved
  <1>4. \A d \in Contexts \ {c} : Apart(d)
    BY <1>1 DEF Apart, TypeOK
  <1> QED BY <1>1, <1>2, <1>3, <1>4, OwnStepIInv

-----------------------------------------------------------------------------
(* The theorems                                                            *)

\* Before the first request nothing has an id.
LEMMA InitIInv == Init => IInv
  <1> SUFFICES ASSUME Init PROVE IInv
    OBVIOUS
  <1>1. \A c \in Contexts : /\ frames[c] = <<>> /\ inherited[c] = {} /\ origin[c] = 0
                           /\ ~HasId(c)
    BY DEF Init, HasId
  <1>2. Len(requests) = 0 /\ requests = <<>>
    BY EmptySeq DEF Init
  <1>3. Range(<<>>) = {}
    BY EmptySeq DEF Range
  <1>4. \A c \in Contexts : \A f \in Range(frames[c]) :
          f.n <= Len(requests) /\ f.holds <= Len(requests)
    BY <1>1, <1>3
  <1>5. /\ requests \in Seq(Request)
        /\ frames \in [Contexts -> Seq(Frame)]
        /\ inherited \in [Contexts -> SUBSET (1..Len(requests))]
        /\ origin \in [Contexts -> 0..Len(requests)]
    BY <1>2, EmptySeq DEF Init
  <1>6. TypeOK
    BY <1>4, <1>5, FlowAssumption DEF Init, TypeOK
  <1>7. \A c \in Contexts : Len(frames[c]) = 0
    BY <1>1, EmptySeq
  <1>8. \A c \in Contexts : Outermost(c) /\ Resolved(c)
    <2>1. 1..0 = {}
      OBVIOUS
    <2>2. \A c \in Contexts : 1..Len(frames[c]) = {}
      BY <1>7, <2>1, Zenon
    <2> QED BY <2>2 DEF Outermost, Resolved
  <1>9. \A c \in Contexts : Started(c)
    BY <1>1 DEF Started, Init
  <1>10. \A c \in Contexts : OwnId(c) /\ ScopeId(c) /\ HandlerId(c)
    BY <1>1 DEF OwnId, ScopeId, Holder, HandlerId
  <1>11. MessagesKeepId
    BY DEF Init, MessagesKeepId
  <1>12. RequestsKeepId
    <2>1. DOMAIN requests = {}
      BY <1>2
    <2> QED BY <2>1 DEF RequestsKeepId
  <1> QED BY <1>6, <1>8, <1>9, <1>10, <1>11, <1>12 DEF IInv, Context

\* Every step keeps the inductive invariant.
LEMMA StepIInv == IInv /\ [Next]_vars => IInv'
  <1> SUFFICES ASSUME IInv, [Next]_vars PROVE IInv'
    OBVIOUS
  <1>1. CASE \E c \in Contexts, a \in AllAdapters, x \in Arriving({"request", "respelt"}) :
               EnterRequest(c, a, x)
    BY <1>1, EnterRequestIInv
  <1>2. CASE \E c \in Contexts, x \in Arriving({"task"}) : EnterTask(c, x)
    BY <1>2, EnterTaskIInv
  <1>3. CASE \E c \in Contexts, x \in CloudArriving : EnterCloud(c, x)
    BY <1>3, EnterCloudIInv
  <1>4. CASE \E c \in Contexts : Leave(c)
    BY <1>4, LeaveIInv
  <1>5. CASE \E c \in Contexts : InterceptorReturns(c)
    BY <1>5, InterceptorReturnsIInv
  <1>6. CASE \E c \in Contexts : LeaveHandler(c)
    BY <1>6, LeaveHandlerIInv
  <1>7. CASE \E c \in Contexts : \/ \E own \in Own : SendRequest(c, own) \/ PublishTask(c, own)
                                \/ CreateEvent(c) \/ InjectResolver(c)
    BY <1>7, SentIInv DEF SendRequest, PublishTask, CreateEvent, InjectResolver, Outbound, Hops
  <1>11. CASE \E c \in Contexts, own \in Own : SendRespelt(c, own)
    BY <1>11, RespeltIInv
  <1>12. CASE \E c \in Contexts : Respond(c)
    BY <1>12, RespondIInv
  <1>8. CASE \E c, child \in Contexts : StartTask(c, child) \/ StartThread(c, child)
    BY <1>8, StartIInv
  <1>9. CASE \E c \in Contexts : Ends(c)
    BY <1>9, EndsIInv
  <1>10. CASE UNCHANGED vars
    <2>1. UNCHANGED <<correlation_ctx, entry, alive, frames, inherited, origin, requests, messages>>
      BY <1>10 DEF vars, flowVars
    <2>2. TypeOK'
      BY <2>1 DEF IInv, TypeOK
    <2>3. \A d \in Contexts : Apart(d)
      BY <2>1 DEF Apart
    <2>4. Grown /\ RequestsKeepId' /\ MessagesKeepId'
      BY <2>1, SameRequests DEF IInv
    <2>5. \A d \in Contexts : Context(d)'
      BY <2>1, <2>3, <2>4, ApartKeeps DEF IInv
    <2> QED BY <2>2, <2>4, <2>5 DEF IInv
  <1> QED BY <1>1, <1>2, <1>3, <1>4, <1>5, <1>6, <1>7, <1>8, <1>9, <1>10, <1>11, <1>12
       DEF Next, BoundsReached

\* The inductive invariant holds always.
THEOREM Invariance == Spec => []IInv
  BY InitIInv, StepIInv, PTL DEF Spec

\* Every id that is set is one the outbound adapters take for safe, whatever was
\* received: from_context never leaves out the id of a context.
THEOREM TypeCorrect == Spec => []TypeOK
  <1>1. IInv => TypeOK
    BY DEF IInv
  <1> QED BY <1>1, Invariance, PTL

\* No code reads the id of a request it does not work for: not in a worker between
\* requests, not in a reused context, not in a thread or task of another request.
THEOREM OwnWork == Spec => []IdOfOwnWork
  <1>1. IInv => IdOfOwnWork
    <2> SUFFICES ASSUME IInv, NEW c \in alive, HasId(c)
                 PROVE  \/ \E n \in Work(c) : requests[n].id = correlation_ctx[c]
                        \/ c \in Workers /\ Work(c) = {} /\ entry[c] = "cloud"
      BY DEF IdOfOwnWork
    <2>1. c \in Contexts
      BY DEF IInv, TypeOK
    <2> QED BY <2>1 DEF IInv, Context, OwnId
  <1> QED BY <1>1, Invariance, PTL

\* From set_correlation_id to clear_correlation_id the id is there, in the context and in
\* the tasks started from it, whatever other contexts do and however adapters are nested
\* there.
THEOREM ThroughoutScope == Spec => []IdThroughoutScope
  <1>1. IInv => IdThroughoutScope
    <2> SUFFICES ASSUME IInv, NEW c \in alive, Holder(c) # 0
                 PROVE  correlation_ctx[c] = requests[Holder(c)].id
      BY DEF IdThroughoutScope
    <2>1. c \in Contexts
      BY DEF IInv, TypeOK
    <2> QED BY <2>1 DEF IInv, Context, ScopeId
  <1> QED BY <1>1, Invariance, PTL

\* An id that is ASCII survives every hop between an outbound and an inbound adapter but
\* the request to which urllib3 adds it beside the application's header; any id survives
\* a Celery hop.
THEOREM HopsKept == Spec => []HopsKeepId
  <1>1. IInv => HopsKeepId
    BY DEF IInv, MessagesKeepId, RequestsKeepId, Carried, HopsKeepId
  <1> QED BY <1>1, Invariance, PTL
=============================================================================
