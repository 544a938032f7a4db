------------------------------- MODULE Session -------------------------------
(***************************************************************************)
(* One connection of the protocol: the threads that share a Client         *)
(* (src/src/client.cpp), the two byte streams, and the worker that serves  *)
(* the connection (serve_connection and dispatch of src/src/service.cpp).  *)
(*                                                                         *)
(* A stream is a sequence of units; a frame is HeaderUnits units of header *)
(* and the units of its payload, so a reader that leaves a payload behind  *)
(* finds it where it expects the next header.  A checksum tells a frame's  *)
(* own units from all others.  What a payload says is the kind of its      *)
(* envelope; which thread answers and what the registry does are modelled  *)
(* in Service and Registry.                                                *)
(***************************************************************************)
EXTENDS Integers, FiniteSets, Sequences

CONSTANTS
    Thread,                        \* the threads that share the client
    OpCode,                        \* the operations they call
    HeaderUnits,                   \* kFrameHeaderSize
    RequestSizes, BodySizes,       \* payloads of requests and of replies with a body
    ClientBounds,                  \* ClientOptions::max_frame_payload of some client
    server_max_frame_payload,
    max_requests_per_connection,   \* 0 is no bound
    MaxCalls,
    MaxFaults                      \* units damaged and connections lost

\* A header is not empty, and neither is an envelope.
ASSUME SessionAssumption ==
    /\ HeaderUnits \in Nat \ {0}
    /\ RequestSizes \subseteq Nat /\ BodySizes \subseteq Nat \ {0}
    /\ ClientBounds \subseteq Nat /\ server_max_frame_payload \in Nat
    /\ max_requests_per_connection \in Nat /\ MaxCalls \in Nat /\ MaxFaults \in Nat

VARIABLES
    client_max_frame_payload,
    next_request_id,
    thread,             \* [Thread -> [at, opcode, size, id, reply, since]]
    requests, replies,  \* the streams to and from the server
    up,                 \* the connection is not lost
    client_open,        \* the client has not been destroyed
    server,             \* [at, frame, served]
    applied,            \* the registry calls made: [id, opcode, kind]
    results,            \* what calls returned: [id, opcode, got, since, until]
    faults

streams == <<requests, replies>>
client == <<client_max_frame_payload, next_request_id>>
vars == <<client, thread, streams, up, client_open, server, applied, results, faults>>

-----------------------------------------------------------------------------
(* Envelopes *)

\* Operations whose refusal carries a reason that is not a failure: the device,
\* the source, the conflict, the decision or the stream is not known.
RefusesAsUnknown ==
    {"Retire", "Query", "Explain", "RevokeSource", "RestoreSource", "SetSourceAuthority",
     "CurrentIncarnation", "ResolveConflict"}
RefusesAsFailure ==
    {"Admit", "Retire", "Export", "UpsertSourcePolicy", "BeginDeviceIncarnation", "ResolveConflict"}
\* Operations that may be carried out and answered with a reason that is a
\* failure: evidence kept as rejected, a retirement for the caller's own reason.
AnswersAsFailure == {"Admit", "Retire"}
\* Operations whose request is more than a tick.
MayNotDecode ==
    RefusesAsUnknown \cup RefusesAsFailure \cup {"Evaluate"}

\* What dispatch may put in the envelope.
Envelopes(opcode) ==
    {"answer"}
    \cup {kind \in {"unknown"} : opcode \in RefusesAsUnknown}
    \cup {kind \in {"refused"} : opcode \in RefusesAsFailure}
    \cup {kind \in {"recorded"} : opcode \in AnswersAsFailure}
    \cup {kind \in {"malformed"} : opcode \in MayNotDecode}

is_failure(kind) == kind \notin {"answer", "unknown"}
has_body(kind) == kind \in {"answer", "recorded"}
EmptySize == 1

-----------------------------------------------------------------------------
(* Frames *)

Frame(opcode, id, size, response, kind) ==
    [opcode |-> opcode, id |-> id, size |-> size, response |-> response, kind |-> kind]
Reply(f, size, kind) == Frame(f.opcode, f.id, size, TRUE, kind)
NoFrame == Frame("Ping", 0, 0, FALSE, "none")

Noise == [part |-> 0, of |-> NoFrame]
Header(f) == [i \in 1 .. HeaderUnits |-> [part |-> i, of |-> f]]
Payload(f) == [i \in 1 .. f.size |-> [part |-> HeaderUnits + i, of |-> f]]
serialize_frame(f) == Header(f) \o Payload(f)

Front(s, n) == SubSeq(s, 1, n)
Beyond(s, n) == SubSeq(s, n + 1, Len(s))

\* The frame whose header the units are, if they are one: magic, checksum,
\* version, reserved field, operation and length.
decode_frame_header(units) ==
    {f \in {units[1].of} : units = Header(f)}

-----------------------------------------------------------------------------
(* Client::call *)

idle == [at |-> "idle", opcode |-> "Ping", size |-> 0, id |-> 0, reply |-> NoFrame, since |-> 0]

\* Mutant: threads that share a client do not wait for each other.
NoMutex(t) == TRUE

\* The client's mutex, held from the send to the end of the reply.
mutex_free(t) == \A u \in Thread : thread[u].at \in {"idle", "locking"}

returns(t, got) ==
    /\ thread' = [thread EXCEPT ![t] = idle]
    /\ results' = results \cup
         {[id |-> thread[t].id, opcode |-> thread[t].opcode, got |-> got,
           since |-> thread[t].since, until |-> Len(applied)]}

ServerGone == ~up \/ server.at = "closed"
ClientGone == ~up \/ ~client_open

\* A request larger than the client's bound returns before it has an id.
Call(t) ==
    /\ client_open /\ thread[t].at = "idle"
    /\ next_request_id + Cardinality({u \in Thread : thread[u].at = "locking"}) <= MaxCalls
    /\ \E opcode \in OpCode, size \in RequestSizes :
         IF size > client_max_frame_payload THEN UNCHANGED thread
         ELSE thread' = [thread EXCEPT ![t] = [idle EXCEPT !.at = "locking", !.opcode = opcode,
                                                           !.size = size]]
    /\ UNCHANGED <<client, streams, up, client_open, server, applied, results, faults>>

\* The request gets the next id and is sent.  On a connection the server has
\* left, send_all fails or writes into the void.
Send(t) ==
    LET id == next_request_id
        request == Frame(thread[t].opcode, id, thread[t].size, FALSE, "request")
        sent == [thread EXCEPT ![t].at = "header", ![t].id = id, ![t].since = Len(applied)]
    IN  /\ thread[t].at = "locking" /\ mutex_free(t)
        /\ next_request_id' = id + 1
        /\ \/ /\ thread' = sent
              /\ requests' = IF ServerGone THEN requests ELSE requests \o serialize_frame(request)
              /\ UNCHANGED results
           \/ /\ ServerGone
              /\ thread' = [thread EXCEPT ![t] = idle]
              /\ results' = results \cup {[id |-> id, opcode |-> request.opcode, got |-> "closed",
                                           since |-> Len(applied), until |-> Len(applied)]}
              /\ UNCHANGED requests
        /\ UNCHANGED <<client_max_frame_payload, replies, up, client_open, server, applied, faults>>

\* Mutant: any response will do.
AnyResponse(t, f) == TRUE

carries_request_id(t, f) == f.id = thread[t].id

\* The checks of read_frame on a header that decoded, in its order.
HeaderVerdict(t, f) ==
    CASE ~f.response -> "sequence"
      [] ~carries_request_id(t, f) -> "sequence"
      [] f.opcode # thread[t].opcode -> "sequence"
      [] f.size > client_max_frame_payload -> "too_large"
      [] OTHER -> "good"

\* read_frame up to the payload.  Whatever is wrong with a header, its payload
\* stays in the stream and the socket stays open.
ReadHeader(t) ==
    /\ thread[t].at = "header"
    /\ \/ /\ Len(replies) >= HeaderUnits
          /\ replies' = Beyond(replies, HeaderUnits)
          /\ LET header == decode_frame_header(Front(replies, HeaderUnits))
             IN  \/ header = {} /\ returns(t, "header_rejected")
                 \/ \E f \in header :
                      IF HeaderVerdict(t, f) = "good"
                      THEN /\ thread' = [thread EXCEPT ![t].at = "body", ![t].reply = f]
                           /\ UNCHANGED results
                      ELSE returns(t, HeaderVerdict(t, f))
       \/ /\ Len(replies) < HeaderUnits /\ ServerGone
          /\ replies' = <<>>
          /\ returns(t, "closed")
    /\ UNCHANGED <<client, requests, up, client_open, server, applied, faults>>

\* Mutant: a body that is not there is read as a value of zeros.
AnyBody(kind) == TRUE

\* decode_body: no response type has an empty encoding.
body_decodes(kind) == has_body(kind)

\* The payload, its digest, the envelope and the body.
ReadBody(t) ==
    LET f == thread[t].reply
    IN  /\ thread[t].at = "body"
        /\ \/ /\ Len(replies) >= f.size
              /\ replies' = Beyond(replies, f.size)
              /\ returns(t, CASE Front(replies, f.size) # Payload(f) -> "checksum"
                              [] is_failure(f.kind) -> f.kind
                              [] ~body_decodes(f.kind) -> "body_rejected"
                              [] OTHER -> "answer")
           \/ /\ Len(replies) < f.size /\ ServerGone
              /\ replies' = <<>>
              /\ returns(t, "closed")
        /\ UNCHANGED <<client, requests, up, client_open, server, applied, faults>>

\* ~Client, once no call is in progress.
Disconnect ==
    /\ client_open /\ \A t \in Thread : thread[t].at = "idle"
    /\ client_open' = FALSE
    /\ UNCHANGED <<client, thread, streams, up, server, applied, results, faults>>

-----------------------------------------------------------------------------
(* serve_connection *)

\* send_all on a connection the client has left fails: nothing is added.
send_all(f) == IF ClientGone THEN replies ELSE replies \o serialize_frame(f)


\* close_once.  A close with requests unread resets the connection, and the client
\* may lose what was sent to it.
closes(sent) ==
    /\ server' = [server EXCEPT !.at = "closed"]
    /\ \E n \in (IF requests' = <<>> THEN {Len(sent)} ELSE 0 .. Len(sent)) : replies' = SubSeq(sent, 1, n)

\* A header that does not decode is answered under no id, then the connection
\* ends; one whose payload is past the bound ends it without an answer.
ServeHeader ==
    /\ server.at = "header"
    /\ \/ /\ Len(requests) >= HeaderUnits
          /\ requests' = Beyond(requests, HeaderUnits)
          /\ LET header == decode_frame_header(Front(requests, HeaderUnits))
             IN  \/ /\ header = {}
                    /\ closes(send_all(Reply(NoFrame, EmptySize, "header_rejected")))
                 \/ \E f \in header :
                      IF f.size > server_max_frame_payload THEN closes(replies)
                      ELSE /\ server' = [server EXCEPT !.at = "body", !.frame = f]
                           /\ UNCHANGED replies
       \/ /\ Len(requests) < HeaderUnits /\ ClientGone
          /\ requests' = <<>> /\ closes(replies)
    /\ UNCHANGED <<client, thread, up, client_open, applied, results, faults>>

ServeBody ==
    LET f == server.frame
    IN  /\ server.at = "body"
        /\ \/ /\ Len(requests) >= f.size
              /\ requests' = Beyond(requests, f.size)
              /\ IF Front(requests, f.size) = Payload(f)
                 THEN server' = [server EXCEPT !.at = "dispatching"] /\ UNCHANGED replies
                 ELSE closes(send_all(Reply(f, EmptySize, "checksum")))
           \/ /\ Len(requests) < f.size /\ ClientGone
              /\ requests' = <<>> /\ closes(replies)
        /\ UNCHANGED <<client, thread, up, client_open, applied, results, faults>>

\* A reply past the server's bound is replaced after the registry did its work.
dispatch ==
    LET f == server.frame
    IN  /\ server.at = "dispatching"
        /\ \E kind \in Envelopes(f.opcode) :
             /\ applied' = IF kind = "malformed" THEN applied
                           ELSE Append(applied, [id |-> f.id, opcode |-> f.opcode, kind |-> kind])
             /\ \E size \in IF has_body(kind) THEN BodySizes ELSE {EmptySize} :
                  server' = [server EXCEPT !.at = "replying",
                               !.frame = IF size > server_max_frame_payload
                                         THEN Reply(f, EmptySize, "reply_too_large")
                                         ELSE Reply(f, size, kind)]
        /\ UNCHANGED <<client, thread, streams, up, client_open, results, faults>>

SendReply ==
    /\ server.at = "replying"
    /\ UNCHANGED requests
    /\ IF \/ ClientGone
          \/ /\ max_requests_per_connection # 0
             /\ server.served + 1 >= max_requests_per_connection
       THEN closes(send_all(server.frame))
       ELSE /\ replies' = send_all(server.frame)
            /\ server' = [at |-> "header", frame |-> NoFrame, served |-> server.served + 1]
    /\ UNCHANGED <<client, thread, up, client_open, applied, results, faults>>

-----------------------------------------------------------------------------
(* The network (external) *)

\* The connection is lost, or stop() closes it under the worker: each side still
\* reads some of what was on its way.
Lose ==
    /\ faults < MaxFaults /\ up /\ server.at # "closed"
    /\ faults' = faults + 1 /\ up' = FALSE
    /\ \E n \in 0 .. Len(requests) : requests' = SubSeq(requests, 1, n)
    /\ \E n \in 0 .. Len(replies) : replies' = SubSeq(replies, 1, n)
    /\ UNCHANGED <<client, thread, client_open, server, applied, results>>

Damage ==
    /\ faults < MaxFaults
    /\ faults' = faults + 1
    /\ \/ \E i \in DOMAIN requests : requests' = [requests EXCEPT ![i] = Noise] /\ UNCHANGED replies
       \/ \E i \in DOMAIN replies : replies' = [replies EXCEPT ![i] = Noise] /\ UNCHANGED requests
    /\ UNCHANGED <<client, thread, up, client_open, server, applied, results>>

-----------------------------------------------------------------------------

Init ==
    /\ client_max_frame_payload \in ClientBounds
    /\ next_request_id = 1
    /\ thread = [t \in Thread |-> idle]
    /\ requests = <<>> /\ replies = <<>>
    /\ up = TRUE /\ client_open = TRUE
    /\ server = [at |-> "header", frame |-> NoFrame, served |-> 0]
    /\ applied = <<>> /\ results = {} /\ faults = 0

Exchange(t) == Send(t) \/ ReadHeader(t) \/ ReadBody(t)
Serve == ServeHeader \/ ServeBody \/ dispatch \/ SendReply

Next ==
    \/ \E t \in Thread : Call(t) \/ Exchange(t)
    \/ Serve
    \/ Disconnect \/ Lose \/ Damage

Spec == Init /\ [][Next]_vars
FairSpec == Spec /\ WF_vars(Serve) /\ \A t \in Thread : WF_vars(Exchange(t))

-----------------------------------------------------------------------------
(* Properties *)

Verdicts == {"answer", "body_rejected", "refused", "recorded", "malformed", "reply_too_large"}

\* protocol.hpp: "a truncated, oversized, corrupted or replayed frame is rejected
\* with a stable reason code".  A call reports an
\* answer only when the registry was asked this very request, once, after the call
\* began and before it returned, and answered it: not when it refused, and not with
\* the answer to another call, whatever was lost, damaged or left unread before.
AnswersAreOwn ==
    \A r \in results : r.got = "answer" =>
        \E i \in DOMAIN applied :
            /\ \A j \in DOMAIN applied : applied[j].id = r.id <=> j = i
            /\ i > r.since /\ i <= r.until
            /\ applied[i].opcode = r.opcode /\ applied[i].kind = "answer"

\* A client that lost its place in the stream never finds another reply: it keeps
\* failing while the server keeps carrying out its requests, and no later call
\* returns what belongs to an earlier one.
LostStaysLost ==
    \A r, q \in results :
        /\ r.got \in {"header_rejected", "sequence", "too_large"}
        /\ q.id > r.id
        => q.got \notin Verdicts

\* client.cpp: "the mutex makes a shared client safe without interleaving frames on
\* the stream".  While the connection lives and nothing was damaged, every call
\* gets the registry's verdict, unless an earlier reply was too large for the
\* client.
SharedClientIsSafe ==
    \A r \in results :
        r.got \notin Verdicts \cup {"too_large"} =>
            \/ faults > 0 \/ server.at = "closed"
            \/ \E q \in results : q.got = "too_large" /\ q.id < r.id


=============================================================================
