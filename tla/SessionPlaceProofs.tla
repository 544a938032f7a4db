------------------------- MODULE SessionPlaceProofs -------------------------
(***************************************************************************)
(* One connection of the protocol: a client that lost its place in the     *)
(* stream stays lost, and threads that share a sound client stay in step.  *)
(***************************************************************************)
EXTENDS SessionProofs

-----------------------------------------------------------------------------
(* The inductive invariants *)

\* One call at a time is on the stream, and it is the last one.
OneInFlight ==
    /\ \A t, u \in Thread : InFlight(t) /\ InFlight(u) => t = u
    /\ \A t \in Thread : InFlight(t) =>
          /\ next_request_id = thread[t].id + 1
          /\ \A r \in results : r.id < thread[t].id

\* A reply to the call that reads is there in full or on its way, unless the
\* connection has ended.
ReplyDue ==
    (\E t \in Thread : thread[t].at = "header") =>
        ServerGone \/ Len(replies) > HeaderUnits \/ Busy \/ requests # <<>>

Lost == \E r \in results : r.got \in {"header_rejected", "sequence", "too_large"}

\* What comes next from the server is not the reply to request n.
Behind(n) ==
    IF replies # <<>> THEN replies[1].of.id < n
    ELSE \/ ServerGone
         \/ Busy /\ server.frame.id < n
         \/ server.at = "header" /\ requests # <<>> /\ requests[1].of.id < n

\* Request n is the one whose reply the client waits for, or will wait for next.
Awaited(n) ==
    \/ \E t \in Thread : thread[t].at = "header" /\ thread[t].id = n
    \/ (\A t \in Thread : ~InFlight(t)) /\ next_request_id = n

StaysBehind ==
    Lost => /\ \A t \in Thread : thread[t].at # "body"
            /\ \A n \in Nat : Awaited(n) => Behind(n)

LostInv == OneInFlight /\ ReplyDue /\ StaysBehind /\ LostStaysLost

\* Nothing has gone wrong on this connection.
Sound == faults = 0 /\ server.at # "closed" /\ \A r \in results : r.got # "too_large"

RequestOf(t) == Frame(thread[t].opcode, thread[t].id, thread[t].size, FALSE, "request")

IsReplyTo(t, f) ==
    /\ f \in Frames /\ f.response /\ f.id = thread[t].id /\ f.opcode = thread[t].opcode
    /\ f.kind \in Envelopes(f.opcode) \cup {"reply_too_large"}

\* Where the request and the reply of a waiting call are: in the stream, with the
\* server, or in the stream back.
Underway(t) ==
    \/ server.at = "header" /\ requests = serialize_frame(RequestOf(t)) /\ replies = <<>>
    \/ /\ server.at = "body" /\ server.frame = RequestOf(t)
       /\ requests = Payload(RequestOf(t)) /\ replies = <<>>
    \/ /\ server.at = "dispatching" /\ server.frame = RequestOf(t)
       /\ requests = <<>> /\ replies = <<>>
    \/ /\ server.at = "replying" /\ IsReplyTo(t, server.frame)
       /\ requests = <<>> /\ replies = <<>>
    \/ /\ server.at = "header" /\ requests = <<>>
       /\ replies # <<>> /\ IsReplyTo(t, replies[1].of)
       /\ replies = serialize_frame(replies[1].of)

\* Only the payload of a reply is left to read.
Arriving(t) ==
    /\ server.at = "header" /\ requests = <<>> /\ IsReplyTo(t, thread[t].reply)
    /\ replies = Payload(thread[t].reply)

InStep ==
    Sound => /\ up
             /\ (\A t \in Thread : ~InFlight(t)) =>
                   requests = <<>> /\ replies = <<>> /\ server.at = "header"
             /\ \A t \in Thread : thread[t].at = "header" => Underway(t)
             /\ \A t \in Thread : thread[t].at = "body" => Arriving(t)

SafeInv == InStep /\ SharedClientIsSafe

-----------------------------------------------------------------------------
(* Lost stays lost *)

LostGot == {"header_rejected", "sequence", "too_large"}

LEMMA AwaitedFacts ==
    ASSUME OwnInv, NEW n, Awaited(n)
    PROVE  n \in Nat \ {0}
<1>1. TypeOK /\ next_request_id \in Nat /\ next_request_id > 0
    BY Zenon DEF OwnInv, TypeOK, IdsGiven
<1>2. ASSUME NEW t \in Thread, thread[t].at = "header" PROVE thread[t].id \in Nat /\ thread[t].id > 0
    BY <1>1, <1>2, Zenon DEF OwnInv, TypeOK, Calls, IdsGiven, InFlight
<1> QED
    BY <1>1, <1>2 DEF Awaited

\* Steps of the server and the network.
LEMMA QuietLost ==
    ASSUME OwnInv, LostInv, UNCHANGED <<client, thread, results>>, ReplyDue',
           \A n \in Nat \ {0} : Behind(n) => Behind(n)'
    PROVE  LostInv'
<1>1. next_request_id' = next_request_id
    BY Zenon DEF client
<1>2. OneInFlight' /\ LostStaysLost'
    BY <1>1, Zenon DEF LostInv, OneInFlight, InFlight, LostStaysLost
<1>3. Lost' <=> Lost
    BY Zenon DEF Lost
<1>4. ASSUME NEW n \in Nat, Awaited(n)' PROVE Awaited(n)
    BY <1>1, <1>4, Zenon DEF Awaited, InFlight
<1>5. ASSUME Lost, NEW n \in Nat, Awaited(n)' PROVE Behind(n)'
  <2>1. Awaited(n) /\ Behind(n)
    BY <1>4, <1>5, Zenon DEF LostInv, StaysBehind
  <2>2. n \in Nat \ {0}
    BY <2>1, AwaitedFacts, Zenon
  <2> QED
    BY <2>1, <2>2, Zenon
<1>6. StaysBehind'
    BY <1>3, <1>5, Zenon DEF LostInv, StaysBehind
<1> QED
    BY <1>2, <1>6, Zenon DEF LostInv

\* The first unit of a damaged piece.
LEMMA FirstOfPart ==
    ASSUME NEW w \in Seq(Units), NEW s, Part(s, 0, w), s # <<>>
    PROVE  w # <<>> /\ (s[1] = Noise \/ s[1] = w[1])
<1>1. s \in Seq(Units)
    BY Zenon DEF Part
<1>2. 1 \in DOMAIN s
    BY <1>1, NonEmpty, SeqFacts
<1>3. s[1] = Noise \/ (0 + 1 \in DOMAIN w /\ s[1] = w[0 + 1])
    BY <1>2, PartUnits
<1>4. w # <<>>
  <2>1. Len(s) > 0 /\ Len(s) + 0 <= Len(w) /\ Len(s) \in Nat /\ Len(w) \in Nat
    BY <1>1, <1>2, SeqFacts DEF Part
  <2> QED
    BY <2>1
<1> QED
    BY <1>3, <1>4

\* What comes first after the server sent f.
LEMMA FirstSent ==
    ASSUME TypeOK, NEW f \in Frames, send_all(f) # <<>>
    PROVE  /\ replies # <<>> => send_all(f)[1] = replies[1]
           /\ replies = <<>> => ~ClientGone /\ send_all(f)[1].of = f
<1>1. CASE ClientGone
    BY <1>1, Zenon DEF send_all
<1>2. CASE ~ClientGone
  <2>1. PICK w : w = replies \o serialize_frame(f)
    BY Zenon
  <2>2. send_all(f) = w
    BY <1>2, <2>1, Zenon DEF send_all
  <2>3. /\ \A i \in 1 .. Len(replies) : w[i] = replies[i]
        /\ \A i \in 1 .. HeaderUnits + f.size : w[Len(replies) + i] = [part |-> i, of |-> f]
    BY <2>1, SentFacts, Zenon DEF TypeOK
  <2>4. Len(replies) \in Nat /\ 1 \in 1 .. HeaderUnits + f.size
    BY SeqFacts, SessionAssumption DEF TypeOK, Frames
  <2>5. CASE replies # <<>>
    <3>1. 1 \in 1 .. Len(replies)
      BY <2>4, <2>5 DEF TypeOK
    <3> QED
      BY <2>2, <2>3, <2>5, <3>1, Zenon
  <2>6. CASE replies = <<>>
    <3>1. Len(replies) + 1 = 1
      BY <2>6
    <3>2. w[1] = [part |-> 1, of |-> f]
      BY <2>3, <2>4, <3>1, Zenon
    <3> QED
      BY <1>2, <2>2, <2>6, <3>2
  <2> QED
    BY <2>5, <2>6, Zenon
<1> QED
    BY <1>1, <1>2, Zenon

\* The client stays behind when the connection ends.
LEMMA BehindClosed ==
    ASSUME OwnInv, TypeOK', NEW n \in Nat \ {0}, Behind(n), ServerGone', NEW f \in Frames,
           replies = <<>> /\ ~ClientGone => f.id < n,
           Part(replies', 0, replies) \/ Part(replies', 0, send_all(f))
    PROVE  Behind(n)'
<1>1. CASE replies' = <<>>
    BY <1>1, Zenon DEF Behind
<1>2. CASE replies' # <<>>
  <2>1. TypeOK /\ replies \in Seq(Units) /\ send_all(f) \in Seq(Units)
    BY SendAllFacts, Zenon DEF OwnInv, TypeOK
  <2>2. Noise.of.id < n
    BY DEF Noise, NoFrame, Frame
  <2>3. replies # <<>> => replies[1].of.id < n
    BY Zenon DEF Behind
  <2>4. replies'[1].of.id < n
    <3>1. CASE Part(replies', 0, replies)
      <4>1. replies # <<>> /\ (replies'[1] = Noise \/ replies'[1] = replies[1])
        BY <1>2, <2>1, <3>1, FirstOfPart, Zenon
      <4> QED
        BY <2>2, <2>3, <4>1, Zenon
    <3>2. CASE Part(replies', 0, send_all(f))
      <4>1. send_all(f) # <<>> /\ (replies'[1] = Noise \/ replies'[1] = send_all(f)[1])
        BY <1>2, <2>1, <3>2, FirstOfPart, Zenon
      <4>2. /\ replies # <<>> => send_all(f)[1] = replies[1]
            /\ replies = <<>> => ~ClientGone /\ send_all(f)[1].of = f
        BY <2>1, <4>1, FirstSent, Zenon
      <4> QED
        BY <2>2, <2>3, <4>1, <4>2, Zenon
    <3> QED
      BY <3>1, <3>2, Zenon
  <2> QED
    BY <1>2, <2>4, Zenon DEF Behind
<1> QED
    BY <1>1, <1>2, Zenon

LEMMA ServeHeaderLost ==
    ASSUME OwnInv, LostInv, ServeHeader
    PROVE  LostInv'
<1>1. TypeOK /\ requests \in Seq(Units) /\ server.at = "header" /\ server \in Serving
    BY Zenon DEF OwnInv, TypeOK, ServeHeader
<1>2. /\ TypeOK' /\ UNCHANGED <<client, thread, up, client_open, applied, results, faults>>
    BY <1>1, ServeHeaderFacts, Zenon
<1>3. CASE /\ server'.at = "closed"
           /\ \/ Part(replies', 0, replies)
              \/ Part(replies', 0, send_all(Reply(NoFrame, EmptySize, "header_rejected")))
  <2>1. PICK z : z = Reply(NoFrame, EmptySize, "header_rejected")
    BY Zenon
  <2>2. z \in Frames /\ z.id = 0
    <3>1. z \in Frames /\ z.id = NoFrame.id
      BY <2>1, NoFrameType, RefusalType, Zenon
    <3> QED
      BY <3>1, Zenon DEF NoFrame, Frame
  <2>3. ServerGone' /\ ReplyDue'
    BY <1>3, Zenon DEF ServerGone, ReplyDue
  <2>4. ASSUME NEW n \in Nat \ {0}, Behind(n) PROVE Behind(n)'
    BY <1>2, <1>3, <2>1, <2>2, <2>3, <2>4, BehindClosed
  <2> QED
    BY <1>2, <2>3, <2>4, QuietLost, Zenon
<1>4. CASE /\ Len(requests) >= HeaderUnits
           /\ \E f \in decode_frame_header(Front(requests, HeaderUnits)) :
                 server'.at = "body" /\ server'.frame = f
           /\ UNCHANGED replies
  <2>1. server'.at = "body" /\ server'.frame = requests[1].of
    BY <1>1, <1>4, DecodeFacts, Zenon
  <2>2. ReplyDue'
    BY <2>1, Zenon DEF ReplyDue, Busy
  <2>3. ASSUME NEW n \in Nat \ {0}, Behind(n) PROVE Behind(n)'
    BY <1>1, <1>2, <1>4, <2>1, <2>3, Zenon DEF Behind, Busy, ServerGone
  <2> QED
    BY <1>2, <2>2, <2>3, QuietLost, Zenon
<1> QED
    BY <1>1, <1>3, <1>4, ServeHeaderFacts, Zenon

LEMMA ServeBodyLost ==
    ASSUME OwnInv, LostInv, ServeBody
    PROVE  LostInv'
<1>1. TypeOK /\ server.frame \in Frames
    BY Zenon DEF OwnInv, TypeOK, Serving
<1>2. /\ TypeOK' /\ server.at = "body" /\ server'.frame = server.frame
      /\ UNCHANGED <<client, thread, up, client_open, applied, results, faults>>
    BY <1>1, ServeBodyFacts, Zenon
<1>3. CASE /\ server'.at = "closed"
           /\ \/ Part(replies', 0, replies)
              \/ Part(replies', 0, send_all(Reply(server.frame, EmptySize, "checksum")))
  <2>1. PICK z : z = Reply(server.frame, EmptySize, "checksum")
    BY Zenon
  <2>2. z \in Frames /\ z.id = server.frame.id
    BY <1>1, <2>1, RefusalType, Zenon
  <2>3. ServerGone' /\ ReplyDue'
    BY <1>3, Zenon DEF ServerGone, ReplyDue
  <2>4. ASSUME NEW n \in Nat \ {0}, Behind(n) PROVE Behind(n)'
    <3>1. replies = <<>> /\ ~ClientGone => z.id < n
      BY <1>2, <2>2, <2>4, Zenon DEF Behind, ServerGone, ClientGone
    <3> QED
      BY <1>2, <1>3, <2>1, <2>2, <2>3, <2>4, <3>1, BehindClosed, Zenon
  <2> QED
    BY <1>2, <2>3, <2>4, QuietLost, Zenon
<1>4. CASE server'.at = "dispatching" /\ UNCHANGED replies
  <2>1. ReplyDue'
    BY <1>4, Zenon DEF ReplyDue, Busy
  <2>2. ASSUME NEW n \in Nat \ {0}, Behind(n) PROVE Behind(n)'
    BY <1>2, <1>4, <2>2, Zenon DEF Behind, Busy, ServerGone
  <2> QED
    BY <1>2, <2>1, <2>2, QuietLost, Zenon
<1> QED
    BY <1>1, <1>3, <1>4, ServeBodyFacts, Zenon

LEMMA DispatchLost ==
    ASSUME OwnInv, LostInv, dispatch
    PROVE  LostInv'
<1>1. TypeOK
    BY Zenon DEF OwnInv
<1>2. /\ server.at = "dispatching" /\ server'.at = "replying"
      /\ UNCHANGED <<client, thread, streams, up, client_open, results, faults>>
      /\ server'.frame.id = server.frame.id
    BY <1>1, DispatchFacts, Zenon
<1>3. ReplyDue'
    BY <1>2, Zenon DEF ReplyDue, Busy
<1>4. ASSUME NEW n \in Nat \ {0}, Behind(n) PROVE Behind(n)'
    BY <1>2, <1>4, Zenon DEF Behind, Busy, ServerGone, streams
<1> QED
    BY <1>2, <1>3, <1>4, QuietLost, Zenon

LEMMA SendReplyLost ==
    ASSUME OwnInv, LostInv, SendReply
    PROVE  LostInv'
<1>1. TypeOK /\ server.frame \in Frames
    BY Zenon DEF OwnInv, TypeOK, Serving
<1>2. /\ TypeOK' /\ server.at = "replying"
      /\ UNCHANGED <<client, thread, requests, up, client_open, applied, results, faults>>
    BY <1>1, SendReplyFacts, Zenon
<1>3. ASSUME NEW n \in Nat \ {0}, Behind(n) PROVE replies = <<>> /\ ~ClientGone => server.frame.id < n
    BY <1>2, <1>3, Zenon DEF Behind, ServerGone, ClientGone
<1>4. CASE /\ server'.at = "closed" /\ Part(replies', 0, send_all(server.frame))
  <2>1. ServerGone' /\ ReplyDue'
    BY <1>4, Zenon DEF ServerGone, ReplyDue
  <2>2. ASSUME NEW n \in Nat \ {0}, Behind(n) PROVE Behind(n)'
    BY <1>1, <1>2, <1>3, <1>4, <2>1, <2>2, BehindClosed, Zenon
  <2> QED
    BY <1>2, <2>1, <2>2, QuietLost, Zenon
<1>5. CASE ~ClientGone /\ replies' = replies \o serialize_frame(server.frame)
  <2>1. /\ server.frame.size \in Nat /\ server.frame.size > 0 /\ HeaderUnits \in Nat
        /\ Len(replies) \in Nat
    BY <1>1, <1>2, SessionAssumption, SeqFacts, Zenon DEF OwnInv, AnswersBacked, TypeOK, Frames
  <2>2. Len(replies') = Len(replies) + HeaderUnits + server.frame.size
    BY <1>1, <1>5, SentFacts, Zenon DEF TypeOK
  <2>3. Len(replies') > HeaderUnits
    BY <2>1, <2>2
  <2>4. ReplyDue' /\ replies' # <<>>
    BY <2>1, <2>3 DEF ReplyDue
  <2>5. replies' = send_all(server.frame)
    BY <1>5, Zenon DEF send_all
  <2>6. ASSUME NEW n \in Nat \ {0}, Behind(n) PROVE Behind(n)'
    <3>1. /\ replies # <<>> => replies'[1] = replies[1]
          /\ replies = <<>> => replies'[1].of = server.frame
      BY <1>1, <2>4, <2>5, FirstSent, Zenon
    <3>2. replies'[1].of.id < n
      BY <1>3, <1>5, <2>6, <3>1, Zenon DEF Behind
    <3> QED
      BY <2>4, <3>2, Zenon DEF Behind
  <2> QED
    BY <1>2, <2>4, <2>6, QuietLost, Zenon
<1> QED
    BY <1>1, <1>4, <1>5, SendReplyFacts, Zenon

LEMMA NetworkLost ==
    ASSUME OwnInv, LostInv, Disconnect \/ Lose \/ Damage
    PROVE  LostInv'
<1>1. TypeOK /\ requests \in Seq(Units) /\ replies \in Seq(Units)
    BY Zenon DEF OwnInv, TypeOK
<1>2. /\ TypeOK' /\ UNCHANGED <<client, thread, server, applied, results>>
      /\ Part(requests', 0, requests) /\ Part(replies', 0, replies)
    BY <1>1, NetworkFacts, Zenon
<1>3. CASE UNCHANGED <<streams, up>>
  <2>1. ReplyDue'
    BY <1>2, <1>3, Zenon DEF LostInv, ReplyDue, Busy, ServerGone, streams
  <2>2. ASSUME NEW n \in Nat \ {0}, Behind(n) PROVE Behind(n)'
    BY <1>2, <1>3, <2>2, Zenon DEF Behind, Busy, ServerGone, streams
  <2> QED
    BY <1>2, <2>1, <2>2, QuietLost, Zenon
<1>4. CASE ~up'
  <2>1. ServerGone' /\ ReplyDue'
    BY <1>4, Zenon DEF ServerGone, ReplyDue
  <2>2. ASSUME NEW n \in Nat \ {0}, Behind(n) PROVE Behind(n)'
    <3>1. NoFrame \in Frames /\ NoFrame.id < n
      BY NoFrameType DEF NoFrame, Frame
    <3> QED
      BY <1>2, <2>1, <2>2, <3>1, BehindClosed, Zenon
  <2> QED
    BY <1>2, <2>1, <2>2, QuietLost, Zenon
<1>5. CASE up' = up /\ Len(requests') = Len(requests) /\ Len(replies') = Len(replies)
  <2>1. requests' \in Seq(Units) /\ replies' \in Seq(Units)
    BY <1>2, Zenon DEF TypeOK
  <2>2. (requests' # <<>> <=> requests # <<>>) /\ (replies' # <<>> <=> replies # <<>>)
    BY <1>1, <1>5, <2>1
  <2>3. ReplyDue'
    BY <1>2, <1>5, <2>2, Zenon DEF LostInv, ReplyDue, Busy, ServerGone
  <2>4. ASSUME NEW n \in Nat \ {0}, Behind(n) PROVE Behind(n)'
    <3>1. Noise.of.id < n
      BY DEF Noise, NoFrame, Frame
    <3>2. replies' # <<>> => replies'[1] = Noise \/ replies'[1] = replies[1]
      BY <1>1, <1>2, FirstOfPart, Zenon
    <3>3. requests' # <<>> => requests'[1] = Noise \/ requests'[1] = requests[1]
      BY <1>1, <1>2, FirstOfPart, Zenon
    <3>4. CASE replies # <<>>
      BY <2>2, <2>4, <3>1, <3>2, <3>4, Zenon DEF Behind
    <3>5. CASE replies = <<>>
      BY <1>2, <1>5, <2>2, <2>4, <3>1, <3>3, <3>5, Zenon DEF Behind, Busy, ServerGone
    <3> QED
      BY <3>4, <3>5, Zenon
  <2> QED
    BY <1>2, <2>3, <2>4, QuietLost, Zenon
<1> QED
    BY <1>1, <1>3, <1>4, <1>5, NetworkFacts, Zenon

LEMMA CallLost ==
    ASSUME OwnInv, LostInv, NEW t \in Thread, Call(t)
    PROVE  LostInv'
<1>1. TypeOK
    BY Zenon DEF OwnInv
<1>2. /\ thread[t].at = "idle" /\ thread'[t].at \in {"idle", "locking"}
      /\ \A u \in Thread \ {t} : thread'[u] = thread[u]
      /\ UNCHANGED <<client, streams, up, client_open, server, applied, results, faults>>
    BY <1>1, CallFacts, Zenon
<1>3. /\ next_request_id' = next_request_id /\ requests' = requests /\ replies' = replies
      /\ results' = results /\ server' = server /\ up' = up
    BY <1>2, Zenon DEF client, streams
<1>4. \A u \in Thread : /\ InFlight(u)' <=> InFlight(u)
                        /\ InFlight(u) => thread'[u] = thread[u]
    BY <1>2, Zenon DEF InFlight
<1>5. \A u \in Thread : /\ thread'[u].at = "header" => InFlight(u)
                        /\ thread'[u].at = "body" => InFlight(u)
    BY <1>2, Zenon DEF InFlight
<1>6. OneInFlight' /\ LostStaysLost'
    BY <1>3, <1>4, Zenon DEF LostInv, OneInFlight, LostStaysLost
<1>7. ReplyDue'
    BY <1>3, <1>4, <1>5, Zenon DEF LostInv, ReplyDue, ServerGone, Busy
<1>8. ASSUME NEW n \in Nat, Awaited(n)' PROVE Awaited(n)
    BY <1>3, <1>4, <1>5, <1>8, Zenon DEF Awaited
<1>9. ASSUME NEW n \in Nat, Behind(n) PROVE Behind(n)'
    BY <1>3, <1>9, Zenon DEF Behind, Busy, ServerGone
<1>10. Lost' <=> Lost
    BY <1>3, Zenon DEF Lost
<1>11. StaysBehind'
    BY <1>4, <1>5, <1>8, <1>9, <1>10, Zenon DEF LostInv, StaysBehind
<1> QED
    BY <1>6, <1>7, <1>11, Zenon DEF LostInv

LEMMA SendLost ==
    ASSUME OwnInv, LostInv, NEW t \in Thread, Send(t)
    PROVE  LostInv'
<1>1. TypeOK /\ next_request_id \in Nat /\ requests \in Seq(Units) /\ replies \in Seq(Units)
      /\ \A r \in results : r.id \in Nat /\ r.id < next_request_id
    BY Zenon DEF OwnInv, TypeOK, IdsGiven
<1>2. PICK f : f = Frame(thread[t].opcode, next_request_id, thread[t].size, FALSE, "request")
    BY Zenon
<1>3. f \in Frames
    BY <1>1, <1>2, RequestType, Zenon
<1>4. /\ TypeOK' /\ mutex_free(t) /\ next_request_id' = next_request_id + 1
      /\ \A u \in Thread \ {t} : thread'[u] = thread[u]
      /\ UNCHANGED <<replies, up, server>>
    BY <1>1, SendFacts, Zenon
<1>5. \A u \in Thread : ~InFlight(u)
    BY <1>4, Zenon DEF mutex_free, InFlight
<1>6. \A u \in Thread \ {t} : ~InFlight(u)' /\ thread'[u].at # "header" /\ thread'[u].at # "body"
    BY <1>4, <1>5, Zenon DEF InFlight
<1>7. Lost => Behind(next_request_id)
    BY <1>1, <1>5, Zenon DEF LostInv, StaysBehind, Awaited
<1>8. CASE /\ thread'[t].at = "header" /\ thread'[t].id = next_request_id /\ UNCHANGED results
           /\ requests' = IF ServerGone THEN requests ELSE requests \o serialize_frame(f)
  <2>1. requests # <<>> => requests' # <<>> /\ requests'[1] = requests[1]
    <3>1. CASE ServerGone
      BY <1>8, <3>1, Zenon
    <3>2. CASE ~ServerGone
      <4>1. requests' = requests \o serialize_frame(f)
        BY <1>8, <3>2, Zenon
      <4>2. \A i \in 1 .. Len(requests) : (requests \o serialize_frame(f))[i] = requests[i]
        BY <1>1, <1>3, SentFacts
      <4>3. Len(requests \o serialize_frame(f)) = Len(requests) + HeaderUnits + f.size
        BY <1>1, <1>3, SentFacts, Zenon
      <4>4. Len(requests) \in Nat /\ HeaderUnits \in Nat /\ f.size \in Nat
        BY <1>1, <1>3, SeqFacts, SessionAssumption, Zenon DEF Frames
      <4>5. requests # <<>> => 1 \in 1 .. Len(requests)
        BY <1>1, <4>4
      <4>6. requests # <<>> => requests' # <<>>
        BY <4>1, <4>3, <4>4, <4>5
      <4> QED
        BY <4>1, <4>2, <4>5, <4>6, Zenon
    <3> QED
      BY <3>1, <3>2, Zenon
  <2>2. ServerGone \/ requests' # <<>>
    <3>1. ASSUME ~ServerGone PROVE requests' # <<>>
      <4>1. Len(requests') = Len(requests) + HeaderUnits + f.size
        BY <1>1, <1>3, <1>8, <3>1, SentFacts, Zenon
      <4>2. Len(requests) \in Nat /\ HeaderUnits \in Nat \ {0} /\ f.size \in Nat
        BY <1>1, <1>3, SeqFacts, SessionAssumption, Zenon DEF Frames
      <4> QED
        BY <4>1, <4>2
    <3> QED
      BY <3>1, Zenon
  <2>3. ReplyDue'
    BY <1>4, <2>2, Zenon DEF ReplyDue, ServerGone
  <2>4. OneInFlight'
    BY <1>1, <1>4, <1>6, <1>8, Zenon DEF OneInFlight
  <2>5. LostStaysLost'
    BY <1>8, Zenon DEF LostInv, LostStaysLost
  <2>6. ASSUME NEW n \in Nat, Awaited(n)' PROVE n = next_request_id
    <3>1. InFlight(t)'
      BY <1>8, Zenon DEF InFlight
    <3> QED
      BY <1>6, <1>8, <2>6, <3>1, Zenon DEF Awaited
  <2>7. ASSUME Lost, NEW n \in Nat, Awaited(n)' PROVE Behind(n)'
    <3>1. Behind(n)
      BY <1>7, <2>6, <2>7, Zenon
    <3> QED
      BY <1>4, <2>1, <3>1, Zenon DEF Behind, Busy, ServerGone
  <2>8. Lost' <=> Lost
    BY <1>8, Zenon DEF Lost
  <2>9. StaysBehind'
    BY <1>6, <1>8, <2>7, <2>8, Zenon DEF StaysBehind
  <2> QED
    BY <2>3, <2>4, <2>5, <2>9, Zenon DEF LostInv
<1>9. CASE /\ thread'[t] = idle /\ ServerGone /\ UNCHANGED requests
           /\ \E r : results' = results \cup {r} /\ r.id = next_request_id /\ r.got = "closed"
  <2>1. PICK r : results' = results \cup {r} /\ r.id = next_request_id /\ r.got = "closed"
    BY <1>9, Zenon
  <2>2. \A u \in Thread : ~InFlight(u)' /\ thread'[u].at # "header" /\ thread'[u].at # "body"
    BY <1>6, <1>9, IdleType, Zenon DEF InFlight
  <2>3. OneInFlight' /\ ReplyDue'
    BY <2>2, Zenon DEF OneInFlight, ReplyDue
  <2>4. LostStaysLost'
    <3>1. r.got \notin LostGot /\ r.got \notin Verdicts
      BY <2>1, Zenon DEF LostGot, Verdicts
    <3> QED
      BY <2>1, <3>1, Zenon DEF LostInv, LostStaysLost, LostGot
  <2>5. Lost' <=> Lost
    BY <2>1, Zenon DEF Lost
  <2>6. ASSUME Lost, NEW n \in Nat, Awaited(n)' PROVE Behind(n)'
    <3>1. n = next_request_id + 1
      BY <1>4, <2>2, <2>6, Zenon DEF Awaited
    <3>2. ServerGone'
      BY <1>4, <1>9, Zenon DEF ServerGone
    <3>3. CASE replies = <<>>
      BY <1>4, <3>2, <3>3, Zenon DEF Behind
    <3>4. CASE replies # <<>>
      <4>1. replies[1].of.id < next_request_id
        BY <1>7, <2>6, <3>4, Zenon DEF Behind
      <4>2. replies[1].of.id \in Nat
        <5>1. replies[1] \in Units
          BY <1>1, <3>4, SeqFacts
        <5> QED
          BY <5>1, Zenon DEF Units, Frames
      <4>3. replies[1].of.id < n
        BY <1>1, <3>1, <4>1, <4>2
      <4> QED
        BY <1>4, <3>4, <4>3, Zenon DEF Behind
    <3> QED
      BY <3>3, <3>4, Zenon
  <2>7. StaysBehind'
    BY <2>2, <2>5, <2>6, Zenon DEF StaysBehind
  <2> QED
    BY <2>3, <2>4, <2>7, Zenon DEF LostInv
<1> QED
    BY <1>1, <1>2, <1>8, <1>9, SendFacts, Zenon

\* After a call returned nothing is in flight, and its result is the newest.
LEMMA ReturnedFacts ==
    ASSUME OwnInv, LostInv, NEW t \in Thread, InFlight(t), NEW got, Returned(t, got),
           \A u \in Thread \ {t} : thread'[u] = thread[u]
    PROVE  /\ \A u \in Thread : ~InFlight(u)' /\ thread'[u].at # "header" /\ thread'[u].at # "body"
           /\ \E r : /\ results' = results \cup {r} /\ r.got = got /\ r.id = thread[t].id
                     /\ \A q \in results : q.id \in Nat /\ r.id \in Nat /\ q.id < r.id
<1>1. \A u \in Thread \ {t} : ~InFlight(u)
    BY Zenon DEF LostInv, OneInFlight
<1>2. \A u \in Thread : ~InFlight(u)' /\ thread'[u].at # "header" /\ thread'[u].at # "body"
    BY <1>1, IdleType DEF Returned, InFlight
<1>3. PICK r : results' = results \cup {r} /\ r.got = got /\ r.id = thread[t].id
    BY Zenon DEF Returned
<1>4. \A q \in results : q.id \in Nat /\ r.id \in Nat /\ q.id < r.id
    BY <1>3, Zenon DEF LostInv, OneInFlight, OwnInv, TypeOK, Calls
<1> QED
    BY <1>2, <1>3, <1>4, Zenon

\* A call that fails on the header, or finds the connection closed, leaves the
\* client behind if it is lost.
LEMMA FailLost ==
    ASSUME OwnInv, LostInv, OwnInv', NEW t \in Thread, thread[t].at = "header",
           NEW got \in LostGot \cup {"closed"}, Returned(t, got),
           \A u \in Thread \ {t} : thread'[u] = thread[u],
           UNCHANGED <<client, requests, up, server>>,
           \/ Len(replies) >= HeaderUnits /\ replies' = Beyond(replies, HeaderUnits)
           \/ ServerGone /\ replies' = <<>>
    PROVE  LostInv'
<1>1. InFlight(t) /\ got \notin Verdicts
    BY Zenon DEF InFlight, LostGot, Verdicts
<1>2. \A u \in Thread : ~InFlight(u)' /\ thread'[u].at # "header" /\ thread'[u].at # "body"
    BY <1>1, ReturnedFacts, Zenon
<1>3. PICK r : /\ results' = results \cup {r} /\ r.got = got
               /\ \A q \in results : q.id \in Nat /\ r.id \in Nat /\ q.id < r.id
    BY <1>1, ReturnedFacts, Zenon
<1>4. OneInFlight' /\ ReplyDue'
    BY <1>2, Zenon DEF OneInFlight, ReplyDue
<1>5. LostStaysLost'
  <2> SUFFICES ASSUME NEW p \in results', NEW q \in results', p.got \in LostGot, q.id > p.id
               PROVE  q.got \notin Verdicts
    BY Zenon DEF LostStaysLost, LostGot
  <2>1. CASE q = r
    BY <1>1, <1>3, <2>1, Zenon
  <2>2. CASE q \in results /\ p \in results
    BY <2>2, Zenon DEF LostInv, LostStaysLost, LostGot
  <2>3. CASE q \in results /\ p = r
    BY <1>3, <2>3
  <2> QED
    BY <1>3, <2>1, <2>2, <2>3, Zenon
<1>6. ASSUME NEW n \in Nat, Awaited(n)' PROVE Behind(n)'
  <2>1. n = next_request_id'
    BY <1>2, <1>6, Zenon DEF Awaited
  <2>2. /\ replies' # <<>> => replies'[1].of.id < n
        /\ server'.frame.id < n
        /\ requests' # <<>> => requests'[1].of.id < n
    <3>1. /\ \A i \in DOMAIN requests' : requests'[i].of.id < n
          /\ \A i \in DOMAIN replies' : replies'[i].of.id < n
          /\ server'.frame.id < n
      BY <2>1, Zenon DEF OwnInv, IdsGiven
    <3>2. requests' \in Seq(Units) /\ replies' \in Seq(Units)
      BY Zenon DEF OwnInv, TypeOK
    <3>3. (requests' # <<>> => 1 \in DOMAIN requests') /\ (replies' # <<>> => 1 \in DOMAIN replies')
      BY <3>2
    <3> QED
      BY <3>1, <3>3, Zenon
  <2>3. replies' # <<>> \/ ServerGone' \/ Busy' \/ (server'.at = "header" /\ requests' # <<>>)
    <3>1. server \in Serving /\ replies \in Seq(Units) /\ HeaderUnits \in Nat
      BY SessionAssumption, Zenon DEF OwnInv, TypeOK
    <3>2. ServerGone' <=> ServerGone
      BY Zenon DEF ServerGone
    <3>3. CASE Len(replies) > HeaderUnits /\ replies' = Beyond(replies, HeaderUnits)
      <4>1. Len(replies') = Len(replies) - HeaderUnits /\ Len(replies) \in Nat
        BY <3>1, <3>3, BeyondFacts, SeqFacts
      <4>2. Len(replies') # 0
        BY <3>1, <3>3, <4>1
      <4> QED
        BY <4>2
    <3>4. CASE ServerGone
      BY <3>2, <3>4, Zenon
    <3>5. CASE Busy \/ requests # <<>>
      BY <3>1, <3>5, Zenon DEF Busy, Serving, ServerGone
    <3> QED
      BY <3>1, <3>3, <3>4, <3>5, Zenon DEF LostInv, ReplyDue
  <2>4. CASE replies' # <<>>
    BY <2>2, <2>4, Zenon DEF Behind
  <2>5. CASE replies' = <<>>
    BY <2>2, <2>3, <2>5, Zenon DEF Behind
  <2> QED
    BY <2>4, <2>5, Zenon
<1>7. StaysBehind'
    BY <1>2, <1>6, Zenon DEF StaysBehind
<1> QED
    BY <1>4, <1>5, <1>7, Zenon DEF LostInv

LEMMA ReadHeaderLost ==
    ASSUME OwnInv, LostInv, OwnInv', NEW t \in Thread, ReadHeader(t)
    PROVE  LostInv'
<1>1. TypeOK /\ replies \in Seq(Units) /\ HeaderUnits \in Nat \ {0}
    BY SessionAssumption, Zenon DEF OwnInv, TypeOK
<1>2. /\ thread[t].at = "header"
      /\ \A u \in Thread \ {t} : thread'[u] = thread[u]
      /\ UNCHANGED <<client, requests, up, client_open, server, applied, faults>>
    BY <1>1, ReadHeaderFacts, Zenon
<1>3. CASE ServerGone /\ replies' = <<>> /\ Returned(t, "closed")
    BY <1>2, <1>3, FailLost, Zenon
<1>4. CASE Len(replies) >= HeaderUnits /\ replies' = Beyond(replies, HeaderUnits)
  <2>1. ASSUME NEW got \in LostGot, Returned(t, got) PROVE LostInv'
    BY <1>2, <1>4, <2>1, FailLost, Zenon
  <2>2. CASE Returned(t, "header_rejected")
    BY <2>1, <2>2, Zenon DEF LostGot
  <2>3. CASE \E f \in decode_frame_header(Front(replies, HeaderUnits)) :
                HeaderVerdict(t, f) # "good" /\ Returned(t, HeaderVerdict(t, f))
    <3>1. PICK got : got \in LostGot /\ Returned(t, got)
      BY <2>3, VerdictFacts, Zenon DEF LostGot
    <3> QED
      BY <2>1, <3>1, Zenon
  <2>4. CASE \E f \in decode_frame_header(Front(replies, HeaderUnits)) :
                /\ HeaderVerdict(t, f) = "good" /\ UNCHANGED results
                /\ thread'[t].at = "body" /\ thread'[t].reply = f
                /\ thread'[t].id = thread[t].id
                /\ thread'[t].opcode = thread[t].opcode
                /\ thread'[t].since = thread[t].since
    <3>1. PICK f \in decode_frame_header(Front(replies, HeaderUnits)) :
                /\ HeaderVerdict(t, f) = "good" /\ UNCHANGED results
                /\ thread'[t].at = "body" /\ thread'[t].id = thread[t].id
      BY <2>4, Zenon
    <3>2. f = replies[1].of /\ f.id = thread[t].id
      BY <1>1, <1>4, <3>1, DecodeFacts, VerdictFacts, Zenon
    <3>3. replies # <<>>
      BY <1>1, <1>4
    <3>4. ~Lost
      <4>1. thread[t].id \in Nat
        BY <1>1, Zenon DEF TypeOK, Calls
      <4>2. Awaited(thread[t].id)
        BY <1>2, Zenon DEF Awaited
      <4>3. Lost => Behind(thread[t].id)
        BY <4>1, <4>2, Zenon DEF LostInv, StaysBehind
      <4> QED
        BY <3>2, <3>3, <4>1, <4>3 DEF Behind
    <3>5. ~Lost'
      BY <3>1, <3>4, Zenon DEF Lost
    <3>6. InFlight(t)
      BY <1>2, Zenon DEF InFlight
    <3>7. \A u \in Thread \ {t} : ~InFlight(u) /\ ~InFlight(u)' /\ thread'[u].at # "header"
      BY <1>2, <3>6, Zenon DEF LostInv, OneInFlight, InFlight
    <3>8. OneInFlight'
      BY <1>2, <3>1, <3>6, <3>7, Zenon DEF LostInv, OneInFlight, client
    <3>9. ReplyDue'
      BY <3>1, <3>7, Zenon DEF ReplyDue
    <3>10. LostStaysLost' /\ StaysBehind'
      BY <3>1, <3>5, Zenon DEF LostInv, LostStaysLost, StaysBehind
    <3> QED
      BY <3>8, <3>9, <3>10, Zenon DEF LostInv
  <2> QED
    BY <1>1, <1>4, <2>2, <2>3, <2>4, ReadHeaderFacts, SeqFacts
<1> QED
    BY <1>1, <1>3, <1>4, ReadHeaderFacts, Zenon

LEMMA ReadBodyLost ==
    ASSUME OwnInv, LostInv, NEW t \in Thread, ReadBody(t)
    PROVE  LostInv'
<1>1. TypeOK /\ thread[t].reply \in Frames
    BY Zenon DEF OwnInv, TypeOK, Calls
<1>2. /\ thread[t].at = "body"
      /\ \A u \in Thread \ {t} : thread'[u] = thread[u]
    BY <1>1, ReadBodyFacts, Zenon
<1>3. InFlight(t)
    BY <1>2, Zenon DEF InFlight
<1>4. PICK got : Returned(t, got) /\ (got = BodyVerdict(t) \/ got = "closed")
    BY <1>1, ReadBodyFacts, Zenon
<1>5. got \notin LostGot
  <2>1. BodyVerdict(t) \in {"checksum", "body_rejected", "answer", thread[t].reply.kind}
    BY BodyVerdictFacts, Zenon
  <2>2. thread[t].reply.kind # "header_rejected"
    <3>1. thread[t].id > 0 /\ thread[t].id \in Nat
      BY <1>1, <1>3, Zenon DEF OwnInv, IdsGiven, TypeOK, Calls
    <3>2. thread[t].reply.id = thread[t].id /\ Backed(thread[t].reply)
      BY <1>2, Zenon DEF OwnInv, AnswersBacked
    <3> QED
      BY <3>1, <3>2 DEF Backed, BackedBy
  <2>3. thread[t].reply.kind \in Kinds
    BY <1>1, Zenon DEF Frames
  <2> QED
    BY <1>4, <2>1, <2>2, <2>3, Zenon DEF LostGot, Kinds
<1>6. \A u \in Thread : ~InFlight(u)' /\ thread'[u].at # "header" /\ thread'[u].at # "body"
    BY <1>2, <1>3, <1>4, ReturnedFacts, Zenon
<1>7. PICK r : results' = results \cup {r} /\ r.got = got
    BY <1>2, <1>3, <1>4, ReturnedFacts
<1>8. ~Lost
    BY <1>2, Zenon DEF LostInv, StaysBehind
<1>9. ~Lost'
    BY <1>5, <1>7, <1>8, Zenon DEF Lost, LostGot
<1>10. OneInFlight' /\ ReplyDue'
    BY <1>6, Zenon DEF OneInFlight, ReplyDue
<1>11. LostStaysLost' /\ StaysBehind'
    BY <1>9, Zenon DEF LostStaysLost, StaysBehind, Lost
<1> QED
    BY <1>10, <1>11, Zenon DEF LostInv

LEMMA InitLost == Init => LostInv
<1> SUFFICES ASSUME Init PROVE LostInv
    BY Zenon
<1>1. results = {} /\ \A t \in Thread : thread[t] = idle
    BY Zenon DEF Init
<1> QED
    BY <1>1, IdleType, Zenon DEF LostInv, OneInFlight, ReplyDue, StaysBehind, Lost, LostStaysLost,
       InFlight

LEMMA NextLost ==
    ASSUME OwnInv, LostInv, [Next]_vars
    PROVE  LostInv'
<1>0. OwnInv'
    BY NextOwn, Zenon
<1>1. CASE UNCHANGED vars
  <2>1. /\ UNCHANGED <<client, thread, results>>
        /\ UNCHANGED <<requests, replies, up, server>>
    BY <1>1, Zenon DEF vars, streams
  <2>2. ReplyDue'
    BY <2>1, Zenon DEF LostInv, ReplyDue, Busy, ServerGone
  <2>3. ASSUME NEW n \in Nat \ {0}, Behind(n) PROVE Behind(n)'
    BY <2>1, <2>3, Zenon DEF Behind, Busy, ServerGone
  <2> QED
    BY <2>1, <2>2, <2>3, QuietLost, Zenon
<1>2. CASE \E t \in Thread : Call(t) \/ Exchange(t)
    BY <1>0, <1>2, CallLost, SendLost, ReadHeaderLost, ReadBodyLost, Zenon DEF Exchange
<1>3. CASE Serve
    BY <1>3, ServeHeaderLost, ServeBodyLost, DispatchLost, SendReplyLost, Zenon DEF Serve
<1>4. CASE Disconnect \/ Lose \/ Damage
    BY <1>4, NetworkLost, Zenon
<1> QED
    BY <1>1, <1>2, <1>3, <1>4, Zenon DEF Next

LEMMA LostInvariance == Spec => [](OwnInv /\ LostInv)
<1>1. OwnInv /\ LostInv /\ [Next]_vars => (OwnInv /\ LostInv)'
    BY NextOwn, NextLost, Zenon
<1> QED
    BY <1>1, InitOwn, InitLost, PTL DEF Spec

\* A Client that failed on the header of a reply, whose payload stays in the stream,
\* reports no verdict of the registry ever after.
THEOREM LostStaysLostHolds == Spec => []LostStaysLost
<1>1. LostInv => LostStaysLost
    BY Zenon DEF LostInv
<1> QED
    BY <1>1, LostInvariance, PTL

-----------------------------------------------------------------------------
(* A shared client is safe *)

\* A frame in the stream is read back as it was written.
LEMMA FrameSplit ==
    ASSUME NEW f \in Frames
    PROVE  /\ Front(serialize_frame(f), HeaderUnits) = Header(f)
           /\ Beyond(serialize_frame(f), HeaderUnits) = Payload(f)
           /\ Front(Payload(f), f.size) = Payload(f) /\ Beyond(Payload(f), f.size) = <<>>
           /\ serialize_frame(f) # <<>> /\ serialize_frame(f)[1].of = f
           /\ <<>> \o serialize_frame(f) = serialize_frame(f)
<1>1. HeaderUnits \in Nat \ {0} /\ f.size \in Nat
    BY SessionAssumption, Zenon DEF Frames
<1>2. PICK h : h = Header(f)
    BY Zenon
<1>3. PICK p : p = Payload(f)
    BY Zenon
<1>4. PICK z : z = serialize_frame(f)
    BY Zenon
<1>5. /\ h \in Seq(Units) /\ Len(h) = HeaderUnits
      /\ \A i \in 1 .. HeaderUnits : h[i] = [part |-> i, of |-> f]
    BY <1>2, FrameFacts, Zenon
<1>6. /\ p \in Seq(Units) /\ Len(p) = f.size
      /\ \A i \in 1 .. f.size : p[i] = [part |-> HeaderUnits + i, of |-> f]
    BY <1>3, FrameFacts, Zenon
<1>7. /\ z \in Seq(Units) /\ Len(z) = HeaderUnits + f.size
      /\ \A i \in 1 .. HeaderUnits + f.size : z[i] = [part |-> i, of |-> f]
    BY <1>4, FrameFacts, Zenon
<1>8. Front(z, HeaderUnits) = h
  <2>1. PICK b : b = Front(z, HeaderUnits)
    BY Zenon
  <2>2. HeaderUnits <= Len(z)
    BY <1>1, <1>7
  <2>3. b \in Seq(Units) /\ Len(b) = HeaderUnits /\ \A i \in 1 .. HeaderUnits : b[i] = z[i]
    BY <1>1, <1>7, <2>1, <2>2, FrontFacts, Zenon DEF Front
  <2>4. \A i \in 1 .. HeaderUnits : i \in 1 .. HeaderUnits + f.size
    BY <1>1
  <2>5. \A i \in 1 .. HeaderUnits : b[i] = h[i]
    BY <1>5, <1>7, <2>3, <2>4, Zenon
  <2> QED
    BY <1>5, <2>1, <2>3, <2>5, SeqSame, Zenon
<1>9. Beyond(z, HeaderUnits) = p
  <2>1. PICK b : b = Beyond(z, HeaderUnits)
    BY Zenon
  <2>2. HeaderUnits <= Len(z) /\ Len(z) - HeaderUnits = f.size
    BY <1>1, <1>7
  <2>3. b \in Seq(Units) /\ Len(b) = f.size /\ \A i \in 1 .. f.size : b[i] = z[HeaderUnits + i]
    BY <1>1, <1>7, <2>1, <2>2, BeyondFacts, Zenon
  <2>4. ASSUME NEW i \in 1 .. f.size PROVE b[i] = p[i]
    <3>1. HeaderUnits + i \in 1 .. HeaderUnits + f.size
      BY <1>1
    <3> QED
      BY <1>6, <1>7, <2>3, <3>1, Zenon
  <2> QED
    BY <1>6, <2>1, <2>3, <2>4, SeqSame, Zenon
<1>10. Front(p, f.size) = p
  <2>1. PICK b : b = Front(p, f.size)
    BY Zenon
  <2>2. b \in Seq(Units) /\ Len(b) = f.size /\ \A i \in 1 .. f.size : b[i] = p[i]
    BY <1>1, <1>6, <2>1, FrontFacts DEF Front
  <2> QED
    BY <1>6, <2>1, <2>2, SeqSame, Zenon
<1>11. Beyond(p, f.size) = <<>>
  <2>1. PICK b : b = Beyond(p, f.size)
    BY Zenon
  <2>2. b \in Seq(Units) /\ Len(b) = Len(p) - f.size
    BY <1>1, <1>6, <2>1, BeyondFacts
  <2>3. Len(b) = 0
    BY <1>1, <1>6, <2>2
  <2> QED
    BY <2>1, <2>2, <2>3
<1>12. z # <<>> /\ z[1].of = f
  <2>1. 1 \in 1 .. HeaderUnits + f.size /\ Len(z) # 0
    BY <1>1, <1>7
  <2>2. z[1] = [part |-> 1, of |-> f]
    BY <1>7, <2>1, Zenon
  <2>3. z # <<>>
    BY <2>1
  <2> QED
    BY <2>2, <2>3
<1>13. <<>> \o z = z
    BY <1>7
<1> QED
    BY <1>2, <1>3, <1>4, <1>8, <1>9, <1>10, <1>11, <1>12, <1>13, Zenon

LEMMA RequestOfType ==
    ASSUME TypeOK, NEW t \in Thread
    PROVE  RequestOf(t) \in Frames
<1>1. /\ thread[t].opcode \in Operation /\ thread[t].id \in Nat /\ thread[t].size \in Nat
      /\ "request" \in Kinds
    BY Zenon DEF TypeOK, Calls, Kinds
<1> QED
    BY <1>1, Zenon DEF RequestOf, Frame, Frames

\* The header of a frame at the front of the stream decodes to that frame.
LEMMA DecodesTo ==
    ASSUME NEW f \in Frames
    PROVE  decode_frame_header(Front(serialize_frame(f), HeaderUnits)) = {f}
<1>1. Front(serialize_frame(f), HeaderUnits) = Header(f)
    BY FrameSplit, Zenon
<1>2. Header(f)[1] = [part |-> 1, of |-> f]
    BY FrameFacts, SessionAssumption
<1> QED
    BY <1>1, <1>2 DEF decode_frame_header

\* Steps after which something has gone wrong.
LEMMA UnsoundStep ==
    ASSUME results' = results, faults' > 0 \/ server'.at = "closed", faults' \in Nat
    PROVE  SafeInv'
<1>1. ~Sound'
    BY DEF Sound
<1>2. SharedClientIsSafe'
    BY Zenon DEF SharedClientIsSafe
<1> QED
    BY <1>1, <1>2, Zenon DEF SafeInv, InStep

\* Steps that add no result and keep what had gone wrong.
LEMMA SafeKept ==
    ASSUME SafeInv, results' = results, faults' = faults, server.at = "closed" => server'.at = "closed"
    PROVE  SharedClientIsSafe' /\ (Sound' => Sound)
    BY Zenon DEF SafeInv, SharedClientIsSafe, Sound

\* While the connection is sound, a step of the server moves the one request that
\* is underway.
LEMMA ServerSafe ==
    ASSUME SafeInv, TypeOK, LostInv, UNCHANGED <<client, thread, results, faults, up>>,
           server.at # "closed", Sound => \E t \in Thread : InFlight(t),
           Sound /\ Sound' => \A t \in Thread : /\ thread[t].at # "body"
                                                /\ thread[t].at = "header" => Underway(t)'
    PROVE  SafeInv'
<1>1. SharedClientIsSafe' /\ (Sound' => Sound)
    BY SafeKept, Zenon
<1>2. Sound' => up'
    BY <1>1, Zenon DEF SafeInv, InStep
<1>3. Sound' => ~(\A t \in Thread : ~InFlight(t)')
    BY <1>1, Zenon DEF InFlight
<1>4. InStep'
    BY <1>1, <1>2, <1>3, Zenon DEF InStep
<1> QED
    BY <1>1, <1>4, Zenon DEF SafeInv

LEMMA ServeHeaderSafe ==
    ASSUME OwnInv, LostInv, SafeInv, ServeHeader
    PROVE  SafeInv'
<1>1. TypeOK /\ requests \in Seq(Units) /\ HeaderUnits \in Nat \ {0} /\ faults \in Nat
    BY SessionAssumption, Zenon DEF OwnInv, TypeOK
<1>2. /\ server.at = "header"
      /\ UNCHANGED <<client, thread, up, client_open, applied, results, faults>>
    BY <1>1, ServeHeaderFacts, Zenon
<1>3. CASE server'.at = "closed"
    BY <1>1, <1>2, <1>3, UnsoundStep, Zenon
<1>4. CASE /\ Len(requests) >= HeaderUnits /\ requests' = Beyond(requests, HeaderUnits)
           /\ \E f \in decode_frame_header(Front(requests, HeaderUnits)) :
                 server'.at = "body" /\ server'.frame = f
           /\ UNCHANGED replies
  <2>1. requests # <<>>
    BY <1>1, <1>4
  <2>2. Sound => \E t \in Thread : InFlight(t)
    BY <2>1, Zenon DEF SafeInv, InStep
  <2>3. ASSUME Sound, NEW t \in Thread PROVE thread[t].at # "body"
    BY <2>1, <2>3, Zenon DEF SafeInv, InStep, Arriving
  <2>4. ASSUME Sound, NEW t \in Thread, thread[t].at = "header" PROVE Underway(t)'
    <3>1. PICK f : f = RequestOf(t)
      BY Zenon
    <3>2. f \in Frames
      BY <1>1, <3>1, RequestOfType, Zenon
    <3>3. requests = serialize_frame(f) /\ replies = <<>>
      BY <1>2, <2>1, <2>4, <3>1, Zenon DEF SafeInv, InStep, Underway
    <3>4. server'.at = "body" /\ server'.frame = f
      BY <1>4, <3>2, <3>3, DecodesTo, Zenon
    <3>5. requests' = Payload(f) /\ replies' = <<>>
      BY <1>4, <3>2, <3>3, FrameSplit, Zenon
    <3>6. RequestOf(t)' = f
      BY <1>2, <3>1, Zenon DEF RequestOf
    <3> QED
      BY <3>4, <3>5, <3>6, Zenon DEF Underway
  <2> QED
    BY <1>1, <1>2, <2>2, <2>3, <2>4, ServerSafe, Zenon
<1> QED
    BY <1>1, <1>3, <1>4, ServeHeaderFacts, Zenon

LEMMA ServeBodySafe ==
    ASSUME OwnInv, LostInv, SafeInv, ServeBody
    PROVE  SafeInv'
<1>1. TypeOK /\ requests \in Seq(Units) /\ faults \in Nat
    BY Zenon DEF OwnInv, TypeOK
<1>2. /\ server.at = "body" /\ server'.frame = server.frame
      /\ UNCHANGED <<client, thread, up, client_open, applied, results, faults>>
    BY <1>1, ServeBodyFacts, Zenon
<1>3. CASE server'.at = "closed"
    BY <1>1, <1>2, <1>3, UnsoundStep, Zenon
<1>4. CASE /\ server'.at = "dispatching" /\ UNCHANGED replies
           /\ requests' = Beyond(requests, server.frame.size)
  <2>1. Sound => \E t \in Thread : InFlight(t)
    BY <1>2, Zenon DEF SafeInv, InStep
  <2>2. ASSUME Sound, NEW t \in Thread PROVE thread[t].at # "body"
    BY <1>2, <2>2, Zenon DEF SafeInv, InStep, Arriving
  <2>3. ASSUME Sound, NEW t \in Thread, thread[t].at = "header" PROVE Underway(t)'
    <3>1. PICK f : f = RequestOf(t)
      BY Zenon
    <3>2. f \in Frames
      BY <1>1, <3>1, RequestOfType, Zenon
    <3>3. server.frame = f /\ requests = Payload(f) /\ replies = <<>>
      BY <1>2, <2>3, <3>1, Zenon DEF SafeInv, InStep, Underway
    <3>4. requests' = <<>> /\ replies' = <<>>
      BY <1>4, <3>2, <3>3, FrameSplit, Zenon
    <3>5. RequestOf(t)' = f
      BY <1>2, <3>1, Zenon DEF RequestOf
    <3> QED
      BY <1>2, <1>4, <3>3, <3>4, <3>5, Zenon DEF Underway
  <2> QED
    BY <1>1, <1>2, <2>1, <2>2, <2>3, ServerSafe, Zenon
<1> QED
    BY <1>1, <1>3, <1>4, ServeBodyFacts, Zenon

LEMMA DispatchSafe ==
    ASSUME OwnInv, LostInv, SafeInv, dispatch
    PROVE  SafeInv'
<1>1. TypeOK
    BY Zenon DEF OwnInv
<1>2. /\ TypeOK' /\ server.at = "dispatching" /\ server'.at = "replying"
      /\ UNCHANGED <<client, thread, streams, up, client_open, results, faults>>
      /\ server'.frame.id = server.frame.id /\ server'.frame.opcode = server.frame.opcode
      /\ server'.frame.response
      /\ server'.frame.kind \in Envelopes(server.frame.opcode) \cup {"reply_too_large"}
    BY <1>1, DispatchFacts, Zenon
<1>3. Sound => \E t \in Thread : InFlight(t)
    BY <1>2, Zenon DEF SafeInv, InStep
<1>4. ASSUME Sound, NEW t \in Thread PROVE thread[t].at # "body"
    BY <1>2, <1>4, Zenon DEF SafeInv, InStep, Arriving
<1>5. ASSUME Sound, NEW t \in Thread, thread[t].at = "header" PROVE Underway(t)'
  <2>1. server.frame = RequestOf(t) /\ requests = <<>> /\ replies = <<>>
    BY <1>2, <1>5, Zenon DEF SafeInv, InStep, Underway
  <2>2. server.frame.id = thread[t].id /\ server.frame.opcode = thread[t].opcode
    BY <2>1 DEF RequestOf, Frame
  <2>3. server'.frame \in Frames
    BY <1>2, Zenon DEF TypeOK, Serving
  <2>4. IsReplyTo(t, server.frame)'
    BY <1>2, <2>2, <2>3, Zenon DEF IsReplyTo
  <2>5. requests' = <<>> /\ replies' = <<>>
    BY <1>2, <2>1, Zenon DEF streams
  <2> QED
    BY <1>2, <2>4, <2>5, Zenon DEF Underway
<1> QED
    BY <1>1, <1>2, <1>3, <1>4, <1>5, ServerSafe, Zenon

LEMMA SendReplySafe ==
    ASSUME OwnInv, LostInv, SafeInv, SendReply
    PROVE  SafeInv'
<1>1. TypeOK /\ server.frame \in Frames /\ faults \in Nat
    BY Zenon DEF OwnInv, TypeOK, Serving
<1>2. /\ server.at = "replying"
      /\ UNCHANGED <<client, thread, requests, up, client_open, applied, results, faults>>
    BY <1>1, SendReplyFacts, Zenon
<1>3. CASE server'.at = "closed"
    BY <1>1, <1>2, <1>3, UnsoundStep, Zenon
<1>4. CASE server'.at = "header" /\ replies' = replies \o serialize_frame(server.frame)
  <2>1. Sound => \E t \in Thread : InFlight(t)
    BY <1>2, Zenon DEF SafeInv, InStep
  <2>2. ASSUME Sound, NEW t \in Thread PROVE thread[t].at # "body"
    BY <1>2, <2>2, Zenon DEF SafeInv, InStep, Arriving
  <2>3. ASSUME Sound, NEW t \in Thread, thread[t].at = "header" PROVE Underway(t)'
    <3>1. IsReplyTo(t, server.frame) /\ requests = <<>> /\ replies = <<>>
      BY <1>2, <2>3, Zenon DEF SafeInv, InStep, Underway
    <3>2. PICK f : f = server.frame
      BY Zenon
    <3>3. replies' = serialize_frame(f) /\ replies' # <<>> /\ replies'[1].of = f
      BY <1>1, <1>4, <3>1, <3>2, FrameSplit, Zenon
    <3>4. IsReplyTo(t, replies[1].of)'
      BY <1>2, <3>1, <3>2, <3>3, Zenon DEF IsReplyTo
    <3>5. requests' = <<>> /\ replies' = serialize_frame(replies'[1].of)
      BY <1>2, <3>1, <3>3, Zenon
    <3> QED
      BY <1>4, <3>3, <3>4, <3>5, Zenon DEF Underway
  <2> QED
    BY <1>1, <1>2, <2>1, <2>2, <2>3, ServerSafe, Zenon
<1> QED
    BY <1>1, <1>3, <1>4, SendReplyFacts, Zenon

\* Steps that change nothing a call in flight can see.
LEMMA StillSafe ==
    ASSUME SafeInv, UNCHANGED <<requests, replies, server, up, results, faults>>,
           \A u \in Thread : /\ InFlight(u)' <=> InFlight(u)
                             /\ InFlight(u) => thread'[u] = thread[u]
    PROVE  SafeInv'
<1>1. SharedClientIsSafe' /\ (Sound' => Sound)
    BY SafeKept, Zenon
<1>2. ASSUME NEW t \in Thread, thread'[t].at = "header", Sound PROVE Underway(t)'
  <2>1. thread'[t] = thread[t]
    BY <1>2, Zenon DEF InFlight
  <2>2. Underway(t)
    BY <1>2, <2>1, Zenon DEF SafeInv, InStep
  <2>3. RequestOf(t)' = RequestOf(t)
    BY <2>1, Zenon DEF RequestOf
  <2> QED
    BY <2>1, <2>2, <2>3, Zenon DEF Underway, IsReplyTo
<1>3. ASSUME NEW t \in Thread, thread'[t].at = "body", Sound PROVE Arriving(t)'
  <2>1. thread'[t] = thread[t]
    BY <1>3, Zenon DEF InFlight
  <2>2. Arriving(t)
    BY <1>3, <2>1, Zenon DEF SafeInv, InStep
  <2> QED
    BY <2>1, <2>2, Zenon DEF Arriving, IsReplyTo
<1>4. InStep'
    BY <1>1, <1>2, <1>3, Zenon DEF SafeInv, InStep
<1> QED
    BY <1>1, <1>4, Zenon DEF SafeInv

LEMMA NetworkSafe ==
    ASSUME OwnInv, SafeInv, Disconnect \/ Lose \/ Damage
    PROVE  SafeInv'
<1>1. TypeOK
    BY Zenon DEF OwnInv
<1>2. TypeOK' /\ UNCHANGED <<client, thread, server, applied, results>>
    BY <1>1, NetworkFacts, Zenon
<1>3. CASE faults' > 0
    BY <1>2, <1>3, UnsoundStep, Zenon DEF TypeOK
<1>4. CASE UNCHANGED <<streams, up, faults>>
    BY <1>2, <1>4, StillSafe, Zenon DEF streams, InFlight
<1> QED
    BY <1>1, <1>3, <1>4, NetworkFacts, Zenon

LEMMA CallSafe ==
    ASSUME OwnInv, SafeInv, NEW t \in Thread, Call(t)
    PROVE  SafeInv'
<1>1. TypeOK
    BY Zenon DEF OwnInv
<1>2. /\ thread[t].at = "idle" /\ thread'[t].at \in {"idle", "locking"}
      /\ \A u \in Thread \ {t} : thread'[u] = thread[u]
      /\ UNCHANGED <<client, streams, up, client_open, server, applied, results, faults>>
    BY <1>1, CallFacts, Zenon
<1>3. \A u \in Thread : /\ InFlight(u)' <=> InFlight(u)
                        /\ InFlight(u) => thread'[u] = thread[u]
    BY <1>2, Zenon DEF InFlight
<1> QED
    BY <1>2, <1>3, StillSafe, Zenon DEF streams

LEMMA SendSafe ==
    ASSUME OwnInv, SafeInv, NEW t \in Thread, Send(t)
    PROVE  SafeInv'
<1>1. TypeOK /\ next_request_id \in Nat /\ \A r \in results : r.id \in Nat /\ r.id < next_request_id
    BY Zenon DEF OwnInv, TypeOK, IdsGiven
<1>2. PICK f : f = Frame(thread[t].opcode, next_request_id, thread[t].size, FALSE, "request")
    BY Zenon
<1>3. f \in Frames
    BY <1>1, <1>2, RequestType, Zenon
<1>4. /\ mutex_free(t) /\ \A u \in Thread \ {t} : thread'[u] = thread[u]
      /\ UNCHANGED <<replies, up, server, faults>>
    BY <1>1, SendFacts, Zenon
<1>5. \A u \in Thread : ~InFlight(u)
    BY <1>4, Zenon DEF mutex_free, InFlight
<1>6. Sound => requests = <<>> /\ replies = <<>> /\ server.at = "header" /\ up
    BY <1>5, Zenon DEF SafeInv, InStep
<1>7. Sound => ~ServerGone
    BY <1>6, Zenon DEF ServerGone
<1>8. CASE /\ thread'[t].at = "header" /\ thread'[t].id = next_request_id /\ UNCHANGED results
           /\ thread'[t].opcode = thread[t].opcode /\ thread'[t].size = thread[t].size
           /\ requests' = IF ServerGone THEN requests ELSE requests \o serialize_frame(f)
  <2>1. SharedClientIsSafe' /\ (Sound' => Sound)
    BY <1>4, <1>8, SafeKept, Zenon
  <2>2. RequestOf(t)' = f
    BY <1>2, <1>8, Zenon DEF RequestOf
  <2>3. Sound => requests' = serialize_frame(f)
    BY <1>3, <1>6, <1>7, <1>8, FrameSplit, Zenon
  <2>4. Sound => Underway(t)'
    BY <1>4, <1>6, <2>2, <2>3, Zenon DEF Underway
  <2>5. InFlight(t)' /\ \A u \in Thread \ {t} : thread'[u].at # "header" /\ thread'[u].at # "body"
    BY <1>4, <1>5, <1>8, Zenon DEF InFlight
  <2>6. InStep'
    BY <1>4, <1>6, <1>8, <2>1, <2>4, <2>5, Zenon DEF InStep
  <2> QED
    BY <2>1, <2>6, Zenon DEF SafeInv
<1>9. CASE /\ ServerGone /\ \E r : results' = results \cup {r} /\ r.id = next_request_id
                                   /\ r.got = "closed"
  <2>1. PICK r : results' = results \cup {r} /\ r.id = next_request_id /\ r.got = "closed"
    BY <1>9, Zenon
  <2>2. ~Sound /\ \A q \in results : q.id < r.id
    BY <1>1, <1>7, <1>9, <2>1, Zenon
  <2>3. ~Sound'
    BY <1>4, <2>1, <2>2, Zenon DEF Sound
  <2>4. faults > 0 \/ server.at = "closed" \/ \E q \in results : q.got = "too_large"
    BY <1>1, <2>2 DEF Sound, TypeOK
  <2>5. SharedClientIsSafe'
    BY <1>4, <2>1, <2>2, <2>4, Zenon DEF SafeInv, SharedClientIsSafe
  <2> QED
    BY <2>3, <2>5, Zenon DEF SafeInv, InStep
<1> QED
    BY <1>1, <1>2, <1>8, <1>9, SendFacts, Zenon

\* A call that returns on a sound connection with a verdict, or on another with
\* anything.
LEMMA ReturnSafe ==
    ASSUME OwnInv, LostInv, SafeInv, NEW t \in Thread, InFlight(t), NEW got, Returned(t, got),
           \A u \in Thread \ {t} : thread'[u] = thread[u],
           UNCHANGED <<client, requests, up, client_open, server, applied, faults>>,
           Sound => got \in Verdicts \cup {"too_large"},
           Sound /\ got # "too_large" => requests = <<>> /\ replies' = <<>> /\ server.at = "header"
    PROVE  SafeInv'
<1>1. \A u \in Thread : ~InFlight(u)' /\ thread'[u].at # "header" /\ thread'[u].at # "body"
    BY ReturnedFacts, Zenon
<1>2. PICK r : /\ results' = results \cup {r} /\ r.got = got
               /\ \A q \in results : q.id \in Nat /\ r.id \in Nat /\ q.id < r.id
    BY ReturnedFacts
<1>3. Sound' => Sound /\ got # "too_large"
    BY <1>2, Zenon DEF Sound
<1>4. InStep'
    BY <1>1, <1>3, Zenon DEF SafeInv, InStep
<1>5. SharedClientIsSafe'
  <2>1. CASE Sound
    BY <1>2, <2>1, Zenon DEF SafeInv, SharedClientIsSafe
  <2>2. CASE ~Sound
    <3>1. faults > 0 \/ server.at = "closed" \/ \E q \in results : q.got = "too_large"
      BY <2>2 DEF Sound, OwnInv, TypeOK
    <3> QED
      BY <1>2, <3>1, Zenon DEF SafeInv, SharedClientIsSafe
  <2> QED
    BY <2>1, <2>2, Zenon
<1> QED
    BY <1>4, <1>5, Zenon DEF SafeInv

LEMMA ReadHeaderSafe ==
    ASSUME OwnInv, LostInv, SafeInv, NEW t \in Thread, ReadHeader(t)
    PROVE  SafeInv'
<1>1. TypeOK /\ replies \in Seq(Units) /\ HeaderUnits \in Nat \ {0}
    BY SessionAssumption, Zenon DEF OwnInv, TypeOK
<1>2. /\ thread[t].at = "header" /\ InFlight(t)
      /\ \A u \in Thread \ {t} : thread'[u] = thread[u]
      /\ UNCHANGED <<client, requests, up, client_open, server, applied, faults>>
    BY <1>1, ReadHeaderFacts, Zenon DEF InFlight
<1>3. Sound => ~ServerGone
    BY Zenon DEF SafeInv, InStep, Sound, ServerGone
<1>4. CASE ServerGone /\ replies' = <<>> /\ Returned(t, "closed")
    BY <1>2, <1>3, <1>4, ReturnSafe, Zenon
<1>5. CASE Len(replies) >= HeaderUnits /\ replies' = Beyond(replies, HeaderUnits)
  <2>1. replies # <<>>
    BY <1>1, <1>5
  <2>2. PICK g : g = replies[1].of
    BY Zenon
  <2>3. Sound => /\ server.at = "header" /\ requests = <<>> /\ IsReplyTo(t, g)
                 /\ replies = serialize_frame(g)
    BY <1>2, <2>1, <2>2, Zenon DEF SafeInv, InStep, Underway
  <2>4. Sound => decode_frame_header(Front(replies, HeaderUnits)) = {g}
    BY <2>3, DecodesTo, Zenon DEF IsReplyTo
  <2>5. Sound => HeaderVerdict(t, g) \in {"too_large", "good"}
    BY <2>3, VerdictFacts, Zenon DEF IsReplyTo
  <2>6. CASE /\ decode_frame_header(Front(replies, HeaderUnits)) = {}
             /\ Returned(t, "header_rejected")
    <3>1. ~Sound
      BY <2>4, <2>6, Zenon
    <3> QED
      BY <1>2, <2>6, <3>1, ReturnSafe, Zenon
  <2>7. CASE \E f \in decode_frame_header(Front(replies, HeaderUnits)) :
                HeaderVerdict(t, f) # "good" /\ Returned(t, HeaderVerdict(t, f))
    <3>1. PICK f \in decode_frame_header(Front(replies, HeaderUnits)) :
                HeaderVerdict(t, f) # "good" /\ Returned(t, HeaderVerdict(t, f))
      BY <2>7, Zenon
    <3>2. PICK got : got = HeaderVerdict(t, f)
      BY Zenon
    <3>3. Sound => got = "too_large"
      BY <2>4, <2>5, <3>1, <3>2, Zenon
    <3> QED
      BY <1>2, <3>1, <3>2, <3>3, ReturnSafe, Zenon
  <2>8. CASE \E f \in decode_frame_header(Front(replies, HeaderUnits)) :
                /\ HeaderVerdict(t, f) = "good" /\ UNCHANGED results
                /\ thread'[t].at = "body" /\ thread'[t].reply = f
                /\ thread'[t].id = thread[t].id
                /\ thread'[t].opcode = thread[t].opcode
                /\ thread'[t].since = thread[t].since
    <3>1. PICK f \in decode_frame_header(Front(replies, HeaderUnits)) :
                /\ UNCHANGED results /\ thread'[t].at = "body" /\ thread'[t].reply = f
                /\ thread'[t].id = thread[t].id /\ thread'[t].opcode = thread[t].opcode
      BY <2>8, Zenon
    <3>2. SharedClientIsSafe' /\ (Sound' => Sound)
      BY <1>2, <3>1, SafeKept, Zenon
    <3>3. Sound => f = g /\ g \in Frames
      BY <2>3, <2>4, <3>1, Zenon DEF IsReplyTo
    <3>4. Sound => replies' = Payload(g)
      BY <1>5, <2>3, <3>3, FrameSplit, Zenon
    <3>5. Sound => IsReplyTo(t, thread[t].reply)'
      BY <2>3, <3>1, <3>3, Zenon DEF IsReplyTo
    <3>6. Sound => Arriving(t)'
      BY <1>2, <2>3, <3>1, <3>3, <3>4, <3>5, Zenon DEF Arriving
    <3>7. InFlight(t)' /\ \A u \in Thread \ {t} : thread'[u].at # "header" /\ thread'[u].at # "body"
      BY <1>2, <3>1, Zenon DEF LostInv, OneInFlight, InFlight
    <3>8. Sound => up'
      BY <1>2, Zenon DEF SafeInv, InStep
    <3>9. InStep'
      BY <3>1, <3>2, <3>6, <3>7, <3>8, Zenon DEF InStep
    <3> QED
      BY <3>2, <3>9, Zenon DEF SafeInv
  <2> QED
    BY <1>1, <1>5, <2>6, <2>7, <2>8, ReadHeaderFacts, SeqFacts
<1> QED
    BY <1>1, <1>4, <1>5, ReadHeaderFacts, Zenon

LEMMA ReadBodySafe ==
    ASSUME OwnInv, LostInv, SafeInv, NEW t \in Thread, ReadBody(t)
    PROVE  SafeInv'
<1>1. TypeOK
    BY Zenon DEF OwnInv
<1>2. /\ thread[t].at = "body" /\ InFlight(t)
      /\ \A u \in Thread \ {t} : thread'[u] = thread[u]
      /\ UNCHANGED <<client, requests, up, client_open, server, applied, faults>>
    BY <1>1, ReadBodyFacts, Zenon DEF InFlight
<1>3. Sound => ~ServerGone
    BY Zenon DEF SafeInv, InStep, Sound, ServerGone
<1>4. CASE ServerGone /\ replies' = <<>> /\ Returned(t, "closed")
    BY <1>2, <1>3, <1>4, ReturnSafe, Zenon
<1>5. CASE replies' = Beyond(replies, thread[t].reply.size) /\ Returned(t, BodyVerdict(t))
  <2>1. PICK f : f = thread[t].reply
    BY Zenon
  <2>2. Sound => server.at = "header" /\ requests = <<>> /\ IsReplyTo(t, f) /\ replies = Payload(f)
    BY <1>2, <2>1, Zenon DEF SafeInv, InStep, Arriving
  <2>3. Sound => Front(replies, f.size) = Payload(f) /\ replies' = <<>>
    BY <1>5, <2>1, <2>2, FrameSplit, Zenon DEF IsReplyTo
  <2>4. Sound => f.kind \in {"answer", "unknown", "refused", "recorded", "malformed", "reply_too_large"}
    BY <2>2, EnvelopeKinds, Zenon DEF IsReplyTo
  <2>5. Sound => BodyVerdict(t) \in Verdicts
    BY <2>1, <2>3, <2>4, Zenon DEF BodyVerdict, is_failure, body_decodes, has_body, Verdicts
  <2> QED
    BY <1>2, <1>5, <2>2, <2>3, <2>5, ReturnSafe, Zenon
<1> QED
    BY <1>1, <1>4, <1>5, ReadBodyFacts, Zenon

LEMMA InitSafe == Init => SafeInv
<1> SUFFICES ASSUME Init PROVE SafeInv
    BY Zenon
<1>1. /\ results = {} /\ requests = <<>> /\ replies = <<>> /\ up = TRUE /\ server.at = "header"
      /\ \A t \in Thread : thread[t] = idle
    BY Zenon DEF Init
<1> QED
    BY <1>1, IdleType, Zenon DEF SafeInv, InStep, SharedClientIsSafe

LEMMA NextSafe ==
    ASSUME OwnInv, LostInv, SafeInv, [Next]_vars
    PROVE  SafeInv'
<1>1. CASE UNCHANGED vars
    BY <1>1, StillSafe, Zenon DEF vars, streams, InFlight
<1>2. CASE \E t \in Thread : Call(t) \/ Exchange(t)
    BY <1>2, CallSafe, SendSafe, ReadHeaderSafe, ReadBodySafe, Zenon DEF Exchange
<1>3. CASE Serve
    BY <1>3, ServeHeaderSafe, ServeBodySafe, DispatchSafe, SendReplySafe, Zenon DEF Serve
<1>4. CASE Disconnect \/ Lose \/ Damage
    BY <1>4, NetworkSafe, Zenon
<1> QED
    BY <1>1, <1>2, <1>3, <1>4, Zenon DEF Next

\* The mutex of Client::call lets threads share the client: while the connection
\* lives and nothing was damaged every call gets the registry's verdict, unless an
\* earlier reply was too large for the client.
THEOREM SharedClientIsSafeHolds == Spec => []SharedClientIsSafe
<1>1. OwnInv /\ LostInv /\ SafeInv /\ [Next]_vars => SafeInv'
    BY NextSafe, Zenon
<1>2. SafeInv => SharedClientIsSafe
    BY Zenon DEF SafeInv
<1> QED
    BY <1>1, <1>2, InitSafe, LostInvariance, PTL DEF Spec

=============================================================================
