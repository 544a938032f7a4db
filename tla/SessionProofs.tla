---------------------------- MODULE SessionProofs ----------------------------
(***************************************************************************)
(* One connection of the protocol: what the handlers of both ends do to    *)
(* the streams, and that answers belong to the calls that return them.     *)
(***************************************************************************)
EXTENDS Session, TLAPS

-----------------------------------------------------------------------------
(* Types *)

Operation == OpCode \cup {"Ping"}
Kinds == {"none", "request", "answer", "unknown", "refused", "recorded", "malformed",
          "reply_too_large", "header_rejected", "checksum"}
Frames == [opcode : Operation, id : Nat, size : Nat, response : BOOLEAN, kind : Kinds]
Units == [part : Nat, of : Frames]

Calls == [at : {"idle", "locking", "header", "body"}, opcode : Operation, size : Nat,
          id : Nat, reply : Frames, since : Nat]
Serving == [at : {"header", "body", "dispatching", "replying", "closed"}, frame : Frames,
            served : Nat]
Entries == [id : Nat, opcode : Operation, kind : Kinds]

TypeOK ==
    /\ client_max_frame_payload \in Nat /\ next_request_id \in Nat
    /\ thread \in [Thread -> Calls]
    /\ requests \in Seq(Units) /\ replies \in Seq(Units)
    /\ up \in BOOLEAN /\ client_open \in BOOLEAN
    /\ server \in Serving
    /\ applied \in Seq(Entries)
    /\ \A r \in results : r.id \in Nat
    /\ faults \in Nat

InFlight(t) == thread[t].at \in {"header", "body"}
Busy == server.at \in {"body", "dispatching", "replying"}

-----------------------------------------------------------------------------
(* The inductive invariant *)

\* No frame, call or result carries an id that was not given out.
IdsGiven ==
    /\ next_request_id > 0
    /\ \A i \in DOMAIN requests : requests[i].of.id < next_request_id
    /\ \A i \in DOMAIN replies : replies[i].of.id < next_request_id
    /\ server.frame.id < next_request_id
    /\ \A i \in DOMAIN applied : applied[i].id < next_request_id
    /\ \A t \in Thread : thread[t].id < next_request_id
    /\ \A t \in Thread : InFlight(t) => thread[t].id > 0
    /\ \A r \in results : r.id < next_request_id

\* The server finds the header of a request once: it is in the stream once, and
\* no more once the request was taken out of it.
HeadersOnce ==
    /\ \A i, j \in DOMAIN requests :
          requests[i].part = 1 /\ requests[j].part = 1 /\ requests[i].of.id = requests[j].of.id
              => i = j
    /\ \A i \in DOMAIN requests : requests[i].part = 1 =>
          /\ \A j \in DOMAIN applied : applied[j].id # requests[i].of.id
          /\ server.at \in {"body", "dispatching"} => server.frame.id # requests[i].of.id
    /\ server.at \in {"body", "dispatching"} =>
          \A j \in DOMAIN applied : applied[j].id # server.frame.id
    /\ \A i, j \in DOMAIN applied : applied[i].id = applied[j].id => i = j

\* A frame that says "answer" stands for a call of the registry, and one that
\* rejects a header carries no id.
BackedBy(f, calls) ==
    /\ f.kind = "answer" => \E i \in DOMAIN calls :
          calls[i].id = f.id /\ calls[i].opcode = f.opcode /\ calls[i].kind = "answer"
    /\ f.kind = "header_rejected" => f.id = 0

Backed(f) == BackedBy(f, applied)

AnswersBacked ==
    /\ \A i \in DOMAIN replies : Backed(replies[i].of)
    /\ server.at = "replying" => Backed(server.frame) /\ server.frame.size > 0
    /\ \A t \in Thread : thread[t].at = "body" =>
          /\ Backed(thread[t].reply)
          /\ thread[t].reply.id = thread[t].id /\ thread[t].reply.opcode = thread[t].opcode

\* The registry is not asked before the call is made.
AskedSince ==
    \A t \in Thread : InFlight(t) =>
        /\ thread[t].since <= Len(applied)
        /\ \A i \in DOMAIN applied : applied[i].id = thread[t].id => i > thread[t].since

OwnInv == TypeOK /\ IdsGiven /\ HeadersOnce /\ AnswersBacked /\ AskedSince /\ AnswersAreOwn

-----------------------------------------------------------------------------
(* Streams *)

\* s is a piece of w, from unit k + 1 on, in which units may be damaged.
Part(s, k, w) ==
    /\ s \in Seq(Units) /\ k \in Nat /\ Len(s) + k <= Len(w)
    /\ \A i \in 1 .. Len(s) : s[i] = w[k + i] \/ s[i] = Noise

LEMMA NoFrameType == NoFrame \in Frames /\ Noise \in Units
<1>1. NoFrame = [opcode |-> "Ping", id |-> 0, size |-> 0, response |-> FALSE, kind |-> "none"]
    BY Zenon DEF NoFrame, Frame
<1>2. NoFrame \in Frames
  <2>1. "Ping" \in Operation /\ "none" \in Kinds
    BY Zenon DEF Operation, Kinds
  <2> QED
    BY <1>1, <2>1, Zenon DEF Frames
<1> QED
    BY <1>2, Zenon DEF Noise, Units

LEMMA SeqFacts ==
    ASSUME NEW S, NEW w \in Seq(S)
    PROVE  /\ Len(w) \in Nat /\ DOMAIN w = 1 .. Len(w)
           /\ \A i \in 1 .. Len(w) : w[i] \in S
    OBVIOUS

LEMMA ConcatFacts ==
    ASSUME NEW S, NEW v \in Seq(S), NEW w \in Seq(S)
    PROVE  /\ v \o w \in Seq(S) /\ Len(v \o w) = Len(v) + Len(w)
           /\ \A i \in 1 .. Len(v) + Len(w) :
                 (v \o w)[i] = IF i <= Len(v) THEN v[i] ELSE w[i - Len(v)]
    OBVIOUS

LEMMA SubSeqFacts ==
    ASSUME NEW S, NEW w, NEW m \in Int, NEW n \in Int, \A i \in m .. n : w[i] \in S
    PROVE  /\ SubSeq(w, m, n) \in Seq(S)
           /\ Len(SubSeq(w, m, n)) = IF m <= n THEN n - m + 1 ELSE 0
           /\ \A i \in 1 .. n - m + 1 : SubSeq(w, m, n)[i] = w[m + i - 1]
    OBVIOUS

LEMMA ReplaceFacts ==
    ASSUME NEW S, NEW w \in Seq(S), NEW i \in 1 .. Len(w), NEW e \in S
    PROVE  /\ [w EXCEPT ![i] = e] \in Seq(S) /\ Len([w EXCEPT ![i] = e]) = Len(w)
           /\ \A j \in 1 .. Len(w) : [w EXCEPT ![i] = e][j] = IF j = i THEN e ELSE w[j]
    OBVIOUS

LEMMA NonEmpty ==
    ASSUME NEW S, NEW w \in Seq(S), w # <<>>
    PROVE  Len(w) \in Nat \ {0}
    OBVIOUS

LEMMA SeqSame ==
    ASSUME NEW S, NEW v \in Seq(S), NEW w \in Seq(S), Len(v) = Len(w),
           \A i \in 1 .. Len(v) : v[i] = w[i]
    PROVE  v = w
    OBVIOUS

\* What is left once n units were read.
LEMMA BeyondFacts ==
    ASSUME NEW w \in Seq(Units), NEW n \in Nat, n <= Len(w)
    PROVE  /\ Beyond(w, n) \in Seq(Units) /\ Len(Beyond(w, n)) = Len(w) - n
           /\ \A i \in 1 .. Len(w) - n : Beyond(w, n)[i] = w[n + i]
           /\ Part(Beyond(w, n), n, w)
<1>1. Len(w) \in Nat /\ \A i \in n + 1 .. Len(w) : w[i] \in Units
    BY SeqFacts
<1>2. PICK b : b = Beyond(w, n)
    BY Zenon
<1>3. /\ b \in Seq(Units) /\ Len(b) = IF n + 1 <= Len(w) THEN Len(w) - (n + 1) + 1 ELSE 0
      /\ \A i \in 1 .. Len(w) - (n + 1) + 1 : b[i] = w[(n + 1) + i - 1]
    BY <1>1, <1>2, SubSeqFacts DEF Beyond
<1>4. Len(b) = Len(w) - n
  <2>1. CASE n = Len(w)
    BY <1>1, <1>3, <2>1
  <2>2. CASE n < Len(w)
    BY <1>1, <1>3, <2>2
  <2> QED
    BY <1>1, <2>1, <2>2
<1>5. ASSUME NEW i \in 1 .. Len(w) - n PROVE b[i] = w[n + i]
  <2>1. i \in 1 .. Len(w) - (n + 1) + 1 /\ (n + 1) + i - 1 = n + i
    BY <1>1
  <2> QED
    BY <1>3, <2>1, Zenon
<1>6. Part(b, n, w)
    BY <1>1, <1>3, <1>4, <1>5 DEF Part
<1> QED
    BY <1>2, <1>3, <1>4, <1>5, <1>6, Zenon

\* The first n units.
LEMMA FrontFacts ==
    ASSUME NEW w \in Seq(Units), NEW n \in Nat, n <= Len(w)
    PROVE  /\ SubSeq(w, 1, n) \in Seq(Units) /\ Len(SubSeq(w, 1, n)) = n
           /\ \A i \in 1 .. n : SubSeq(w, 1, n)[i] = w[i]
           /\ Part(SubSeq(w, 1, n), 0, w)
<1>1. Len(w) \in Nat /\ \A i \in 1 .. n : w[i] \in Units
    BY SeqFacts
<1>2. PICK b : b = SubSeq(w, 1, n)
    BY Zenon
<1>3. /\ b \in Seq(Units) /\ Len(b) = IF 1 <= n THEN n - 1 + 1 ELSE 0
      /\ \A i \in 1 .. n - 1 + 1 : b[i] = w[1 + i - 1]
    BY <1>1, <1>2, SubSeqFacts
<1>4. Len(b) = n
  <2>1. CASE n = 0
    BY <1>3, <2>1
  <2>2. CASE n > 0
    BY <1>3, <2>2
  <2> QED
    BY <2>1, <2>2
<1>5. ASSUME NEW i \in 1 .. n PROVE b[i] = w[i]
  <2>1. i \in 1 .. n - 1 + 1 /\ 1 + i - 1 = i
    OBVIOUS
  <2> QED
    BY <1>3, <2>1, Zenon
<1>6. Part(b, 0, w)
    BY <1>1, <1>3, <1>4, <1>5 DEF Part
<1> QED
    BY <1>2, <1>3, <1>4, <1>5, <1>6, Zenon

LEMMA DamageFacts ==
    ASSUME NEW w \in Seq(Units), NEW i \in DOMAIN w
    PROVE  /\ [w EXCEPT ![i] = Noise] \in Seq(Units)
           /\ Len([w EXCEPT ![i] = Noise]) = Len(w)
           /\ Part([w EXCEPT ![i] = Noise], 0, w)
<1>1. i \in 1 .. Len(w) /\ Len(w) \in Nat
    BY SeqFacts, Zenon
<1>2. PICK b : b = [w EXCEPT ![i] = Noise]
    BY Zenon
<1>3. /\ b \in Seq(Units) /\ Len(b) = Len(w)
      /\ \A j \in 1 .. Len(w) : b[j] = IF j = i THEN Noise ELSE w[j]
    BY <1>1, <1>2, ReplaceFacts, NoFrameType
<1>4. Part(b, 0, w)
    BY <1>1, <1>3 DEF Part
<1> QED
    BY <1>2, <1>3, <1>4, Zenon

LEMMA TrivialParts ==
    ASSUME NEW w \in Seq(Units)
    PROVE  Part(w, 0, w) /\ Part(<<>>, 0, w)
<1>1. Len(w) \in Nat
    BY SeqFacts, Zenon
<1> QED
    BY <1>1 DEF Part

LEMMA PartOfPart ==
    ASSUME NEW s, NEW v, NEW w \in Seq(Units), NEW j, NEW k, Part(s, j, v), Part(v, k, w)
    PROVE  Part(s, j + k, w)
<1>1. Len(s) \in Nat /\ Len(v) \in Nat /\ Len(w) \in Nat
    BY SeqFacts, Zenon DEF Part
<1>2. ASSUME NEW i \in 1 .. Len(s) PROVE s[i] = w[(j + k) + i] \/ s[i] = Noise
  <2>1. j + i \in 1 .. Len(v) /\ k + (j + i) = (j + k) + i
    BY <1>1 DEF Part
  <2> QED
    BY <2>1, Zenon DEF Part
<1> QED
    BY <1>1, <1>2 DEF Part

\* A frame is its header followed by its payload.
LEMMA FrameFacts ==
    ASSUME NEW f \in Frames
    PROVE  /\ Header(f) \in Seq(Units) /\ Len(Header(f)) = HeaderUnits
           /\ \A i \in 1 .. HeaderUnits : Header(f)[i] = [part |-> i, of |-> f]
           /\ Payload(f) \in Seq(Units) /\ Len(Payload(f)) = f.size
           /\ \A i \in 1 .. f.size : Payload(f)[i] = [part |-> HeaderUnits + i, of |-> f]
           /\ serialize_frame(f) \in Seq(Units)
           /\ Len(serialize_frame(f)) = HeaderUnits + f.size
           /\ \A i \in 1 .. HeaderUnits + f.size : serialize_frame(f)[i] = [part |-> i, of |-> f]
<1>1. HeaderUnits \in Nat \ {0} /\ f.size \in Nat
    BY SessionAssumption, Zenon DEF Frames
<1>2. \A i \in 1 .. HeaderUnits : [part |-> i, of |-> f] \in Units
    BY <1>1 DEF Units
<1>3. \A i \in 1 .. f.size : [part |-> HeaderUnits + i, of |-> f] \in Units
    BY <1>1 DEF Units
<1>4. PICK h : h = Header(f)
    BY Zenon
<1>5. PICK p : p = Payload(f)
    BY Zenon
<1>6. /\ h \in Seq(Units) /\ Len(h) = HeaderUnits
      /\ \A i \in 1 .. HeaderUnits : h[i] = [part |-> i, of |-> f]
    BY <1>1, <1>2, <1>4 DEF Header
<1>7. /\ p \in Seq(Units) /\ Len(p) = f.size
      /\ \A i \in 1 .. f.size : p[i] = [part |-> HeaderUnits + i, of |-> f]
  <2>1. PICK n \in Nat : n = f.size
    BY <1>1, Zenon
  <2>2. p = [i \in 1 .. n |-> [part |-> HeaderUnits + i, of |-> f]]
    BY <1>5, <2>1, Zenon DEF Payload
  <2> QED
    BY <1>3, <2>1, <2>2
<1>8. PICK z : z = serialize_frame(f)
    BY Zenon
<1>9. /\ z \in Seq(Units) /\ Len(z) = HeaderUnits + f.size
      /\ \A i \in 1 .. HeaderUnits + f.size : z[i] =
             IF i <= HeaderUnits THEN h[i] ELSE p[i - HeaderUnits]
    BY <1>4, <1>5, <1>6, <1>7, <1>8, ConcatFacts DEF serialize_frame
<1>10. ASSUME NEW i \in 1 .. HeaderUnits + f.size PROVE z[i] = [part |-> i, of |-> f]
  <2>1. CASE i <= HeaderUnits
    BY <1>1, <1>6, <1>9, <2>1
  <2>2. CASE ~(i <= HeaderUnits)
    <3>1. i - HeaderUnits \in 1 .. f.size /\ HeaderUnits + (i - HeaderUnits) = i
      BY <1>1, <2>2
    <3> QED
      BY <1>7, <1>9, <2>2, <3>1, Zenon
  <2> QED
    BY <2>1, <2>2, Zenon
<1> QED
    BY <1>4, <1>5, <1>6, <1>7, <1>8, <1>9, <1>10, Zenon

\* A frame written behind what is in a stream.
LEMMA SentFacts ==
    ASSUME NEW w \in Seq(Units), NEW f \in Frames
    PROVE  /\ w \o serialize_frame(f) \in Seq(Units)
           /\ Len(w \o serialize_frame(f)) = Len(w) + HeaderUnits + f.size
           /\ \A i \in 1 .. Len(w) : (w \o serialize_frame(f))[i] = w[i]
           /\ \A i \in 1 .. HeaderUnits + f.size :
                 (w \o serialize_frame(f))[Len(w) + i] = [part |-> i, of |-> f]
<1>1. HeaderUnits \in Nat \ {0} /\ f.size \in Nat /\ Len(w) \in Nat
    BY SessionAssumption, SeqFacts, Zenon DEF Frames
<1>2. PICK z : z = serialize_frame(f)
    BY Zenon
<1>3. /\ z \in Seq(Units) /\ Len(z) = HeaderUnits + f.size
      /\ \A i \in 1 .. HeaderUnits + f.size : z[i] = [part |-> i, of |-> f]
    BY <1>2, FrameFacts, Zenon
<1>4. PICK v : v = w \o z
    BY Zenon
<1>5. /\ v \in Seq(Units) /\ Len(v) = Len(w) + Len(z)
      /\ \A i \in 1 .. Len(w) + Len(z) : v[i] = IF i <= Len(w) THEN w[i] ELSE z[i - Len(w)]
    BY <1>3, <1>4, ConcatFacts, Zenon
<1>6. ASSUME NEW i \in 1 .. Len(w) PROVE v[i] = w[i]
  <2>1. Len(z) \in Nat
    BY <1>1, <1>3
  <2>2. i \in 1 .. Len(w) + Len(z) /\ i <= Len(w)
    BY <1>1, <2>1
  <2> QED
    BY <1>5, <2>2, Zenon
<1>7. ASSUME NEW i \in 1 .. HeaderUnits + f.size PROVE v[Len(w) + i] = [part |-> i, of |-> f]
  <2>1. /\ Len(w) + i \in 1 .. Len(w) + Len(z) /\ ~(Len(w) + i <= Len(w))
        /\ (Len(w) + i) - Len(w) = i
    BY <1>1, <1>3
  <2> QED
    BY <1>3, <1>5, <2>1, Zenon
<1>8. Len(v) = Len(w) + HeaderUnits + f.size
    BY <1>1, <1>3, <1>5
<1> QED
    BY <1>2, <1>4, <1>5, <1>6, <1>7, <1>8, Zenon

-----------------------------------------------------------------------------
(* What the handlers do, in terms of types and streams *)

\* A header that decodes is the one of the frame its first unit names.
LEMMA DecodeFacts ==
    ASSUME NEW w \in Seq(Units), Len(w) >= HeaderUnits,
           NEW f \in decode_frame_header(Front(w, HeaderUnits))
    PROVE  /\ f \in Frames /\ f = w[1].of /\ w[1].part = 1
           /\ Front(w, HeaderUnits) = Header(f)
<1>1. HeaderUnits \in Nat \ {0} /\ Len(w) \in Nat
    BY SessionAssumption, SeqFacts, Zenon
<1>2. Front(w, HeaderUnits)[1] = w[1] /\ w[1] \in Units
  <2>1. 1 \in 1 .. HeaderUnits /\ 1 \in 1 .. Len(w)
    BY <1>1
  <2>2. SubSeq(w, 1, HeaderUnits)[1] = w[1]
    BY <1>1, <2>1, FrontFacts, Zenon
  <2> QED
    BY <2>1, <2>2, SeqFacts, Zenon DEF Front
<1>3. f = w[1].of /\ Front(w, HeaderUnits) = Header(f)
    BY <1>2, Zenon DEF decode_frame_header
<1>4. f \in Frames
    BY <1>2, <1>3, Zenon DEF Units
<1>5. Header(f)[1] = [part |-> 1, of |-> f]
  <2>1. 1 \in 1 .. HeaderUnits
    BY <1>1
  <2> QED
    BY <1>4, <2>1, FrameFacts, Zenon
<1> QED
    BY <1>2, <1>3, <1>4, <1>5

LEMMA IdleType == idle \in Calls /\ idle.at = "idle" /\ idle.id = 0
    BY NoFrameType, Zenon DEF idle, Calls, Operation

\* A call that ends leaves its thread idle and one more result.
LEMMA ReturnFacts ==
    ASSUME TypeOK, NEW t \in Thread, NEW got, returns(t, got)
    PROVE  /\ thread' \in [Thread -> Calls] /\ thread'[t] = idle
           /\ \A u \in Thread \ {t} : thread'[u] = thread[u]
           /\ \E r : /\ results' = results \cup {r} /\ r.got = got /\ r.id = thread[t].id
                     /\ r.opcode = thread[t].opcode /\ r.since = thread[t].since
                     /\ r.until = Len(applied)
<1> DEFINE r == [id |-> thread[t].id, opcode |-> thread[t].opcode, got |-> got,
                 since |-> thread[t].since, until |-> Len(applied)]
<1>1. thread' = [thread EXCEPT ![t] = idle] /\ results' = results \cup {r}
    BY Zenon DEF returns
<1>2. thread \in [Thread -> Calls]
    BY Zenon DEF TypeOK
<1>3. /\ thread' \in [Thread -> Calls] /\ thread'[t] = idle
      /\ \A u \in Thread \ {t} : thread'[u] = thread[u]
    BY <1>1, <1>2, IdleType, Zenon
<1>4. /\ r.got = got /\ r.id = thread[t].id /\ r.opcode = thread[t].opcode
      /\ r.since = thread[t].since /\ r.until = Len(applied)
    BY Zenon
<1> HIDE DEF r
<1> QED
    BY <1>1, <1>3, <1>4, Zenon

LEMMA ReplyType ==
    ASSUME NEW f \in Frames, NEW n \in Nat, NEW kind \in Kinds
    PROVE  /\ Reply(f, n, kind) \in Frames /\ Reply(f, n, kind).id = f.id
           /\ Reply(f, n, kind).opcode = f.opcode /\ Reply(f, n, kind).kind = kind
           /\ Reply(f, n, kind).size = n /\ Reply(f, n, kind).response
    BY Zenon DEF Reply, Frame, Frames

\* The two frames with which the server refuses what it read.
LEMMA RefusalType ==
    ASSUME NEW f \in Frames, NEW kind \in {"header_rejected", "checksum"}
    PROVE  /\ Reply(f, EmptySize, kind) \in Frames /\ Reply(f, EmptySize, kind).id = f.id
           /\ Reply(f, EmptySize, kind).kind = kind
<1>1. EmptySize \in Nat
    BY Zenon DEF EmptySize
<1>2. kind \in Kinds
    BY Zenon DEF Kinds
<1> QED
    BY <1>1, <1>2, ReplyType

\* Closing the connection cuts what the client will still read.
LEMMA CloseFacts ==
    ASSUME TypeOK, NEW w \in Seq(Units), closes(w)
    PROVE  /\ server' \in Serving /\ server'.at = "closed" /\ server'.frame = server.frame
           /\ replies' \in Seq(Units) /\ Part(replies', 0, w)
<1>1. server' \in Serving /\ server'.at = "closed" /\ server'.frame = server.frame
    BY Zenon DEF closes, TypeOK, Serving
<1>2. Len(w) \in Nat
    BY SeqFacts, Zenon
<1>3. PICK n \in 0 .. Len(w) : replies' = SubSeq(w, 1, n)
    BY <1>2 DEF closes
<1>4. replies' \in Seq(Units) /\ Part(replies', 0, w)
    BY <1>2, <1>3, FrontFacts
<1> QED
    BY <1>1, <1>4, Zenon

\* What the client's stream holds after the server tried to send f.
LEMMA SendAllFacts ==
    ASSUME TypeOK, NEW f \in Frames
    PROVE  /\ send_all(f) \in Seq(Units)
           /\ ClientGone => send_all(f) = replies
           /\ ~ClientGone => send_all(f) = replies \o serialize_frame(f)
           /\ \A i \in DOMAIN send_all(f) : send_all(f)[i].of = f
                 \/ (i \in DOMAIN replies /\ send_all(f)[i] = replies[i])
<1>1. CASE ClientGone
    BY <1>1, Zenon DEF send_all, TypeOK
<1>2. CASE ~ClientGone
  <2>1. PICK w : w = replies \o serialize_frame(f)
    BY Zenon
  <2>2. send_all(f) = w
    BY <1>2, <2>1, Zenon DEF send_all
  <2>3. HeaderUnits \in Nat /\ f.size \in Nat /\ Len(replies) \in Nat
        /\ DOMAIN replies = 1 .. Len(replies)
    BY SessionAssumption, SeqFacts, Zenon DEF Frames, TypeOK
  <2>4. /\ w \in Seq(Units) /\ Len(w) = Len(replies) + HeaderUnits + f.size
        /\ \A i \in 1 .. Len(replies) : w[i] = replies[i]
        /\ \A i \in 1 .. HeaderUnits + f.size : w[Len(replies) + i] = [part |-> i, of |-> f]
    BY <2>1, SentFacts, ZenonT(30) DEF TypeOK
  <2>5. DOMAIN w = 1 .. Len(w)
    BY <2>4, SeqFacts, Zenon
  <2>6. ASSUME NEW i \in DOMAIN w
        PROVE  w[i].of = f \/ (i \in DOMAIN replies /\ w[i] = replies[i])
    <3>1. CASE i <= Len(replies)
      BY <2>3, <2>4, <2>5, <3>1
    <3>2. CASE ~(i <= Len(replies))
      <4>1. PICK j \in 1 .. HeaderUnits + f.size : i = Len(replies) + j
        <5>1. i - Len(replies) \in 1 .. HeaderUnits + f.size
          BY <2>3, <2>4, <2>5, <3>2
        <5>2. i = Len(replies) + (i - Len(replies))
          BY <2>3, <2>5
        <5> QED
          BY <5>1, <5>2, Zenon
      <4>2. w[i] = [part |-> j, of |-> f]
        BY <2>4, <4>1, Zenon
      <4> QED
        BY <4>2
    <3> QED
      BY <3>1, <3>2, Zenon
  <2> QED
    BY <1>2, <2>1, <2>2, <2>4, <2>6, Zenon
<1> QED
    BY <1>1, <1>2, Zenon

-----------------------------------------------------------------------------
(* Types are kept *)

LEMMA InitTypes == Init => TypeOK
<1> SUFFICES ASSUME Init PROVE TypeOK
    BY Zenon
<1>1. thread \in [Thread -> Calls] /\ server \in Serving
    BY IdleType, NoFrameType, Zenon DEF Init, Serving
<1>2. client_max_frame_payload \in Nat
    BY SessionAssumption, Zenon DEF Init
<1> QED
    BY <1>1, <1>2 DEF Init, TypeOK

\* Call: a request waits for the mutex.
LEMMA CallFacts ==
    ASSUME TypeOK, NEW t \in Thread, Call(t)
    PROVE  /\ TypeOK' /\ thread[t].at = "idle" /\ thread'[t].at \in {"idle", "locking"}
           /\ thread'[t].id = 0 \/ thread'[t].id = thread[t].id
           /\ \A u \in Thread \ {t} : thread'[u] = thread[u]
           /\ UNCHANGED <<client, streams, up, client_open, server, applied, results, faults>>
<1>1. thread[t].at = "idle" /\ thread \in [Thread -> Calls]
    BY Zenon DEF Call, TypeOK
<1>2. /\ thread' \in [Thread -> Calls] /\ thread'[t].at \in {"idle", "locking"}
      /\ thread'[t].id = 0 \/ thread'[t].id = thread[t].id
      /\ \A u \in Thread \ {t} : thread'[u] = thread[u]
  <2>1. CASE thread' = thread
    BY <1>1, <2>1, Zenon
  <2>2. CASE \E opcode \in OpCode, size \in RequestSizes : thread' =
               [thread EXCEPT ![t] = [idle EXCEPT !.at = "locking", !.opcode = opcode,
                                                  !.size = size]]
    <3>1. PICK opcode \in OpCode, size \in RequestSizes : thread' =
               [thread EXCEPT ![t] = [idle EXCEPT !.at = "locking", !.opcode = opcode,
                                                  !.size = size]]
      BY <2>2, Zenon
    <3>2. PICK c : c = [idle EXCEPT !.at = "locking", !.opcode = opcode, !.size = size]
      BY Zenon
    <3>3. opcode \in Operation /\ size \in Nat
      BY SessionAssumption, Zenon DEF Operation
    <3>4. c \in Calls /\ c.at = "locking" /\ c.id = 0
      BY <3>2, <3>3, IdleType, Zenon DEF Calls
    <3> QED
      BY <1>1, <3>1, <3>2, <3>4, Zenon
  <2> QED
    BY <2>1, <2>2, Zenon DEF Call
<1>3. UNCHANGED <<client, streams, up, client_open, server, applied, results, faults>>
    BY Zenon DEF Call
<1>4. TypeOK'
    BY <1>2, <1>3, Zenon DEF TypeOK, client, streams
<1> QED
    BY <1>1, <1>2, <1>3, <1>4, Zenon

LEMMA RequestType ==
    ASSUME TypeOK, NEW t \in Thread
    PROVE  LET f == Frame(thread[t].opcode, next_request_id, thread[t].size, FALSE, "request")
           IN  f \in Frames /\ f.id = next_request_id /\ f.kind = "request"
<1>1. thread[t] \in Calls
    BY Zenon DEF TypeOK
<1>2. thread[t].opcode \in Operation /\ thread[t].size \in Nat /\ "request" \in Kinds
    BY <1>1, Zenon DEF Calls, Kinds
<1> QED
    BY <1>2, Zenon DEF Frame, Frames, TypeOK

\* Send: the request gets its id and, if it can, goes on the stream.
LEMMA SendFacts ==
    ASSUME TypeOK, NEW t \in Thread, Send(t)
    PROVE  LET f == Frame(thread[t].opcode, next_request_id, thread[t].size, FALSE, "request")
           IN  /\ TypeOK' /\ thread[t].at = "locking" /\ mutex_free(t)
               /\ next_request_id' = next_request_id + 1
               /\ \A u \in Thread \ {t} : thread'[u] = thread[u]
               /\ UNCHANGED <<client_max_frame_payload, replies, up, client_open, server,
                              applied, faults>>
               /\ \/ /\ thread'[t].at = "header" /\ thread'[t].id = next_request_id
                     /\ thread'[t].opcode = thread[t].opcode /\ thread'[t].size = thread[t].size
                     /\ thread'[t].since = Len(applied) /\ UNCHANGED results
                     /\ requests' = IF ServerGone THEN requests
                                    ELSE requests \o serialize_frame(f)
                  \/ /\ thread'[t] = idle /\ ServerGone /\ UNCHANGED requests
                     /\ \E r : results' = results \cup {r} /\ r.id = next_request_id
                               /\ r.got = "closed"
<1>1. PICK f : f = Frame(thread[t].opcode, next_request_id, thread[t].size, FALSE, "request")
    BY Zenon
<1>2. f \in Frames /\ next_request_id \in Nat /\ Len(applied) \in Nat
      /\ thread \in [Thread -> Calls]
    BY <1>1, RequestType, SeqFacts, Zenon DEF TypeOK
<1>3. /\ thread[t].at = "locking" /\ mutex_free(t) /\ next_request_id' = next_request_id + 1
      /\ UNCHANGED <<client_max_frame_payload, replies, up, client_open, server, applied, faults>>
    BY Zenon DEF Send
<1>4. CASE /\ thread' = [thread EXCEPT ![t].at = "header", ![t].id = next_request_id,
                                       ![t].since = Len(applied)]
           /\ requests' = IF ServerGone THEN requests ELSE requests \o serialize_frame(f)
           /\ UNCHANGED results
  <2>1. PICK c : c = [thread[t] EXCEPT !.at = "header", !.id = next_request_id,
                                       !.since = Len(applied)]
    BY Zenon
  <2>2. thread' = [thread EXCEPT ![t] = c]
    BY <1>2, <1>4, <2>1, Zenon
  <2>3. /\ c \in Calls /\ c.at = "header" /\ c.id = next_request_id /\ c.since = Len(applied)
        /\ c.opcode = thread[t].opcode /\ c.size = thread[t].size
    BY <1>2, <2>1, Zenon DEF Calls
  <2>4. /\ thread' \in [Thread -> Calls] /\ thread'[t] = c
        /\ \A u \in Thread \ {t} : thread'[u] = thread[u]
    BY <1>2, <2>2, <2>3, Zenon
  <2>5. requests' \in Seq(Units)
    BY <1>2, <1>4, SentFacts, Zenon DEF TypeOK
  <2>6. TypeOK'
    BY <1>2, <1>3, <1>4, <2>4, <2>5 DEF TypeOK
  <2> QED
    BY <1>1, <1>3, <1>4, <2>3, <2>4, <2>6, Zenon
<1>5. CASE /\ ServerGone /\ thread' = [thread EXCEPT ![t] = idle] /\ UNCHANGED requests
           /\ results' = results \cup
                  {[id |-> next_request_id, opcode |-> f.opcode, got |-> "closed",
                    since |-> Len(applied), until |-> Len(applied)]}
  <2>1. PICK r : r = [id |-> next_request_id, opcode |-> f.opcode, got |-> "closed",
                      since |-> Len(applied), until |-> Len(applied)]
    BY Zenon
  <2>2. r.id = next_request_id /\ r.got = "closed" /\ results' = results \cup {r}
    BY <1>5, <2>1, Zenon
  <2>3. /\ thread' \in [Thread -> Calls] /\ thread'[t] = idle
        /\ \A u \in Thread \ {t} : thread'[u] = thread[u]
    BY <1>2, <1>5, IdleType, Zenon
  <2>4. TypeOK'
    BY <1>2, <1>3, <1>5, <2>2, <2>3 DEF TypeOK
  <2> QED
    BY <1>1, <1>3, <1>5, <2>2, <2>3, <2>4, Zenon
<1> QED
    BY <1>1, <1>4, <1>5, Zenon DEF Send

\* What a call that returns "got" leaves: an idle thread and its result.
Returned(t, got) ==
    /\ thread'[t] = idle
    /\ \E r : /\ results' = results \cup {r} /\ r.got = got /\ r.id = thread[t].id
              /\ r.opcode = thread[t].opcode /\ r.since = thread[t].since
              /\ r.until = Len(applied)

LEMMA ReturnTypes ==
    ASSUME TypeOK, NEW t \in Thread, NEW got, returns(t, got), replies' \in Seq(Units),
           UNCHANGED <<client, requests, up, client_open, server, applied, faults>>
    PROVE  /\ TypeOK' /\ Returned(t, got) /\ \A u \in Thread \ {t} : thread'[u] = thread[u]
<1>1. /\ thread' \in [Thread -> Calls] /\ Returned(t, got)
      /\ \A u \in Thread \ {t} : thread'[u] = thread[u]
    BY ReturnFacts DEF Returned
<1>2. thread[t].id \in Nat
    BY Zenon DEF TypeOK, Calls
<1>3. \A r \in results' : r.id \in Nat
    BY <1>1, <1>2, Zenon DEF Returned, TypeOK
<1> QED
    BY <1>1, <1>3, Zenon DEF TypeOK, client

\* ReadHeader: a header is taken and judged, or the connection has ended.
LEMMA ReadHeaderFacts ==
    ASSUME TypeOK, NEW t \in Thread, ReadHeader(t)
    PROVE  /\ TypeOK' /\ thread[t].at = "header"
           /\ \A u \in Thread \ {t} : thread'[u] = thread[u]
           /\ UNCHANGED <<client, requests, up, client_open, server, applied, faults>>
           /\ \/ /\ Len(replies) >= HeaderUnits /\ replies' = Beyond(replies, HeaderUnits)
                 /\ \/ /\ decode_frame_header(Front(replies, HeaderUnits)) = {}
                       /\ Returned(t, "header_rejected")
                    \/ \E f \in decode_frame_header(Front(replies, HeaderUnits)) :
                          HeaderVerdict(t, f) # "good" /\ Returned(t, HeaderVerdict(t, f))
                    \/ \E f \in decode_frame_header(Front(replies, HeaderUnits)) :
                          /\ HeaderVerdict(t, f) = "good" /\ UNCHANGED results
                          /\ thread'[t].at = "body" /\ thread'[t].reply = f
                          /\ thread'[t].id = thread[t].id
                          /\ thread'[t].opcode = thread[t].opcode
                          /\ thread'[t].since = thread[t].since
              \/ /\ Len(replies) < HeaderUnits /\ ServerGone /\ replies' = <<>>
                 /\ Returned(t, "closed")
<1>1. /\ thread[t].at = "header"
      /\ UNCHANGED <<client, requests, up, client_open, server, applied, faults>>
    BY Zenon DEF ReadHeader
<1>2. CASE Len(replies) >= HeaderUnits /\ replies' = Beyond(replies, HeaderUnits)
  <2>1. replies' \in Seq(Units)
    BY <1>2, BeyondFacts, SessionAssumption, Zenon DEF TypeOK
  <2>2. CASE /\ decode_frame_header(Front(replies, HeaderUnits)) = {}
             /\ returns(t, "header_rejected")
    BY <1>1, <1>2, <2>1, <2>2, ReturnTypes, Zenon
  <2>3. CASE \E f \in decode_frame_header(Front(replies, HeaderUnits)) :
                HeaderVerdict(t, f) # "good" /\ returns(t, HeaderVerdict(t, f))
    <3>1. PICK f \in decode_frame_header(Front(replies, HeaderUnits)) :
              HeaderVerdict(t, f) # "good" /\ returns(t, HeaderVerdict(t, f))
      BY <2>3, Zenon
    <3>2. /\ TypeOK' /\ Returned(t, HeaderVerdict(t, f))
          /\ \A u \in Thread \ {t} : thread'[u] = thread[u]
      BY <1>1, <2>1, <3>1, ReturnTypes, Zenon
    <3> QED
      BY <1>1, <1>2, <3>1, <3>2, Zenon
  <2>4. CASE \E f \in decode_frame_header(Front(replies, HeaderUnits)) :
                /\ HeaderVerdict(t, f) = "good" /\ UNCHANGED results
                /\ thread' = [thread EXCEPT ![t].at = "body", ![t].reply = f]
    <3>1. PICK f \in decode_frame_header(Front(replies, HeaderUnits)) :
                /\ HeaderVerdict(t, f) = "good" /\ UNCHANGED results
                /\ thread' = [thread EXCEPT ![t].at = "body", ![t].reply = f]
      BY <2>4, Zenon
    <3>2. f \in Frames
      BY <1>2, DecodeFacts, Zenon DEF TypeOK
    <3>3. PICK c : c = [thread[t] EXCEPT !.at = "body", !.reply = f]
      BY Zenon
    <3>4. thread \in [Thread -> Calls]
      BY Zenon DEF TypeOK
    <3>5. thread' = [thread EXCEPT ![t] = c]
      BY <3>1, <3>3, <3>4, Zenon
    <3>6. /\ c \in Calls /\ c.at = "body" /\ c.reply = f /\ c.id = thread[t].id
          /\ c.opcode = thread[t].opcode /\ c.since = thread[t].since
      BY <3>2, <3>3, <3>4, Zenon DEF Calls
    <3>7. /\ thread' \in [Thread -> Calls] /\ thread'[t] = c
          /\ \A u \in Thread \ {t} : thread'[u] = thread[u]
      BY <3>4, <3>5, <3>6, Zenon
    <3>8. TypeOK'
      BY <1>1, <2>1, <3>1, <3>7, Zenon DEF TypeOK, client
    <3> QED
      BY <1>1, <1>2, <3>1, <3>6, <3>7, <3>8, Zenon
  <2>5. ~(Len(replies) < HeaderUnits)
    BY <1>2, SeqFacts, SessionAssumption DEF TypeOK
  <2>6. \/ /\ decode_frame_header(Front(replies, HeaderUnits)) = {}
           /\ returns(t, "header_rejected")
        \/ \E f \in decode_frame_header(Front(replies, HeaderUnits)) :
              IF HeaderVerdict(t, f) = "good"
              THEN /\ thread' = [thread EXCEPT ![t].at = "body", ![t].reply = f]
                   /\ UNCHANGED results
              ELSE returns(t, HeaderVerdict(t, f))
    BY <2>5, Zenon DEF ReadHeader
  <2> QED
    BY <2>2, <2>3, <2>4, <2>6, Zenon
<1>3. CASE /\ Len(replies) < HeaderUnits /\ ServerGone /\ replies' = <<>>
           /\ returns(t, "closed")
  <2>1. replies' \in Seq(Units)
    BY <1>3
  <2> QED
    BY <1>1, <1>3, <2>1, ReturnTypes, Zenon
<1> QED
    BY <1>2, <1>3, Zenon DEF ReadHeader

\* What ReadBody reports of a frame whose payload is there.
BodyVerdict(t) ==
    CASE Front(replies, thread[t].reply.size) # Payload(thread[t].reply) -> "checksum"
      [] is_failure(thread[t].reply.kind) -> thread[t].reply.kind
      [] ~body_decodes(thread[t].reply.kind) -> "body_rejected"
      [] OTHER -> "answer"

LEMMA ReadBodyFacts ==
    ASSUME TypeOK, NEW t \in Thread, ReadBody(t)
    PROVE  /\ TypeOK' /\ thread[t].at = "body"
           /\ \A u \in Thread \ {t} : thread'[u] = thread[u]
           /\ UNCHANGED <<client, requests, up, client_open, server, applied, faults>>
           /\ \/ /\ Len(replies) >= thread[t].reply.size
                 /\ replies' = Beyond(replies, thread[t].reply.size)
                 /\ Returned(t, BodyVerdict(t))
              \/ /\ Len(replies) < thread[t].reply.size /\ ServerGone /\ replies' = <<>>
                 /\ Returned(t, "closed")
<1>1. /\ thread[t].at = "body"
      /\ UNCHANGED <<client, requests, up, client_open, server, applied, faults>>
    BY Zenon DEF ReadBody
<1>2. CASE /\ Len(replies) >= thread[t].reply.size
           /\ replies' = Beyond(replies, thread[t].reply.size)
           /\ returns(t, BodyVerdict(t))
  <2>1. thread[t].reply.size \in Nat
    BY Zenon DEF TypeOK, Calls, Frames
  <2>2. replies' \in Seq(Units)
    BY <1>2, <2>1, BeyondFacts, Zenon DEF TypeOK
  <2> QED
    BY <1>1, <1>2, <2>2, ReturnTypes, Zenon
<1>3. CASE /\ Len(replies) < thread[t].reply.size /\ ServerGone /\ replies' = <<>>
           /\ returns(t, "closed")
  <2>1. replies' \in Seq(Units)
    BY <1>3
  <2> QED
    BY <1>1, <1>3, <2>1, ReturnTypes, Zenon
<1> QED
    BY <1>2, <1>3, Zenon DEF ReadBody, BodyVerdict

\* ServeHeader: a request is taken, or the connection ends.
LEMMA ServeHeaderFacts ==
    ASSUME TypeOK, ServeHeader
    PROVE  /\ TypeOK' /\ server.at = "header"
           /\ UNCHANGED <<client, thread, up, client_open, applied, results, faults>>
           /\ \/ /\ server'.at = "closed" /\ server'.frame = server.frame
                 /\ \E k \in Nat : Part(requests', k, requests)
                 /\ \/ Part(replies', 0, replies)
                    \/ Part(replies', 0, send_all(Reply(NoFrame, EmptySize, "header_rejected")))
              \/ /\ Len(requests) >= HeaderUnits /\ requests' = Beyond(requests, HeaderUnits)
                 /\ \E f \in decode_frame_header(Front(requests, HeaderUnits)) :
                       server'.at = "body" /\ server'.frame = f
                 /\ UNCHANGED replies
<1>1. /\ server.at = "header"
      /\ UNCHANGED <<client, thread, up, client_open, applied, results, faults>>
    BY Zenon DEF ServeHeader
<1> DEFINE z == Reply(NoFrame, EmptySize, "header_rejected")
           closing == /\ server'.at = "closed" /\ server'.frame = server.frame /\ server' \in Serving
                      /\ replies' \in Seq(Units)
                      /\ Part(replies', 0, replies) \/ Part(replies', 0, send_all(z))
<1>2. z \in Frames
    BY NoFrameType, RefusalType, Zenon
<1>3. closes(replies) => closing
    BY CloseFacts, Zenon DEF TypeOK
<1>4. closes(send_all(z)) => closing
    BY <1>2, CloseFacts, SendAllFacts, Zenon
<1> HIDE DEF z
<1>5. CASE Len(requests) >= HeaderUnits /\ requests' = Beyond(requests, HeaderUnits)
  <2>1. requests' \in Seq(Units) /\ \E k \in Nat : Part(requests', k, requests)
    BY <1>5, BeyondFacts, SessionAssumption, Zenon DEF TypeOK
  <2>2. CASE closing
    <3>1. TypeOK'
      BY <1>1, <2>1, <2>2, Zenon DEF TypeOK, client
    <3> QED
      BY <1>1, <2>1, <2>2, <3>1, Zenon DEF z
  <2>3. CASE \E f \in decode_frame_header(Front(requests, HeaderUnits)) :
                /\ server' = [server EXCEPT !.at = "body", !.frame = f]
                /\ UNCHANGED replies
    <3>1. PICK f \in decode_frame_header(Front(requests, HeaderUnits)) :
                /\ server' = [server EXCEPT !.at = "body", !.frame = f]
                /\ UNCHANGED replies
      BY <2>3, Zenon
    <3>2. f \in Frames
      BY <1>5, DecodeFacts, Zenon DEF TypeOK
    <3>3. server' \in Serving /\ server'.at = "body" /\ server'.frame = f
      BY <3>1, <3>2, Zenon DEF TypeOK, Serving
    <3>4. TypeOK'
      BY <1>1, <2>1, <3>1, <3>3, Zenon DEF TypeOK, client
    <3> QED
      BY <1>1, <1>5, <3>1, <3>3, <3>4, Zenon
  <2>4. ~(Len(requests) < HeaderUnits)
    BY <1>5, SeqFacts, SessionAssumption DEF TypeOK
  <2>5. \/ /\ decode_frame_header(Front(requests, HeaderUnits)) = {}
           /\ closes(send_all(z))
        \/ \E f \in decode_frame_header(Front(requests, HeaderUnits)) :
              IF f.size > server_max_frame_payload THEN closes(replies)
              ELSE /\ server' = [server EXCEPT !.at = "body", !.frame = f]
                   /\ UNCHANGED replies
    BY <2>4, Zenon DEF ServeHeader, z
  <2> HIDE DEF closing
  <2> QED
    BY <1>3, <1>4, <2>2, <2>3, <2>5, Zenon
<1>6. CASE /\ Len(requests) < HeaderUnits /\ ClientGone
           /\ requests' = <<>> /\ closes(replies)
  <2>1. requests' \in Seq(Units) /\ \E k \in Nat : Part(requests', k, requests)
    BY <1>6, TrivialParts DEF TypeOK
  <2>2. TypeOK' /\ closing
    BY <1>1, <1>3, <1>6, <2>1, Zenon DEF TypeOK, client
  <2> QED
    BY <1>1, <1>6, <2>1, <2>2, Zenon DEF z
<1> QED
    BY <1>5, <1>6, Zenon DEF ServeHeader

\* ServeBody: the request goes to dispatch, or the connection ends.
LEMMA ServeBodyFacts ==
    ASSUME TypeOK, ServeBody
    PROVE  /\ TypeOK' /\ server.at = "body" /\ server'.frame = server.frame
           /\ UNCHANGED <<client, thread, up, client_open, applied, results, faults>>
           /\ \E k \in Nat : Part(requests', k, requests)
           /\ \/ /\ server'.at = "closed"
                 /\ \/ Part(replies', 0, replies)
                    \/ Part(replies', 0, send_all(Reply(server.frame, EmptySize, "checksum")))
              \/ /\ server'.at = "dispatching" /\ UNCHANGED replies
                 /\ Len(requests) >= server.frame.size
                 /\ requests' = Beyond(requests, server.frame.size)
<1>1. /\ server.at = "body" /\ server.frame \in Frames /\ server.frame.size \in Nat
      /\ UNCHANGED <<client, thread, up, client_open, applied, results, faults>>
    BY Zenon DEF ServeBody, TypeOK, Serving, Frames
<1> DEFINE z == Reply(server.frame, EmptySize, "checksum")
           closing == /\ server'.at = "closed" /\ server'.frame = server.frame /\ server' \in Serving
                      /\ replies' \in Seq(Units)
                      /\ Part(replies', 0, replies) \/ Part(replies', 0, send_all(z))
           moved == requests' \in Seq(Units) /\ \E k \in Nat : Part(requests', k, requests)
<1>2. z \in Frames
    BY <1>1, RefusalType, Zenon
<1>3. closes(replies) => closing
    BY CloseFacts, Zenon DEF TypeOK
<1>4. closes(send_all(z)) => closing
    BY <1>2, CloseFacts, SendAllFacts, Zenon
<1> HIDE DEF z
<1>5. closing /\ moved => TypeOK'
    BY <1>1, Zenon DEF TypeOK, client
<1>6. CASE /\ Len(requests) >= server.frame.size
           /\ requests' = Beyond(requests, server.frame.size)
           /\ IF Front(requests, server.frame.size) = Payload(server.frame)
              THEN server' = [server EXCEPT !.at = "dispatching"] /\ UNCHANGED replies
              ELSE closes(send_all(z))
  <2>1. moved
    BY <1>1, <1>6, BeyondFacts, Zenon DEF TypeOK
  <2>2. CASE closing
    BY <1>1, <1>5, <2>1, <2>2, Zenon DEF z
  <2>3. CASE server' = [server EXCEPT !.at = "dispatching"] /\ UNCHANGED replies
    <3>1. server' \in Serving /\ server'.at = "dispatching" /\ server'.frame = server.frame
      BY <2>3, Zenon DEF TypeOK, Serving
    <3>2. TypeOK'
      BY <1>1, <2>1, <2>3, <3>1, Zenon DEF TypeOK, client
    <3> QED
      BY <1>1, <1>6, <2>1, <2>3, <3>1, <3>2, Zenon
  <2> HIDE DEF closing
  <2> QED
    BY <1>4, <1>6, <2>2, <2>3, Zenon
<1>7. CASE /\ Len(requests) < server.frame.size /\ ClientGone
           /\ requests' = <<>> /\ closes(replies)
  <2>1. moved
    BY <1>7, TrivialParts DEF TypeOK
  <2>2. closing
    BY <1>3, <1>7, Zenon
  <2> QED
    BY <1>1, <1>5, <2>1, <2>2, Zenon DEF z
<1> QED
    BY <1>6, <1>7, Zenon DEF ServeBody, z

LEMMA EnvelopeKinds ==
    ASSUME NEW opcode, NEW kind \in Envelopes(opcode)
    PROVE  kind \in {"answer", "unknown", "refused", "recorded", "malformed"}
    BY Zenon DEF Envelopes

\* dispatch: the registry is asked, unless the request does not decode, and a
\* reply is made.
LEMMA DispatchFacts ==
    ASSUME TypeOK, dispatch
    PROVE  /\ TypeOK' /\ server.at = "dispatching" /\ server'.at = "replying"
           /\ UNCHANGED <<client, thread, streams, up, client_open, results, faults>>
           /\ server'.frame.id = server.frame.id /\ server'.frame.opcode = server.frame.opcode
           /\ server'.frame.size > 0 /\ server'.frame.response
           /\ server'.frame.kind \in Envelopes(server.frame.opcode) \cup {"reply_too_large"}
           /\ \/ applied' = applied /\ server'.frame.kind # "answer"
              \/ \E e \in Entries :
                    /\ applied' = Append(applied, e) /\ e.id = server.frame.id
                    /\ e.opcode = server.frame.opcode
                    /\ server'.frame.kind = "answer" => e.kind = "answer"
<1>0. PICK f : f = server.frame
    BY Zenon
<1>1. /\ server.at = "dispatching" /\ f \in Frames /\ server \in Serving
      /\ UNCHANGED <<client, thread, streams, up, client_open, results, faults>>
    BY <1>0, Zenon DEF dispatch, TypeOK, Serving
<1>2. PICK kind \in Envelopes(f.opcode) :
        /\ applied' = IF kind = "malformed" THEN applied
                      ELSE Append(applied, [id |-> f.id, opcode |-> f.opcode, kind |-> kind])
        /\ \E size \in IF has_body(kind) THEN BodySizes ELSE {EmptySize} :
                  server' = [server EXCEPT !.at = "replying",
                               !.frame = IF size > server_max_frame_payload
                                         THEN Reply(f, EmptySize, "reply_too_large")
                                         ELSE Reply(f, size, kind)]
    BY <1>0, Zenon DEF dispatch
<1>3. PICK size : size \in BodySizes \cup {EmptySize} /\
                  server' = [server EXCEPT !.at = "replying",
                               !.frame = IF size > server_max_frame_payload
                                         THEN Reply(f, EmptySize, "reply_too_large")
                                         ELSE Reply(f, size, kind)]
    BY <1>2, Zenon
<1>4. PICK g : g = IF size > server_max_frame_payload
                   THEN Reply(f, EmptySize, "reply_too_large") ELSE Reply(f, size, kind)
    BY Zenon
<1>5. kind \in Kinds /\ "reply_too_large" \in Kinds /\ size \in Nat \ {0}
    BY <1>3, EnvelopeKinds, SessionAssumption DEF Kinds, EmptySize
<1>6. /\ g \in Frames /\ g.id = f.id /\ g.opcode = f.opcode /\ g.size > 0 /\ g.response
      /\ g.kind = kind \/ g.kind = "reply_too_large"
  <2>1. CASE size > server_max_frame_payload
    <3>1. g = Reply(f, 1, "reply_too_large")
      BY <1>4, <2>1, Zenon DEF EmptySize
    <3> QED
      BY <1>1, <1>5, <3>1, ReplyType
  <2>2. CASE ~(size > server_max_frame_payload)
    <3>1. g = Reply(f, size, kind)
      BY <1>4, <2>2, Zenon
    <3>2. size \in Nat /\ size > 0
      BY <1>5
    <3> QED
      BY <1>1, <1>5, <3>1, <3>2, ReplyType
  <2> QED
    BY <2>1, <2>2, Zenon
<1>7. server' = [server EXCEPT !.at = "replying", !.frame = g]
    BY <1>3, <1>4, Zenon
<1>8. server' \in Serving /\ server'.at = "replying" /\ server'.frame = g
    BY <1>1, <1>6, <1>7, Zenon DEF Serving
<1>9. PICK e : e = [id |-> f.id, opcode |-> f.opcode, kind |-> kind]
    BY Zenon
<1>10. e \in Entries /\ e.id = f.id /\ e.opcode = f.opcode /\ e.kind = kind
    BY <1>1, <1>5, <1>9, Zenon DEF Entries, Frames
<1>11. applied' = IF kind = "malformed" THEN applied ELSE Append(applied, e)
    BY <1>2, <1>9, Zenon
<1>12. applied' \in Seq(Entries)
    BY <1>10, <1>11 DEF TypeOK
<1>13. TypeOK'
    BY <1>1, <1>8, <1>12, Zenon DEF TypeOK, client, streams
<1>14. g.kind \in Envelopes(f.opcode) \cup {"reply_too_large"}
    BY <1>6, Zenon
<1>15. /\ server'.frame.id = f.id /\ server'.frame.opcode = f.opcode
       /\ server'.frame.size > 0 /\ server'.frame.response
       /\ server'.frame.kind \in Envelopes(f.opcode) \cup {"reply_too_large"}
    BY <1>6, <1>8, <1>14, Zenon
<1>16. \/ applied' = applied /\ server'.frame.kind # "answer"
       \/ \E d \in Entries :
             /\ applied' = Append(applied, d) /\ d.id = f.id /\ d.opcode = f.opcode
             /\ server'.frame.kind = "answer" => d.kind = "answer"
  <2>1. server'.frame.kind = "answer" => kind = "answer"
    BY <1>6, <1>8, Zenon
  <2>2. CASE kind = "malformed"
    BY <1>11, <2>1, <2>2, Zenon
  <2>3. CASE kind # "malformed"
    BY <1>10, <1>11, <2>1, <2>3, Zenon
  <2> QED
    BY <2>2, <2>3, Zenon
<1> QED
    BY <1>0, <1>1, <1>8, <1>13, <1>15, <1>16, Zenon

\* SendReply: the reply is written, and the connection may end.
LEMMA SendReplyFacts ==
    ASSUME TypeOK, SendReply
    PROVE  /\ TypeOK' /\ server.at = "replying"
           /\ UNCHANGED <<client, thread, requests, up, client_open, applied, results, faults>>
           /\ \/ /\ server'.at = "closed" /\ server'.frame = server.frame
                 /\ Part(replies', 0, send_all(server.frame))
              \/ /\ server'.at = "header" /\ server'.frame = NoFrame
                 /\ ~ClientGone /\ replies' = replies \o serialize_frame(server.frame)
<1>1. /\ server.at = "replying" /\ server.frame \in Frames /\ server.served \in Nat
      /\ UNCHANGED <<client, thread, requests, up, client_open, applied, results, faults>>
    BY Zenon DEF SendReply, TypeOK, Serving
<1>2. CASE closes(send_all(server.frame))
  <2>1. /\ server' \in Serving /\ server'.at = "closed" /\ server'.frame = server.frame
        /\ replies' \in Seq(Units) /\ Part(replies', 0, send_all(server.frame))
    BY <1>1, <1>2, CloseFacts, SendAllFacts, Zenon
  <2>2. TypeOK'
    BY <1>1, <2>1, Zenon DEF TypeOK, client
  <2> QED
    BY <1>1, <2>1, <2>2, Zenon
<1>3. CASE /\ ~ClientGone /\ replies' = send_all(server.frame)
           /\ server' = [at |-> "header", frame |-> NoFrame, served |-> server.served + 1]
  <2>1. replies' \in Seq(Units) /\ replies' = replies \o serialize_frame(server.frame)
    BY <1>1, <1>3, SendAllFacts, Zenon
  <2>2. server' \in Serving /\ server'.at = "header" /\ server'.frame = NoFrame
    BY <1>1, <1>3, NoFrameType DEF Serving
  <2>3. TypeOK'
    BY <1>1, <2>1, <2>2, Zenon DEF TypeOK, client
  <2> QED
    BY <1>1, <1>3, <2>1, <2>2, <2>3, Zenon
<1> QED
    BY <1>2, <1>3, Zenon DEF SendReply

\* The network and the end of the client.
LEMMA NetworkFacts ==
    ASSUME TypeOK, Disconnect \/ Lose \/ Damage
    PROVE  /\ TypeOK' /\ UNCHANGED <<client, thread, server, applied, results>>
           /\ Part(requests', 0, requests) /\ Part(replies', 0, replies)
           /\ up' => up
           /\ \/ Disconnect /\ UNCHANGED <<streams, up, faults>>
              \/ Lose /\ ~up' /\ faults' > 0
              \/ /\ Damage /\ up' = up /\ faults' > 0
                 /\ Len(requests') = Len(requests) /\ Len(replies') = Len(replies)
<1>1. CASE Disconnect
  <2>1. /\ client_open' = FALSE
        /\ UNCHANGED <<client, thread, streams, up, server, applied, results, faults>>
    BY <1>1, Zenon DEF Disconnect
  <2>2. Part(requests', 0, requests) /\ Part(replies', 0, replies)
    BY <2>1, TrivialParts, Zenon DEF TypeOK, streams
  <2>3. TypeOK'
    BY <2>1, Zenon DEF TypeOK, client, streams
  <2> QED
    BY <1>1, <2>1, <2>2, <2>3, Zenon
<1>2. CASE Lose
  <2>1. /\ faults' = faults + 1 /\ up' = FALSE
        /\ UNCHANGED <<client, thread, client_open, server, applied, results>>
    BY <1>2, Zenon DEF Lose
  <2>2. Len(requests) \in Nat /\ Len(replies) \in Nat
    BY SeqFacts, Zenon DEF TypeOK
  <2>3. PICK m \in 0 .. Len(requests) : requests' = SubSeq(requests, 1, m)
    BY <1>2, Zenon DEF Lose
  <2>4. PICK n \in 0 .. Len(replies) : replies' = SubSeq(replies, 1, n)
    BY <1>2, Zenon DEF Lose
  <2>5. requests' \in Seq(Units) /\ Part(requests', 0, requests)
    BY <2>2, <2>3, FrontFacts DEF TypeOK
  <2>6. replies' \in Seq(Units) /\ Part(replies', 0, replies)
    BY <2>2, <2>4, FrontFacts DEF TypeOK
  <2>7. TypeOK'
    <3>1. faults' \in Nat
      BY <2>1 DEF TypeOK
    <3>2. up' \in BOOLEAN
      BY <2>1, Zenon
    <3> QED
      BY <2>1, <2>5, <2>6, <3>1, <3>2, Zenon DEF TypeOK, client
  <2>8. faults' > 0
    BY <2>1 DEF TypeOK
  <2> QED
    BY <1>2, <2>1, <2>5, <2>6, <2>7, <2>8, Zenon
<1>3. CASE Damage
  <2>1. /\ faults' = faults + 1
        /\ UNCHANGED <<client, thread, up, client_open, server, applied, results>>
    BY <1>3, Zenon DEF Damage
  <2>2. CASE \E i \in DOMAIN requests :
                requests' = [requests EXCEPT ![i] = Noise] /\ UNCHANGED replies
    <3>1. requests' \in Seq(Units) /\ Part(requests', 0, requests) /\ Len(requests') = Len(requests)
      BY <2>2, DamageFacts, Zenon DEF TypeOK
    <3>2. replies' \in Seq(Units) /\ Part(replies', 0, replies) /\ Len(replies') = Len(replies)
      BY <2>2, TrivialParts, Zenon DEF TypeOK
    <3>3. TypeOK' /\ faults' > 0
      BY <2>1, <3>1, <3>2 DEF TypeOK, client
    <3> QED
      BY <1>3, <2>1, <3>1, <3>2, <3>3, Zenon
  <2>3. CASE \E i \in DOMAIN replies :
                replies' = [replies EXCEPT ![i] = Noise] /\ UNCHANGED requests
    <3>1. replies' \in Seq(Units) /\ Part(replies', 0, replies) /\ Len(replies') = Len(replies)
      BY <2>3, DamageFacts, Zenon DEF TypeOK
    <3>2. requests' \in Seq(Units) /\ Part(requests', 0, requests) /\ Len(requests') = Len(requests)
      BY <2>3, TrivialParts, Zenon DEF TypeOK
    <3>3. TypeOK' /\ faults' > 0
      BY <2>1, <3>1, <3>2 DEF TypeOK, client
    <3> QED
      BY <1>3, <2>1, <3>1, <3>2, <3>3, Zenon
  <2> QED
    BY <1>3, <2>2, <2>3, Zenon DEF Damage
<1> QED
    BY <1>1, <1>2, <1>3, Zenon

-----------------------------------------------------------------------------
(* Answers are own *)

LEMMA PartUnits ==
    ASSUME NEW w \in Seq(Units), NEW s, NEW k, Part(s, k, w), NEW i \in DOMAIN s
    PROVE  \/ s[i] = Noise
           \/ k + i \in DOMAIN w /\ s[i] = w[k + i]
<1>1. /\ s \in Seq(Units) /\ k \in Nat /\ Len(s) + k <= Len(w)
      /\ \A j \in 1 .. Len(s) : s[j] = w[k + j] \/ s[j] = Noise
    BY Zenon DEF Part
<1>2. /\ Len(s) \in Nat /\ Len(w) \in Nat /\ DOMAIN s = 1 .. Len(s) /\ DOMAIN w = 1 .. Len(w)
    BY <1>1, SeqFacts, Zenon
<1>3. i \in 1 .. Len(s) /\ k + i \in 1 .. Len(w)
    BY <1>1, <1>2
<1> QED
    BY <1>1, <1>2, <1>3, Zenon

\* Frames that may be in a stream to the client.
Fine(f) == f.id < next_request_id /\ Backed(f)

LEMMA FineNoise ==
    ASSUME OwnInv
    PROVE  Fine(Noise.of) /\ Noise.part = 0
    BY Zenon DEF Noise, NoFrame, Frame, Fine, Backed, BackedBy, OwnInv, IdsGiven, TypeOK

LEMMA FineReplies ==
    ASSUME OwnInv, NEW s, NEW k, Part(s, k, replies)
    PROVE  \A i \in DOMAIN s : Fine(s[i].of)
<1> SUFFICES ASSUME NEW i \in DOMAIN s PROVE Fine(s[i].of)
    BY Zenon
<1>1. \A j \in DOMAIN replies : Fine(replies[j].of)
    BY Zenon DEF OwnInv, IdsGiven, AnswersBacked, Fine
<1>2. replies \in Seq(Units)
    BY Zenon DEF OwnInv, TypeOK
<1>3. s[i] = Noise \/ (k + i \in DOMAIN replies /\ s[i] = replies[k + i])
    BY <1>2, PartUnits
<1> QED
    BY <1>1, <1>3, FineNoise, Zenon

\* What the server sends keeps the stream fine.
LEMMA FineSent ==
    ASSUME OwnInv, NEW f \in Frames, Fine(f), NEW s, Part(s, 0, send_all(f))
    PROVE  \A i \in DOMAIN s : Fine(s[i].of)
<1> SUFFICES ASSUME NEW i \in DOMAIN s PROVE Fine(s[i].of)
    BY Zenon
<1>1. PICK w : w = send_all(f)
    BY Zenon
<1>2. /\ w \in Seq(Units)
      /\ \A j \in DOMAIN w : w[j].of = f \/ (j \in DOMAIN replies /\ w[j] = replies[j])
    BY <1>1, SendAllFacts, Zenon DEF OwnInv
<1>3. s[i] = Noise \/ (0 + i \in DOMAIN w /\ s[i] = w[0 + i])
    BY <1>1, <1>2, PartUnits
<1>4. \A j \in DOMAIN replies : Fine(replies[j].of)
    BY Zenon DEF OwnInv, IdsGiven, AnswersBacked, Fine
<1>5. \A j \in DOMAIN w : Fine(w[j].of)
    BY <1>2, <1>4, Zenon
<1> QED
    BY <1>3, <1>5, FineNoise, Zenon

LEMMA RequestsKept ==
    ASSUME OwnInv, NEW k, Part(requests', k, requests)
    PROVE  \A i \in DOMAIN requests' :
               /\ requests'[i].of.id < next_request_id
               /\ requests'[i].part = 1 =>
                     k + i \in DOMAIN requests /\ requests'[i] = requests[k + i]
<1> SUFFICES ASSUME NEW i \in DOMAIN requests'
             PROVE  /\ requests'[i].of.id < next_request_id
                    /\ requests'[i].part = 1 =>
                          k + i \in DOMAIN requests /\ requests'[i] = requests[k + i]
    BY Zenon
<1>1. requests \in Seq(Units)
    BY Zenon DEF OwnInv, TypeOK
<1>2. PICK w : w = requests
    BY Zenon
<1>3. PICK s : s = requests'
    BY Zenon
<1>4. s[i] = Noise \/ (k + i \in DOMAIN w /\ s[i] = w[k + i])
    BY <1>1, <1>2, <1>3, PartUnits
<1>5. \A j \in DOMAIN w : w[j].of.id < next_request_id
    BY <1>2, Zenon DEF OwnInv, IdsGiven
<1>6. Noise.of.id < next_request_id /\ Noise.part = 0
    BY FineNoise, Zenon DEF Fine
<1> QED
    BY <1>2, <1>3, <1>4, <1>5, <1>6

\* The server has taken no request out of the stream.
LEMMA HeadersKept ==
    ASSUME OwnInv, TypeOK', NEW k, Part(requests', k, requests), applied' = applied,
           server'.at \in {"body", "dispatching"} =>
               server.at \in {"body", "dispatching"} /\ server'.frame = server.frame
    PROVE  HeadersOnce'
<1>1. HeadersOnce /\ k \in Nat
    BY Zenon DEF OwnInv, Part
<1>2. \A i \in DOMAIN requests' : requests'[i].part = 1 =>
          k + i \in DOMAIN requests /\ requests'[i] = requests[k + i]
    BY RequestsKept, Zenon
<1>3. \A i \in DOMAIN requests' : i \in Nat
    BY SeqFacts DEF TypeOK
<1>4. ASSUME NEW i \in DOMAIN requests', NEW j \in DOMAIN requests', requests'[i].part = 1,
             requests'[j].part = 1, requests'[i].of.id = requests'[j].of.id
      PROVE  i = j
  <2>1. k + i = k + j
    BY <1>1, <1>2, <1>4 DEF HeadersOnce
  <2> QED
    BY <1>1, <1>3, <2>1
<1>5. ASSUME NEW i \in DOMAIN requests', requests'[i].part = 1
      PROVE  /\ \A j \in DOMAIN applied' : applied'[j].id # requests'[i].of.id
             /\ server'.at \in {"body", "dispatching"} => server'.frame.id # requests'[i].of.id
    BY <1>1, <1>2, <1>5 DEF HeadersOnce
<1>6. /\ server'.at \in {"body", "dispatching"} =>
            \A j \in DOMAIN applied' : applied'[j].id # server'.frame.id
      /\ \A i, j \in DOMAIN applied' : applied'[i].id = applied'[j].id => i = j
    BY <1>1, Zenon DEF HeadersOnce
<1> QED
    BY <1>4, <1>5, <1>6, Zenon DEF HeadersOnce

\* Only results and the log bear on whose answers were returned.
LEMMA OwnKept ==
    ASSUME AnswersAreOwn, results' = results, applied' = applied
    PROVE  AnswersAreOwn'
    BY Zenon DEF AnswersAreOwn

\* Steps of the server and the network that neither take a request out of the
\* stream nor ask the registry.
LEMMA QuietOwn ==
    ASSUME OwnInv, TypeOK', UNCHANGED <<client, thread, applied, results>>,
           NEW k, Part(requests', k, requests),
           \A i \in DOMAIN replies' : Fine(replies'[i].of),
           server'.frame.id < next_request_id, server'.at # "replying" \/ server' = server,
           server'.at \in {"body", "dispatching"} =>
               server.at \in {"body", "dispatching"} /\ server'.frame = server.frame
    PROVE  OwnInv'
<1>1. HeadersOnce'
    BY HeadersKept, Zenon
<1>2. next_request_id' = next_request_id
    BY Zenon DEF client
<1>3. IdsGiven'
    BY <1>2, RequestsKept, Zenon DEF OwnInv, IdsGiven, Fine, InFlight
<1>4. AnswersBacked'
    BY DEF OwnInv, AnswersBacked, Fine, Backed, BackedBy
<1>5. AnswersAreOwn'
    BY OwnKept, Zenon DEF OwnInv
<1>6. AskedSince'
    BY Zenon DEF OwnInv, AskedSince, InFlight
<1> QED
    BY <1>1, <1>3, <1>4, <1>5, <1>6, Zenon DEF OwnInv

LEMMA ServeHeaderOwn ==
    ASSUME OwnInv, ServeHeader
    PROVE  OwnInv'
<1>1. TypeOK /\ server.frame \in Frames /\ server.frame.id < next_request_id
    BY Zenon DEF OwnInv, TypeOK, Serving, IdsGiven
<1>2. /\ TypeOK' /\ UNCHANGED <<client, thread, applied, results>>
    BY <1>1, ServeHeaderFacts, Zenon
<1>3. CASE /\ server'.at = "closed" /\ server'.frame = server.frame
           /\ \E k \in Nat : Part(requests', k, requests)
           /\ \/ Part(replies', 0, replies)
              \/ Part(replies', 0, send_all(Reply(NoFrame, EmptySize, "header_rejected")))
  <2>1. PICK k \in Nat : Part(requests', k, requests)
    BY <1>3, Zenon
  <2>2. PICK z : z = Reply(NoFrame, EmptySize, "header_rejected")
    BY Zenon
  <2>3. z \in Frames /\ z.id = NoFrame.id /\ z.kind = "header_rejected"
    BY <2>2, NoFrameType, RefusalType, Zenon
  <2>4. NoFrame.id = 0
    BY Zenon DEF NoFrame, Frame
  <2>5. Fine(z)
    BY <2>3, <2>4, Zenon DEF Fine, Backed, BackedBy, OwnInv, IdsGiven
  <2>6. \A i \in DOMAIN replies' : Fine(replies'[i].of)
    BY <1>3, <2>2, <2>3, <2>5, FineSent, FineReplies, Zenon
  <2> QED
    BY <1>1, <1>2, <1>3, <2>1, <2>6, QuietOwn, Zenon
<1>4. CASE /\ Len(requests) >= HeaderUnits /\ requests' = Beyond(requests, HeaderUnits)
           /\ \E f \in decode_frame_header(Front(requests, HeaderUnits)) :
                 server'.at = "body" /\ server'.frame = f
           /\ UNCHANGED replies
  <2>1. PICK f \in decode_frame_header(Front(requests, HeaderUnits)) :
            server'.at = "body" /\ server'.frame = f
    BY <1>4, Zenon
  <2>2. requests \in Seq(Units) /\ HeaderUnits \in Nat \ {0} /\ Len(requests) \in Nat
        /\ DOMAIN requests = 1 .. Len(requests)
    BY <1>1, SessionAssumption, SeqFacts, Zenon DEF TypeOK
  <2>3. f = requests[1].of /\ requests[1].part = 1 /\ 1 \in DOMAIN requests
    BY <1>4, <2>2, DecodeFacts
  <2>4. Part(requests', HeaderUnits, requests)
    BY <1>4, <2>2, BeyondFacts, Zenon
  <2>5. \A i \in DOMAIN requests' :
            /\ requests'[i].of.id < next_request_id
            /\ requests'[i].part = 1 =>
                  HeaderUnits + i \in DOMAIN requests /\ requests'[i] = requests[HeaderUnits + i]
    BY <2>4, RequestsKept, Zenon
  <2>6. \A i \in DOMAIN requests' : i \in Nat \ {0}
    BY <1>2, SeqFacts DEF TypeOK
  <2>7. HeadersOnce
    BY Zenon DEF OwnInv
  <2>8. ASSUME NEW i \in DOMAIN requests', NEW j \in DOMAIN requests', requests'[i].part = 1,
               requests'[j].part = 1, requests'[i].of.id = requests'[j].of.id
        PROVE  i = j
    <3>1. HeaderUnits + i = HeaderUnits + j
      BY <2>5, <2>7, <2>8 DEF HeadersOnce
    <3> QED
      BY <2>2, <2>6, <3>1
  <2>9. ASSUME NEW i \in DOMAIN requests', requests'[i].part = 1
        PROVE  /\ \A j \in DOMAIN applied' : applied'[j].id # requests'[i].of.id
               /\ server'.frame.id # requests'[i].of.id
    <3>1. HeaderUnits + i # 1
      BY <2>2, <2>6
    <3>2. requests[HeaderUnits + i].of.id # f.id
      BY <2>3, <2>5, <2>7, <2>9, <3>1, Zenon DEF HeadersOnce
    <3>3. \A j \in DOMAIN applied : applied[j].id # requests[HeaderUnits + i].of.id
      BY <2>5, <2>7, <2>9, Zenon DEF HeadersOnce
    <3> QED
      BY <1>2, <2>1, <2>5, <2>9, <3>2, <3>3, Zenon
  <2>10. \A j \in DOMAIN applied' : applied'[j].id # server'.frame.id
    BY <1>2, <2>1, <2>3, <2>7 DEF HeadersOnce
  <2>11. \A i, j \in DOMAIN applied' : applied'[i].id = applied'[j].id => i = j
    BY <1>2, <2>7, Zenon DEF HeadersOnce
  <2>12. HeadersOnce'
    BY <2>8, <2>9, <2>10, <2>11, Zenon DEF HeadersOnce
  <2>13. f.id < next_request_id
    BY <2>3, Zenon DEF OwnInv, IdsGiven
  <2>14. IdsGiven'
    BY <1>2, <1>4, <2>1, <2>5, <2>13, Zenon DEF OwnInv, IdsGiven, InFlight, client
  <2>15. AnswersBacked' /\ AskedSince'
    BY <1>2, <1>4, <2>1 DEF OwnInv, AnswersBacked, Backed, BackedBy, AskedSince, InFlight
  <2>16. AnswersAreOwn'
    BY <1>2, <1>4, <2>1, OwnKept, Zenon DEF OwnInv
  <2> QED
    BY <1>2, <2>12, <2>14, <2>15, <2>16, Zenon DEF OwnInv
<1> QED
    BY <1>1, <1>3, <1>4, ServeHeaderFacts, Zenon

LEMMA ServeBodyOwn ==
    ASSUME OwnInv, ServeBody
    PROVE  OwnInv'
<1>1. TypeOK /\ server.frame \in Frames /\ server.frame.id < next_request_id
    BY Zenon DEF OwnInv, TypeOK, Serving, IdsGiven
<1>2. /\ TypeOK' /\ UNCHANGED <<client, thread, applied, results>>
      /\ server.at = "body" /\ server'.frame = server.frame
      /\ server'.at \in {"closed", "dispatching"}
    BY <1>1, ServeBodyFacts, Zenon
<1>3. PICK k \in Nat : Part(requests', k, requests)
    BY <1>1, ServeBodyFacts, Zenon
<1>4. PICK z : z = Reply(server.frame, EmptySize, "checksum")
    BY Zenon
<1>5. z \in Frames /\ Fine(z)
  <2>1. z \in Frames /\ z.id = server.frame.id /\ z.kind = "checksum"
    BY <1>1, <1>4, RefusalType, Zenon
  <2> QED
    BY <1>1, <2>1, Zenon DEF Fine, Backed, BackedBy
<1>6. \A i \in DOMAIN replies' : Fine(replies'[i].of)
  <2>1. \/ Part(replies', 0, replies) \/ Part(replies', 0, send_all(z)) \/ UNCHANGED replies
    BY <1>1, <1>4, ServeBodyFacts, Zenon
  <2>2. UNCHANGED replies => Part(replies', 0, replies)
    BY <1>1, TrivialParts, Zenon DEF TypeOK
  <2> QED
    BY <1>5, <2>1, <2>2, FineSent, FineReplies, Zenon
<1> QED
    BY <1>1, <1>2, <1>3, <1>6, QuietOwn, Zenon

LEMMA SendReplyOwn ==
    ASSUME OwnInv, SendReply
    PROVE  OwnInv'
<1>1. TypeOK /\ server.frame \in Frames /\ server.frame.id < next_request_id
      /\ next_request_id > 0
    BY Zenon DEF OwnInv, TypeOK, Serving, IdsGiven
<1>2. /\ TypeOK' /\ UNCHANGED <<client, thread, requests, applied, results>>
      /\ server.at = "replying" /\ server'.at \in {"closed", "header"}
      /\ server'.frame = server.frame \/ server'.frame = NoFrame
    BY <1>1, SendReplyFacts, Zenon
<1>3. NoFrame.id = 0
    BY Zenon DEF NoFrame, Frame
<1>4. Part(requests', 0, requests)
    BY <1>1, <1>2, TrivialParts, Zenon DEF TypeOK
<1>5. Fine(server.frame)
    BY <1>1, <1>2, Zenon DEF Fine, OwnInv, AnswersBacked
<1>6. Part(replies', 0, send_all(server.frame))
  <2>1. CASE replies' = replies \o serialize_frame(server.frame) /\ ~ClientGone
    BY <1>1, <2>1, SendAllFacts, TrivialParts, Zenon
  <2> QED
    BY <1>1, <2>1, SendReplyFacts, Zenon
<1>7. \A i \in DOMAIN replies' : Fine(replies'[i].of)
    BY <1>1, <1>5, <1>6, FineSent, Zenon
<1>8. server'.frame.id < next_request_id
    BY <1>1, <1>2, <1>3, Zenon
<1> QED
    BY <1>2, <1>4, <1>7, <1>8, QuietOwn, Zenon

LEMMA NetworkOwn ==
    ASSUME OwnInv, Disconnect \/ Lose \/ Damage
    PROVE  OwnInv'
<1>1. TypeOK /\ server.frame.id < next_request_id
    BY Zenon DEF OwnInv, IdsGiven
<1>2. /\ TypeOK' /\ UNCHANGED <<client, thread, server, applied, results>>
      /\ Part(requests', 0, requests) /\ Part(replies', 0, replies)
    BY <1>1, NetworkFacts, Zenon
<1>3. \A i \in DOMAIN replies' : Fine(replies'[i].of)
    BY <1>2, FineReplies, Zenon
<1> QED
    BY <1>1, <1>2, <1>3, QuietOwn, Zenon

\* What was said before a step is backed after it.
WasBacked(f) ==
    /\ f.kind = "answer" => \E i \in DOMAIN applied' :
          applied'[i].id = f.id /\ applied'[i].opcode = f.opcode /\ applied'[i].kind = "answer"
    /\ f.kind = "header_rejected" => f.id = 0

\* A registry call more takes nothing from what backs a frame.
LEMMA BackedKept ==
    ASSUME NEW e \in Entries, applied \in Seq(Entries), applied' = Append(applied, e),
           NEW f, Backed(f)
    PROVE  WasBacked(f)
<1>1. \A i \in DOMAIN applied : i \in DOMAIN applied' /\ applied'[i] = applied[i]
    OBVIOUS
<1> QED
    BY <1>1, Zenon DEF Backed, BackedBy, WasBacked

\* An answered call has an entry in the log.
LEMMA OwnEntry ==
    ASSUME AnswersAreOwn, NEW r \in results, r.got = "answer"
    PROVE  \E i \in DOMAIN applied : applied[i].id = r.id
    BY Zenon DEF AnswersAreOwn

LEMMA DispatchOwn ==
    ASSUME OwnInv, dispatch
    PROVE  OwnInv'
<1>1. TypeOK /\ IdsGiven /\ HeadersOnce /\ AnswersBacked /\ AskedSince /\ AnswersAreOwn
    BY Zenon DEF OwnInv
<1>2. /\ TypeOK' /\ server.at = "dispatching" /\ server'.at = "replying"
      /\ UNCHANGED <<client, thread, streams, up, client_open, results, faults>>
      /\ server'.frame.id = server.frame.id /\ server'.frame.opcode = server.frame.opcode
      /\ server'.frame.size > 0
      /\ server'.frame.kind \in Envelopes(server.frame.opcode) \cup {"reply_too_large"}
    BY <1>1, DispatchFacts, Zenon
<1>3. server'.frame.kind # "header_rejected"
    BY <1>2, EnvelopeKinds, Zenon
<1>4. /\ requests' = requests /\ replies' = replies /\ next_request_id' = next_request_id
      /\ thread' = thread /\ results' = results
    BY <1>2, Zenon DEF client, streams
<1>5. CASE applied' = applied /\ server'.frame.kind # "answer"
  <2>1. HeadersOnce' /\ IdsGiven'
    BY <1>1, <1>2, <1>4, <1>5, Zenon DEF HeadersOnce, IdsGiven, InFlight
  <2>2. AnswersBacked'
    BY <1>1, <1>2, <1>3, <1>4, <1>5 DEF AnswersBacked, Backed, BackedBy
  <2>3. AskedSince'
    BY <1>1, <1>4, <1>5, Zenon DEF AskedSince, InFlight
  <2>4. AnswersAreOwn'
    BY <1>1, <1>4, <1>5, OwnKept, Zenon
  <2> QED
    BY <1>2, <2>1, <2>2, <2>3, <2>4, Zenon DEF OwnInv
<1>6. CASE \E e \in Entries :
             /\ applied' = Append(applied, e) /\ e.id = server.frame.id
             /\ e.opcode = server.frame.opcode
             /\ server'.frame.kind = "answer" => e.kind = "answer"
  <2>1. PICK e \in Entries :
             /\ applied' = Append(applied, e) /\ e.id = server.frame.id
             /\ e.opcode = server.frame.opcode
             /\ server'.frame.kind = "answer" => e.kind = "answer"
    BY <1>6, Zenon
  <2>2. PICK n \in Nat : n = Len(applied)
    BY <1>1, SeqFacts, Zenon DEF TypeOK
  <2>3. /\ DOMAIN applied = 1 .. n /\ DOMAIN applied' = 1 .. n + 1 /\ applied'[n + 1] = e
        /\ \A i \in 1 .. n : applied'[i] = applied[i]
    BY <1>1, <2>1, <2>2 DEF TypeOK
  <2>4. \A i \in DOMAIN applied' : i = n + 1 \/ (i \in DOMAIN applied /\ i <= n)
    BY <2>2, <2>3
  <2>5. \A i \in DOMAIN applied : applied[i].id # e.id
    BY <1>1, <1>2, <2>1, Zenon DEF HeadersOnce
  <2>6. \A i \in DOMAIN requests : requests[i].part = 1 => requests[i].of.id # e.id
    BY <1>1, <1>2, <2>1, Zenon DEF HeadersOnce
  <2>7. \A i, j \in DOMAIN applied' : applied'[i].id = applied'[j].id => i = j
    <3> SUFFICES ASSUME NEW i \in DOMAIN applied', NEW j \in DOMAIN applied',
                        applied'[i].id = applied'[j].id
                 PROVE  i = j
      BY Zenon
    <3>1. CASE i \in DOMAIN applied /\ j \in DOMAIN applied
      BY <1>1, <2>3, <3>1, Zenon DEF HeadersOnce
    <3>2. CASE i = n + 1 \/ j = n + 1
      BY <2>3, <2>4, <2>5, <3>2, Zenon
    <3> QED
      BY <2>4, <3>1, <3>2, Zenon
  <2>8. \A i \in DOMAIN requests : requests[i].part = 1 =>
            \A j \in DOMAIN applied' : applied'[j].id # requests[i].of.id
    BY <1>1, <2>3, <2>4, <2>6 DEF HeadersOnce
  <2>9. HeadersOnce'
    BY <1>1, <1>2, <1>4, <2>7, <2>8, Zenon DEF HeadersOnce
  <2>10. \A i \in DOMAIN applied' : applied'[i].id < next_request_id
    BY <1>1, <2>1, <2>3, <2>4, Zenon DEF IdsGiven
  <2>11. IdsGiven'
    BY <1>1, <1>2, <1>4, <2>10, Zenon DEF IdsGiven, InFlight
  <2>12. AnswersBacked'
    <3>1. applied \in Seq(Entries)
      BY <1>1, Zenon DEF TypeOK
    <3>2. /\ server'.frame.kind = "answer" => \E i \in DOMAIN applied' :
                /\ applied'[i].id = server'.frame.id /\ applied'[i].opcode = server'.frame.opcode
                /\ applied'[i].kind = "answer"
      <4>1. n + 1 \in DOMAIN applied'
        BY <2>2, <2>3
      <4> QED
        BY <1>2, <2>1, <2>3, <4>1, Zenon
    <3>3. (\A i \in DOMAIN replies : Backed(replies[i].of))'
      <4>1. ASSUME NEW i \in DOMAIN replies PROVE WasBacked(replies[i].of)
        BY <1>1, <2>1, <3>1, BackedKept, Zenon DEF AnswersBacked
      <4> QED
        BY <1>4, <4>1, Zenon DEF Backed, BackedBy, WasBacked
    <3>4. (\A t \in Thread : thread[t].at = "body" => Backed(thread[t].reply))'
      <4>1. ASSUME NEW t \in Thread, thread[t].at = "body" PROVE WasBacked(thread[t].reply)
        BY <1>1, <2>1, <3>1, <4>1, BackedKept, Zenon DEF AnswersBacked
      <4> QED
        BY <1>4, <4>1, Zenon DEF Backed, BackedBy, WasBacked
    <3>5. Backed(server.frame)'
      BY <1>3, <3>2, Zenon DEF Backed, BackedBy
    <3> QED
      BY <1>1, <1>2, <1>4, <3>3, <3>4, <3>5, Zenon DEF AnswersBacked
  <2>13. AskedSince'
    <3> SUFFICES ASSUME NEW t \in Thread, InFlight(t)
                 PROVE  /\ thread[t].since <= n + 1
                        /\ \A i \in DOMAIN applied' : applied'[i].id = thread[t].id =>
                               i > thread[t].since
      BY <1>4, <2>1, <2>2, <1>1 DEF AskedSince, InFlight, TypeOK
    <3>1. thread[t].since \in Nat /\ thread[t].since <= n
      BY <1>1, <2>2, Zenon DEF AskedSince, TypeOK, Calls
    <3>2. \A i \in DOMAIN applied : applied[i].id = thread[t].id => i > thread[t].since
      BY <1>1, Zenon DEF AskedSince
    <3> QED
      BY <2>2, <2>3, <2>4, <3>1, <3>2
  <2>14. AnswersAreOwn'
    <3> SUFFICES ASSUME NEW r \in results, r.got = "answer"
                 PROVE  \E i \in DOMAIN applied' :
                            /\ \A j \in DOMAIN applied' : applied'[j].id = r.id <=> j = i
                            /\ i > r.since /\ i <= r.until
                            /\ applied'[i].opcode = r.opcode /\ applied'[i].kind = "answer"
      BY <1>4, Zenon DEF AnswersAreOwn
    <3>1. r.id # e.id
      BY <1>1, <2>5, OwnEntry, Zenon
    <3>2. PICK i \in DOMAIN applied :
              /\ \A j \in DOMAIN applied : applied[j].id = r.id <=> j = i
              /\ i > r.since /\ i <= r.until
              /\ applied[i].opcode = r.opcode /\ applied[i].kind = "answer"
      BY <1>1, Zenon DEF AnswersAreOwn
    <3>3. i \in DOMAIN applied' /\ applied'[i] = applied[i]
      BY <2>2, <2>3
    <3>4. \A j \in DOMAIN applied' : applied'[j].id = r.id <=> j = i
      BY <2>2, <2>3, <2>4, <3>1, <3>2, Zenon
    <3> QED
      BY <3>2, <3>3, <3>4, Zenon
  <2> QED
    BY <1>2, <2>9, <2>11, <2>12, <2>13, <2>14, Zenon DEF OwnInv
<1> QED
    BY <1>1, <1>5, <1>6, DispatchFacts, Zenon

LEMMA CallOwn ==
    ASSUME OwnInv, NEW t \in Thread, Call(t)
    PROVE  OwnInv'
<1>1. TypeOK /\ IdsGiven /\ HeadersOnce /\ AnswersBacked /\ AskedSince /\ AnswersAreOwn
    BY Zenon DEF OwnInv
<1>2. /\ TypeOK' /\ thread'[t].at \in {"idle", "locking"}
      /\ thread'[t].id = 0 \/ thread'[t].id = thread[t].id
      /\ \A u \in Thread \ {t} : thread'[u] = thread[u]
      /\ UNCHANGED <<client, streams, up, client_open, server, applied, results, faults>>
    BY <1>1, CallFacts, Zenon
<1>3. /\ requests' = requests /\ replies' = replies /\ next_request_id' = next_request_id
    BY <1>2, Zenon DEF client, streams
<1>4. \A u \in Thread : InFlight(u)' => InFlight(u) /\ thread'[u] = thread[u]
    BY <1>2, Zenon DEF InFlight
<1>5. ASSUME NEW u \in Thread PROVE thread'[u].id < next_request_id
  <2>1. thread[u].id < next_request_id /\ thread[t].id < next_request_id /\ 0 < next_request_id
    BY <1>1, Zenon DEF IdsGiven, InFlight
  <2> QED
    BY <1>2, <2>1, Zenon
<1>6. IdsGiven' /\ HeadersOnce'
    BY <1>1, <1>2, <1>3, <1>4, <1>5 DEF IdsGiven, HeadersOnce
<1>7. AnswersBacked'
    BY <1>1, <1>2, <1>3 DEF AnswersBacked, Backed, BackedBy
<1>8. AskedSince'
    BY <1>1, <1>2, <1>4, Zenon DEF AskedSince
<1>9. AnswersAreOwn'
    BY <1>1, <1>2, OwnKept, Zenon
<1> QED
    BY <1>2, <1>6, <1>7, <1>8, <1>9, Zenon DEF OwnInv

LEMMA SendOwn ==
    ASSUME OwnInv, NEW t \in Thread, Send(t)
    PROVE  OwnInv'
<1>1. TypeOK /\ IdsGiven /\ HeadersOnce /\ AnswersBacked /\ AskedSince /\ AnswersAreOwn
      /\ next_request_id \in Nat
    BY Zenon DEF OwnInv, TypeOK
<1>2. PICK f : f = Frame(thread[t].opcode, next_request_id, thread[t].size, FALSE, "request")
    BY Zenon
<1>3. f \in Frames /\ f.id = next_request_id
    BY <1>1, <1>2, RequestType, Zenon
<1>4. /\ TypeOK' /\ next_request_id' = next_request_id + 1
      /\ \A u \in Thread \ {t} : thread'[u] = thread[u]
      /\ UNCHANGED <<replies, server, applied>>
    BY <1>1, SendFacts, Zenon
<1>5. thread \in [Thread -> Calls] /\ thread' \in [Thread -> Calls] /\ replies \in Seq(Units)
      /\ applied \in Seq(Entries) /\ server \in Serving /\ requests \in Seq(Units)
    BY <1>1, <1>4, Zenon DEF TypeOK
<1>6. /\ \A u \in Thread : thread[u].id \in Nat
      /\ \A i \in DOMAIN replies : replies[i].of.id \in Nat
      /\ \A i \in DOMAIN requests : requests[i].of.id \in Nat
      /\ \A i \in DOMAIN applied : applied[i].id \in Nat
      /\ server.frame.id \in Nat /\ \A r \in results : r.id \in Nat
  <2>1. \A u \in Thread : thread[u].id \in Nat
    BY <1>5, Zenon DEF Calls
  <2>2. \A i \in DOMAIN replies : replies[i].of.id \in Nat
    <3>1. \A i \in DOMAIN replies : replies[i] \in Units
      BY <1>5, SeqFacts, Zenon
    <3> QED
      BY <3>1, Zenon DEF Units, Frames
  <2>3. \A i \in DOMAIN requests : requests[i].of.id \in Nat
    <3>1. \A i \in DOMAIN requests : requests[i] \in Units
      BY <1>5, SeqFacts, Zenon
    <3> QED
      BY <3>1, Zenon DEF Units, Frames
  <2>4. \A i \in DOMAIN applied : applied[i].id \in Nat
    <3>1. \A i \in DOMAIN applied : applied[i] \in Entries
      BY <1>5, SeqFacts, Zenon
    <3> QED
      BY <3>1, Zenon DEF Entries
  <2>5. server.frame.id \in Nat /\ \A r \in results : r.id \in Nat
    BY <1>1, <1>5, Zenon DEF Serving, Frames, TypeOK
  <2> QED
    BY <2>1, <2>2, <2>3, <2>4, <2>5, Zenon
<1>7. requests' = requests \/ requests' = requests \o serialize_frame(f)
    BY <1>1, <1>2, SendFacts, Zenon
<1>8. \A i \in DOMAIN requests' :
         \/ i \in DOMAIN requests /\ requests'[i] = requests[i]
         \/ \E j \in Nat : i = Len(requests) + j /\ requests'[i] = [part |-> j, of |-> f]
  <2>1. CASE requests' = requests
    BY <2>1, Zenon
  <2>2. CASE requests' = requests \o serialize_frame(f)
    <3>1. /\ Len(requests') = Len(requests) + HeaderUnits + f.size
          /\ \A i \in 1 .. Len(requests) : requests'[i] = requests[i]
          /\ \A i \in 1 .. HeaderUnits + f.size : requests'[Len(requests) + i] = [part |-> i, of |-> f]
      BY <1>3, <1>5, <2>2, SentFacts, ZenonT(30)
    <3>2. /\ Len(requests) \in Nat /\ DOMAIN requests = 1 .. Len(requests)
          /\ DOMAIN requests' = 1 .. Len(requests') /\ HeaderUnits \in Nat /\ f.size \in Nat
      BY <1>3, <1>4, <1>5, SeqFacts, SessionAssumption, Zenon DEF Frames, TypeOK
    <3> SUFFICES ASSUME NEW i \in DOMAIN requests', ~(i \in DOMAIN requests)
                 PROVE  \E j \in Nat : i = Len(requests) + j /\ requests'[i] = [part |-> j, of |-> f]
      BY <3>1, <3>2, Zenon
    <3>3. i - Len(requests) \in 1 .. HeaderUnits + f.size /\ i = Len(requests) + (i - Len(requests))
      BY <3>1, <3>2
    <3>4. PICK j \in 1 .. HeaderUnits + f.size : i = Len(requests) + j
      BY <3>3, Zenon
    <3>5. j \in Nat
      OBVIOUS
    <3> QED
      BY <3>1, <3>4, <3>5, Zenon
  <2> QED
    BY <1>7, <2>1, <2>2, Zenon
<1>9. \A i \in DOMAIN requests' : requests'[i].of.id < next_request_id + 1
    BY <1>1, <1>3, <1>6, <1>8 DEF IdsGiven
<1>10. HeadersOnce'
  <2>1. ASSUME NEW i \in DOMAIN requests', NEW j \in DOMAIN requests', requests'[i].part = 1,
               requests'[j].part = 1, requests'[i].of.id = requests'[j].of.id
        PROVE  i = j
    <3>1. CASE i \in DOMAIN requests /\ requests'[i] = requests[i]
      <4>1. requests'[j].of.id # next_request_id
        BY <1>1, <1>6, <2>1, <3>1 DEF IdsGiven
      <4>2. j \in DOMAIN requests /\ requests'[j] = requests[j]
        BY <1>3, <1>8, <4>1
      <4> QED
        BY <1>1, <2>1, <3>1, <4>2, Zenon DEF HeadersOnce
    <3>2. CASE \E m \in Nat : i = Len(requests) + m /\ requests'[i] = [part |-> m, of |-> f]
      <4>1. requests'[j].of.id = next_request_id /\ i = Len(requests) + 1
        BY <1>3, <2>1, <3>2
      <4>2. ~(j \in DOMAIN requests /\ requests'[j] = requests[j])
        BY <1>1, <1>6, <4>1 DEF IdsGiven
      <4>3. j = Len(requests) + 1
        BY <1>8, <2>1, <4>2
      <4> QED
        BY <4>1, <4>3, Zenon
    <3> QED
      BY <1>8, <3>1, <3>2, Zenon
  <2>2. ASSUME NEW i \in DOMAIN requests', requests'[i].part = 1
        PROVE  /\ \A j \in DOMAIN applied : applied[j].id # requests'[i].of.id
               /\ server.at \in {"body", "dispatching"} => server.frame.id # requests'[i].of.id
    <3>1. CASE i \in DOMAIN requests /\ requests'[i] = requests[i]
      BY <1>1, <2>2, <3>1, Zenon DEF HeadersOnce
    <3>2. CASE requests'[i].of = f
      BY <1>1, <1>3, <1>6, <3>2 DEF IdsGiven
    <3> QED
      BY <1>8, <3>1, <3>2
  <2>3. /\ server.at \in {"body", "dispatching"} =>
              \A j \in DOMAIN applied : applied[j].id # server.frame.id
        /\ \A i, j \in DOMAIN applied : applied[i].id = applied[j].id => i = j
    BY <1>1, Zenon DEF HeadersOnce
  <2> QED
    BY <1>4, <2>1, <2>2, <2>3, Zenon DEF HeadersOnce
<1>11. /\ AnswersBacked' /\ AskedSince'
       /\ \A u \in Thread : thread'[u].id < next_request_id + 1
       /\ \A u \in Thread : InFlight(u)' => thread'[u].id > 0
  <2>1. \/ /\ thread'[t].at = "header" /\ thread'[t].id = next_request_id
           /\ thread'[t].since = Len(applied)
        \/ thread'[t] = idle
    BY <1>1, SendFacts, Zenon
  <2>2. thread'[t].at # "body"
    BY <2>1, IdleType, Zenon
  <2>3. AnswersBacked'
    BY <1>1, <1>4, <2>2 DEF AnswersBacked, Backed, BackedBy
  <2>4. /\ thread'[t].id < next_request_id + 1
        /\ InFlight(t)' => /\ thread'[t].id > 0 /\ thread'[t].id = next_request_id
                           /\ thread'[t].since = Len(applied)
    BY <1>1, <2>1, IdleType DEF IdsGiven, InFlight
  <2>5. ASSUME NEW u \in Thread
        PROVE  /\ thread'[u].id < next_request_id + 1
               /\ InFlight(u)' => thread'[u].id > 0
    <3>1. CASE u = t
      BY <2>4, <3>1, Zenon
    <3>2. CASE u # t
      <4>1. thread'[u] = thread[u] /\ thread[u].id \in Nat
        BY <1>4, <1>6, <3>2, Zenon
      <4>2. thread[u].id < next_request_id /\ (InFlight(u) => thread[u].id > 0)
        BY <1>1, Zenon DEF IdsGiven, InFlight
      <4>3. InFlight(u)' <=> InFlight(u)
        BY <4>1, Zenon DEF InFlight
      <4> QED
        BY <1>1, <4>1, <4>2, <4>3
    <3> QED
      BY <3>1, <3>2, Zenon
  <2>6. Len(applied) \in Nat /\ \A i \in DOMAIN applied : applied[i].id # next_request_id
    BY <1>1, <1>5, <1>6, SeqFacts DEF IdsGiven
  <2>7. AskedSince'
    BY <1>1, <1>4, <2>4, <2>6 DEF AskedSince, InFlight
  <2> QED
    BY <2>3, <2>5, <2>7, Zenon
<1>12. /\ \A r \in results' : r.id < next_request_id + 1
       /\ \A r \in results' : r \in results \/ r.got = "closed"
  <2>1. \/ results' = results
        \/ \E r : results' = results \cup {r} /\ r.id = next_request_id /\ r.got = "closed"
    BY <1>1, SendFacts, Zenon
  <2> QED
    BY <1>1, <1>6, <2>1 DEF IdsGiven
<1>13. IdsGiven'
    BY <1>1, <1>4, <1>6, <1>9, <1>11, <1>12 DEF IdsGiven
<1>14. AnswersAreOwn'
    BY <1>1, <1>4, <1>12, Zenon DEF AnswersAreOwn
<1> QED
    BY <1>4, <1>10, <1>11, <1>13, <1>14, Zenon DEF OwnInv

\* The reply read is an answer, and the log has one entry for it.
OwnAnswer(t) ==
    \E i \in DOMAIN applied :
        /\ \A j \in DOMAIN applied : applied[j].id = thread[t].id <=> j = i
        /\ i > thread[t].since /\ i <= Len(applied)
        /\ applied[i].opcode = thread[t].opcode /\ applied[i].kind = "answer"

\* A call that returns, with an answer only if it is its own.
LEMMA ReturnOwn ==
    ASSUME OwnInv, TypeOK', NEW t \in Thread, NEW got, Returned(t, got),
           got = "answer" => OwnAnswer(t),
           \A u \in Thread \ {t} : thread'[u] = thread[u],
           UNCHANGED <<client, requests, server, applied>>,
           NEW k, Part(replies', k, replies)
    PROVE  OwnInv'
<1>1. TypeOK /\ IdsGiven /\ HeadersOnce /\ AnswersBacked /\ AskedSince /\ AnswersAreOwn
    BY Zenon DEF OwnInv
<1>2. next_request_id' = next_request_id /\ requests' = requests /\ server' = server
      /\ applied' = applied
    BY Zenon DEF client
<1>3. thread'[t].at = "idle" /\ thread'[t].id = 0
    BY IdleType, Zenon DEF Returned
<1>4. \A u \in Thread : InFlight(u)' => InFlight(u) /\ thread'[u] = thread[u]
    BY <1>3, Zenon DEF InFlight
<1>5. ASSUME NEW u \in Thread PROVE thread'[u].id < next_request_id
  <2>1. thread[u].id < next_request_id /\ 0 < next_request_id
    BY <1>1, Zenon DEF IdsGiven
  <2> QED
    BY <1>3, <2>1, Zenon
<1>6. \A i \in DOMAIN replies' : Fine(replies'[i].of)
    BY FineReplies, Zenon
<1>7. PICK r : /\ results' = results \cup {r} /\ r.got = got /\ r.id = thread[t].id
               /\ r.opcode = thread[t].opcode /\ r.since = thread[t].since
               /\ r.until = Len(applied)
    BY Zenon DEF Returned
<1>8. \A q \in results' : q.id < next_request_id
    BY <1>1, <1>7, Zenon DEF IdsGiven
<1>9. \A u \in Thread : InFlight(u)' => thread'[u].id > 0
    BY <1>1, <1>4, Zenon DEF IdsGiven
<1>10. IdsGiven'
    BY <1>1, <1>2, <1>5, <1>6, <1>8, <1>9, Zenon DEF IdsGiven, Fine
<1>11. HeadersOnce'
    BY <1>1, <1>2, ZenonT(30) DEF HeadersOnce
<1>12. AnswersBacked'
  <2>1. \A u \in Thread : thread'[u].at = "body" => thread[u].at = "body" /\ thread'[u] = thread[u]
    BY <1>3, Zenon
  <2>2. \A i \in DOMAIN replies' : Backed(replies[i].of)'
    BY <1>2, <1>6, Zenon DEF Backed, Fine
  <2>3. server'.at = "replying" => Backed(server.frame)' /\ server'.frame.size > 0
    BY <1>1, <1>2, Zenon DEF AnswersBacked, Backed
  <2>4. ASSUME NEW u \in Thread, thread'[u].at = "body"
        PROVE  /\ Backed(thread[u].reply)'
               /\ thread'[u].reply.id = thread'[u].id /\ thread'[u].reply.opcode = thread'[u].opcode
    BY <1>1, <1>2, <2>1, <2>4, Zenon DEF AnswersBacked, Backed
  <2> QED
    BY <2>2, <2>3, <2>4, Zenon DEF AnswersBacked
<1>13. AskedSince'
    BY <1>1, <1>2, <1>4, Zenon DEF AskedSince
<1>14. AnswersAreOwn'
  <2> DEFINE right(q) == \E i \in DOMAIN applied :
                 /\ \A j \in DOMAIN applied : applied[j].id = q.id <=> j = i
                 /\ i > q.since /\ i <= q.until
                 /\ applied[i].opcode = q.opcode /\ applied[i].kind = "answer"
  <2>1. \A q \in results : q.got = "answer" => right(q)
    BY <1>1, Zenon DEF AnswersAreOwn
  <2>2. r.got = "answer" => right(r)
    BY <1>7 DEF OwnAnswer
  <2>3. \A q \in results' : q.got = "answer" => right(q)
    <3> HIDE DEF right
    <3> QED
      BY <1>7, <2>1, <2>2, Zenon
  <2> QED
    BY <1>2, <2>3 DEF AnswersAreOwn
<1> QED
    BY <1>10, <1>11, <1>12, <1>13, <1>14, Zenon DEF OwnInv

\* A header's verdict is one of four, and good only for a frame with the call's id
\* and operation.
LEMMA VerdictFacts ==
    ASSUME NEW t, NEW f
    PROVE  /\ HeaderVerdict(t, f) \in {"sequence", "too_large", "good"}
           /\ HeaderVerdict(t, f) = "good" =>
                 f.response /\ f.id = thread[t].id /\ f.opcode = thread[t].opcode
           /\ HeaderVerdict(t, f) = "sequence" =>
                 ~f.response \/ f.id # thread[t].id \/ f.opcode # thread[t].opcode
<1>1. CASE ~f.response \/ f.id # thread[t].id \/ f.opcode # thread[t].opcode
    BY <1>1, Zenon DEF HeaderVerdict, carries_request_id
<1>2. CASE f.response /\ f.id = thread[t].id /\ f.opcode = thread[t].opcode
    BY <1>2, Zenon DEF HeaderVerdict, carries_request_id
<1> QED
    BY <1>1, <1>2, Zenon

LEMMA ReadHeaderOwn ==
    ASSUME OwnInv, NEW t \in Thread, ReadHeader(t)
    PROVE  OwnInv'
<1>1. TypeOK /\ IdsGiven /\ HeadersOnce /\ AnswersBacked /\ AskedSince /\ AnswersAreOwn
      /\ replies \in Seq(Units) /\ HeaderUnits \in Nat
    BY SessionAssumption, Zenon DEF OwnInv, TypeOK
<1>2. /\ TypeOK' /\ thread[t].at = "header"
      /\ \A u \in Thread \ {t} : thread'[u] = thread[u]
      /\ UNCHANGED <<client, requests, up, client_open, server, applied, faults>>
    BY <1>1, ReadHeaderFacts, Zenon
<1>3. CASE replies' = <<>> /\ Returned(t, "closed")
  <2>1. Part(replies', 0, replies)
    BY <1>1, <1>3, TrivialParts, Zenon
  <2> QED
    BY <1>2, <1>3, <2>1, ReturnOwn, Zenon
<1>4. CASE Len(replies) >= HeaderUnits /\ replies' = Beyond(replies, HeaderUnits)
  <2>1. Part(replies', HeaderUnits, replies)
    BY <1>1, <1>4, BeyondFacts, Zenon
  <2>2. ASSUME NEW got \in {"header_rejected", "sequence", "too_large"}, Returned(t, got)
        PROVE  OwnInv'
    BY <1>2, <2>1, <2>2, ReturnOwn, Zenon
  <2>3. CASE Returned(t, "header_rejected")
    BY <2>2, <2>3, Zenon
  <2>4. CASE \E f \in decode_frame_header(Front(replies, HeaderUnits)) :
                HeaderVerdict(t, f) # "good" /\ Returned(t, HeaderVerdict(t, f))
    <3>1. PICK got : got \in {"sequence", "too_large"} /\ Returned(t, got)
      BY <2>4, VerdictFacts, Zenon
    <3> QED
      BY <2>2, <3>1, Zenon
  <2>5. CASE \E f \in decode_frame_header(Front(replies, HeaderUnits)) :
                /\ HeaderVerdict(t, f) = "good" /\ UNCHANGED results
                /\ thread'[t].at = "body" /\ thread'[t].reply = f
                /\ thread'[t].id = thread[t].id
                /\ thread'[t].opcode = thread[t].opcode
                /\ thread'[t].since = thread[t].since
    <3>1. PICK f \in decode_frame_header(Front(replies, HeaderUnits)) :
                /\ HeaderVerdict(t, f) = "good" /\ UNCHANGED results
                /\ thread'[t].at = "body" /\ thread'[t].reply = f
                /\ thread'[t].id = thread[t].id
                /\ thread'[t].opcode = thread[t].opcode
                /\ thread'[t].since = thread[t].since
      BY <2>5, Zenon
    <3>2. f = replies[1].of /\ f.id = thread[t].id /\ f.opcode = thread[t].opcode
      BY <1>1, <1>4, <3>1, DecodeFacts, VerdictFacts, Zenon
    <3>3. 1 \in DOMAIN replies
      BY <1>1, <1>4, SeqFacts, SessionAssumption
    <3>4. Backed(f)
      BY <1>1, <3>2, <3>3, Zenon DEF AnswersBacked
    <3>5. \A i \in DOMAIN replies' : Fine(replies'[i].of)
      BY <2>1, FineReplies, Zenon
    <3>6. InFlight(t) /\ \A u \in Thread : InFlight(u)' => /\ InFlight(u) /\ thread'[u].id = thread[u].id
                                                          /\ thread'[u].since = thread[u].since
      BY <1>2, <3>1, Zenon DEF InFlight
    <3>7. ASSUME NEW u \in Thread PROVE thread'[u].id = thread[u].id
      BY <1>2, <3>1, Zenon
    <3>8. IdsGiven'
      BY <1>1, <1>2, <3>1, <3>5, <3>6, <3>7, Zenon DEF IdsGiven, Fine, client
    <3>9. HeadersOnce'
      BY <1>1, <1>2, Zenon DEF HeadersOnce
    <3>10. AnswersAreOwn'
      BY <1>1, <1>2, <3>1, OwnKept, Zenon
    <3>11. AskedSince'
      BY <1>1, <1>2, <3>6, Zenon DEF AskedSince
    <3>12. AnswersBacked'
      <4>1. \A i \in DOMAIN replies' : Backed(replies[i].of)'
        BY <1>2, <3>5, Zenon DEF Backed, Fine
      <4>2. server'.at = "replying" => Backed(server.frame)' /\ server'.frame.size > 0
        BY <1>1, <1>2, Zenon DEF AnswersBacked, Backed
      <4>3. ASSUME NEW u \in Thread, thread'[u].at = "body"
            PROVE  /\ Backed(thread[u].reply)'
                   /\ thread'[u].reply.id = thread'[u].id
                   /\ thread'[u].reply.opcode = thread'[u].opcode
        <5>1. CASE u = t
          BY <1>2, <3>1, <3>2, <3>4, <5>1, Zenon DEF Backed, BackedBy
        <5>2. CASE u # t
          BY <1>1, <1>2, <3>1, <4>3, <5>2, Zenon DEF AnswersBacked, Backed
        <5> QED
          BY <5>1, <5>2, Zenon
      <4> QED
        BY <4>1, <4>2, <4>3, Zenon DEF AnswersBacked
    <3> QED
      BY <1>2, <3>8, <3>9, <3>10, <3>11, <3>12, Zenon DEF OwnInv
  <2> QED
    BY <1>1, <1>4, <2>3, <2>4, <2>5, ReadHeaderFacts, SeqFacts
<1> QED
    BY <1>1, <1>3, <1>4, ReadHeaderFacts, Zenon

\* Only an envelope that says so is an answer.
LEMMA BodyVerdictFacts ==
    ASSUME NEW t
    PROVE  /\ BodyVerdict(t) = "answer" => thread[t].reply.kind = "answer"
           /\ BodyVerdict(t) \in {"checksum", "body_rejected", "answer", thread[t].reply.kind}
           /\ Front(replies, thread[t].reply.size) = Payload(thread[t].reply) =>
                 BodyVerdict(t) \in {"body_rejected", "answer", thread[t].reply.kind}
    BY Zenon DEF BodyVerdict, is_failure, body_decodes, has_body

LEMMA ReadBodyOwn ==
    ASSUME OwnInv, NEW t \in Thread, ReadBody(t)
    PROVE  OwnInv'
<1>1. TypeOK /\ IdsGiven /\ HeadersOnce /\ AnswersBacked /\ AskedSince /\ AnswersAreOwn
      /\ replies \in Seq(Units) /\ applied \in Seq(Entries) /\ thread[t].reply.size \in Nat
    BY Zenon DEF OwnInv, TypeOK, Calls, Frames
<1>2. /\ TypeOK' /\ thread[t].at = "body"
      /\ \A u \in Thread \ {t} : thread'[u] = thread[u]
      /\ UNCHANGED <<client, requests, up, client_open, server, applied, faults>>
    BY <1>1, ReadBodyFacts, Zenon
<1>3. CASE replies' = <<>> /\ Returned(t, "closed")
  <2>1. Part(replies', 0, replies)
    BY <1>1, <1>3, TrivialParts, Zenon
  <2> QED
    BY <1>2, <1>3, <2>1, ReturnOwn, Zenon
<1>4. CASE /\ Len(replies) >= thread[t].reply.size /\ Returned(t, BodyVerdict(t))
           /\ replies' = Beyond(replies, thread[t].reply.size)
  <2>1. Part(replies', thread[t].reply.size, replies)
    BY <1>1, <1>4, BeyondFacts, Zenon
  <2>2. ASSUME BodyVerdict(t) = "answer" PROVE OwnAnswer(t)
    <3>1. thread[t].reply.kind = "answer"
      BY <2>2, BodyVerdictFacts, Zenon
    <3>2. /\ Backed(thread[t].reply) /\ thread[t].reply.id = thread[t].id
          /\ thread[t].reply.opcode = thread[t].opcode
      BY <1>1, <1>2, Zenon DEF AnswersBacked
    <3>3. PICK i \in DOMAIN applied : /\ applied[i].id = thread[t].id
                                      /\ applied[i].opcode = thread[t].opcode
                                      /\ applied[i].kind = "answer"
      BY <3>1, <3>2, Zenon DEF Backed, BackedBy
    <3>4. \A j \in DOMAIN applied : applied[j].id = thread[t].id <=> j = i
      BY <1>1, <3>3, Zenon DEF HeadersOnce
    <3>5. i > thread[t].since /\ i <= Len(applied)
      <4>1. InFlight(t)
        BY <1>2, Zenon DEF InFlight
      <4>2. i \in 1 .. Len(applied) /\ Len(applied) \in Nat
        BY <1>1, SeqFacts, Zenon
      <4> QED
        BY <1>1, <3>3, <4>1, <4>2 DEF AskedSince
    <3> QED
      BY <3>3, <3>4, <3>5, Zenon DEF OwnAnswer
  <2> QED
    BY <1>2, <1>4, <2>1, <2>2, ReturnOwn, Zenon
<1> QED
    BY <1>1, <1>3, <1>4, ReadBodyFacts, Zenon

LEMMA InitOwn == Init => OwnInv
<1> SUFFICES ASSUME Init PROVE OwnInv
    BY Zenon
<1>1. /\ requests = <<>> /\ replies = <<>> /\ applied = <<>> /\ results = {}
      /\ next_request_id = 1 /\ server.at = "header" /\ server.frame = NoFrame
      /\ \A t \in Thread : thread[t] = idle
    BY Zenon DEF Init
<1>2. NoFrame.id = 0
    BY Zenon DEF NoFrame, Frame
<1>3. IdsGiven /\ AnswersBacked /\ AskedSince
    BY <1>1, <1>2, IdleType DEF IdsGiven, AnswersBacked, AskedSince, InFlight
<1>4. HeadersOnce /\ AnswersAreOwn
    BY <1>1 DEF HeadersOnce, AnswersAreOwn
<1> QED
    BY <1>3, <1>4, InitTypes, Zenon DEF OwnInv

LEMMA NextOwn ==
    ASSUME OwnInv, [Next]_vars
    PROVE  OwnInv'
<1>1. CASE UNCHANGED vars
  <2>1. /\ UNCHANGED <<client_max_frame_payload, next_request_id, thread, requests, replies, up>>
        /\ UNCHANGED <<client_open, server, applied, results, faults>>
    BY <1>1, Zenon DEF vars, client, streams
  <2>2. TypeOK'
    BY <2>1, Zenon DEF OwnInv, TypeOK
  <2>3. IdsGiven' /\ HeadersOnce'
    BY <2>1, Zenon DEF OwnInv, IdsGiven, HeadersOnce, InFlight
  <2>4. AnswersBacked' /\ AskedSince'
    BY <2>1, Zenon DEF OwnInv, AnswersBacked, Backed, AskedSince, InFlight
  <2>5. AnswersAreOwn'
    BY <2>1, Zenon DEF OwnInv, AnswersAreOwn
  <2> QED
    BY <2>2, <2>3, <2>4, <2>5, Zenon DEF OwnInv
<1>2. CASE \E t \in Thread : Call(t) \/ Exchange(t)
    BY <1>2, CallOwn, SendOwn, ReadHeaderOwn, ReadBodyOwn, Zenon DEF Exchange
<1>3. CASE Serve
    BY <1>3, ServeHeaderOwn, ServeBodyOwn, DispatchOwn, SendReplyOwn, Zenon DEF Serve
<1>4. CASE Disconnect \/ Lose \/ Damage
    BY <1>4, NetworkOwn, Zenon
<1> QED
    BY <1>1, <1>2, <1>3, <1>4, Zenon DEF Next

LEMMA OwnInvariance == Spec => []OwnInv
<1>1. OwnInv /\ [Next]_vars => OwnInv'
    BY NextOwn, Zenon
<1> QED
    BY <1>1, InitOwn, PTL DEF Spec

\* Client::call reports an answer only when dispatch asked the registry this very
\* request, once, during the call, and the registry answered it.
THEOREM AnswersAreOwnHolds == Spec => []AnswersAreOwn
<1>1. OwnInv => AnswersAreOwn
    BY Zenon DEF OwnInv
<1> QED
    BY <1>1, OwnInvariance, PTL

=============================================================================
