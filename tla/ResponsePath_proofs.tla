------------------------ MODULE ResponsePath_proofs ------------------------
(***************************************************************************)
(* Proofs about ResponsePath for every set of middleware combinations,     *)
(* every kind of handler and any number of writes.                         *)
(***************************************************************************)
EXTENDS ResponsePath, SequenceTheorems, TLAPS

-----------------------------------------------------------------------------
(* Operators.                                                              *)

LEMMA Positions ==
    /\ Position["server"] = 0 /\ Position["recovery"] = 1
    /\ Position["timeout"] = 2 /\ Position["gzip"] = 3
    /\ Position["metrics"] = 4 /\ Position["access_log"] = 5
    /\ Position["handler"] = 6
BY DEF Position

\* Inner is the nearest installed frame on the way in.
LEMMA InnerIsNext ==
    ASSUME enabled \in SUBSET Layers, NEW l \in Frames, l # "handler"
    PROVE  /\ Inner(l) \in Frames
           /\ Position[Inner(l)] > Position[l]
           /\ \A g \in Frames :
                  Position[g] > Position[l] => Position[Inner(l)] <= Position[g]
<1> DEFINE Nearest(f) ==
        /\ Position[f] > Position[l]
        /\ \A g \in Frames : Position[g] > Position[l] => Position[f] <= Position[g]
<1>1. /\ Frames \subseteq Layers \cup {"server", "handler"}
      /\ "handler" \in Frames
  BY DEF Frames
<1>2. \E f \in Frames : Nearest(f)
  <2>1. CASE "recovery" \in Frames /\ Position[l] < 1
    BY <1>1, <2>1, Positions DEF Layers
  <2>2. CASE "timeout" \in Frames /\ Position[l] < 2
    BY <1>1, <2>1, <2>2, Positions DEF Layers
  <2>3. CASE "gzip" \in Frames /\ Position[l] < 3
    BY <1>1, <2>1, <2>2, <2>3, Positions DEF Layers
  <2>4. CASE "metrics" \in Frames /\ Position[l] < 4
    BY <1>1, <2>1, <2>2, <2>3, <2>4, Positions DEF Layers
  <2>5. CASE "access_log" \in Frames /\ Position[l] < 5
    BY <1>1, <2>1, <2>2, <2>3, <2>4, <2>5, Positions DEF Layers
  <2>6. CASE /\ ~("recovery" \in Frames /\ Position[l] < 1)
             /\ ~("timeout" \in Frames /\ Position[l] < 2)
             /\ ~("gzip" \in Frames /\ Position[l] < 3)
             /\ ~("metrics" \in Frames /\ Position[l] < 4)
             /\ ~("access_log" \in Frames /\ Position[l] < 5)
    BY <1>1, <2>6, Positions DEF Layers
  <2>7. QED
    BY <2>1, <2>2, <2>3, <2>4, <2>5, <2>6
<1>3. QED
  BY <1>2 DEF Inner

\* Outer is the nearest installed frame on the way out.
LEMMA OuterIsNext ==
    ASSUME enabled \in SUBSET Layers, NEW l \in Frames, l # "server"
    PROVE  /\ Outer(l) \in Frames
           /\ Position[Outer(l)] < Position[l]
           /\ \A g \in Frames :
                  Position[g] < Position[l] => Position[g] <= Position[Outer(l)]
<1> DEFINE Nearest(f) ==
        /\ Position[f] < Position[l]
        /\ \A g \in Frames : Position[g] < Position[l] => Position[g] <= Position[f]
<1>1. Frames \subseteq Layers \cup {"server", "handler"} /\ "server" \in Frames
  BY DEF Frames
<1>2. \E f \in Frames : Nearest(f)
  <2>1. CASE "access_log" \in Frames /\ Position[l] > 5
    BY <1>1, <2>1, Positions DEF Layers
  <2>2. CASE "metrics" \in Frames /\ Position[l] > 4
    BY <1>1, <2>1, <2>2, Positions DEF Layers
  <2>3. CASE "gzip" \in Frames /\ Position[l] > 3
    BY <1>1, <2>1, <2>2, <2>3, Positions DEF Layers
  <2>4. CASE "timeout" \in Frames /\ Position[l] > 2
    BY <1>1, <2>1, <2>2, <2>3, <2>4, Positions DEF Layers
  <2>5. CASE "recovery" \in Frames /\ Position[l] > 1
    BY <1>1, <2>1, <2>2, <2>3, <2>4, <2>5, Positions DEF Layers
  <2>6. CASE /\ ~("access_log" \in Frames /\ Position[l] > 5)
             /\ ~("metrics" \in Frames /\ Position[l] > 4)
             /\ ~("gzip" \in Frames /\ Position[l] > 3)
             /\ ~("timeout" \in Frames /\ Position[l] > 2)
             /\ ~("recovery" \in Frames /\ Position[l] > 1)
    BY <1>1, <2>6, Positions DEF Layers
  <2>7. QED
    BY <2>1, <2>2, <2>3, <2>4, <2>5, <2>6
<1>3. QED
  BY <1>2 DEF Outer

-----------------------------------------------------------------------------
(* Types of the operators.                                                 *)

LEMMA NoData == <<>> \in Data
BY DEF Data

LEMMA Concatenated ==
    ASSUME NEW d \in Data, NEW e \in Data
    PROVE  d \o e \in Data
BY DEF Data

LEMMA FirstWrite == 1 \in 1 .. MaxWrites
BY MaxWritesAssumption

LEMMA PlainType ==
    ASSUME NEW id \in 1 .. MaxWrites \cup {500, 503}
    PROVE  Plain(id) \in Data /\ Len(Plain(id)) = 1
BY DEF Plain, Token, Data

LEMMA PackedType ==
    ASSUME NEW data \in Data
    PROVE  Packed(data) \in Data
<1>1. \A i \in 1 .. Len(data) : data[i] \in Token
  BY DEF Data
<1>2. \A t \in Token : [t EXCEPT !.as = "packed"] \in Token
  BY DEF Token
<1>3. Packed(data) \in [1 .. Len(data) -> Token]
  BY <1>1, <1>2 DEF Packed, Data
<1>4. QED
  BY <1>3 DEF Data

LEMMA EndType == End \in Data
BY MaxWritesAssumption DEF End, Token, Data

\* The calls that are made are calls, and stay so when they are passed on.
LEMMA CallTypes ==
    ASSUME NEW w \in Sink
    PROVE  /\ \A code \in Codes : HeaderCall(w, code) \in WriterCall
           /\ \A data \in Data : WriteCall(w, data) \in WriterCall
           /\ FlushCall(w) \in WriterCall
           /\ CloseCall(w) \in WriterCall
           /\ \A call \in WriterCall : [call EXCEPT !.to = w] \in WriterCall
BY NoData DEF HeaderCall, WriteCall, FlushCall, CloseCall, WriterCall

LEMMA FirstCall ==
    ASSUME calls \in Seq(WriterCall), calls # <<>>
    PROVE  /\ Call \in WriterCall /\ Head(calls) = Call
           /\ Call.to \in Sink /\ Call.data \in Data
           /\ Call.code \in Codes \cup {0}
           /\ Tail(calls) \in Seq(WriterCall)
<1>1. Head(calls) \in WriterCall /\ Tail(calls) \in Seq(WriterCall)
  BY HeadTailProperties
<1>2. QED
  BY <1>1 DEF Call, WriterCall

LEMMA AnswerType ==
    ASSUME NEW w \in Sink, NEW wrote \in BOOLEAN, NEW code \in Codes,
           NEW id \in 1 .. MaxWrites \cup {500, 503}
    PROVE  Answer(w, wrote, code, id) \in Seq(WriterCall)
BY PlainType, CallTypes DEF Answer

LEMMA Prepend ==
    ASSUME NEW x \in WriterCall, NEW s \in Seq(WriterCall)
    PROVE  <<x>> \in Seq(WriterCall) /\ <<x>> \o s \in Seq(WriterCall)
OBVIOUS

LEMMA HeaderType ==
    ASSUME NEW h \in Header, NEW type \in {"none", "text", "binary"},
           NEW b \in BOOLEAN
    PROVE  /\ [h EXCEPT !.type = type] \in Header
           /\ [h EXCEPT !.encoded = b] \in Header
           /\ [h EXCEPT !.type = type, !.length = b] \in Header
           /\ h.encoded \in BOOLEAN
BY DEF Header

LEMMA GzipType ==
    ASSUME NEW g \in GzipWriter, NEW data \in Data, NEW b \in BOOLEAN
    PROVE  /\ g.buf \in Data /\ g.pending \in Data
           /\ [g EXCEPT !.pending = data] \in GzipWriter
           /\ [g EXCEPT !.buf = data] \in GzipWriter
           /\ [g EXCEPT !.buf = @ \o data] \in GzipWriter
           /\ [g EXCEPT !.wroteHead = TRUE, !.started = b] \in GzipWriter
           /\ [g EXCEPT !.wroteHead = TRUE, !.started = TRUE, !.buf = <<>>,
                       !.pending = data] \in GzipWriter
<1>1. g.buf \in Data /\ g.pending \in Data
  BY DEF GzipWriter
<1>2. g.buf \o data \in Data /\ <<>> \in Data
  BY <1>1, Concatenated, NoData
<1>3. [g EXCEPT !.pending = data] \in GzipWriter
  BY DEF GzipWriter
<1>4. [g EXCEPT !.buf = data] \in GzipWriter
  BY DEF GzipWriter
<1>5. [g EXCEPT !.buf = @ \o data] \in GzipWriter
  BY <1>2 DEF GzipWriter
<1>6. [g EXCEPT !.wroteHead = TRUE, !.started = b] \in GzipWriter
  BY DEF GzipWriter
<1>7. [g EXCEPT !.wroteHead = TRUE, !.started = TRUE, !.buf = <<>>,
              !.pending = data] \in GzipWriter
  BY <1>2 DEF GzipWriter
<1>8. QED
  BY <1>1, <1>3, <1>4, <1>5, <1>6, <1>7

LEMMA DecidedType ==
    ASSUME gw \in GzipWriter
    PROVE  Decided \in GzipWriter /\ Compressible \in BOOLEAN
<1>1. Compressible \in BOOLEAN
  BY Zenon DEF Compressible, GzipWriter
<1>2. QED
  BY <1>1 DEF Decided, GzipWriter

\* What net/http has committed, and what it accepts, is of its type.
LEMMA CommitType ==
    ASSUME sent \in Sent, header \in Header, NEW code \in Codes \cup {0}
    PROVE  Commit(code) \in Sent
BY DEF Commit, Sent, Header

LEMMA ReceiveTypes ==
    ASSUME TypeOK, Receive, Call.data \in Data, Call.code \in Codes \cup {0}
    PROVE  sent' \in Sent /\ body' \in Data
<1>1. (IF Call.op = "header" THEN Call.code ELSE 200) \in Codes \cup {0}
  BY DEF Codes
<1>2. PICK first \in Sent :
          first = Commit(IF Call.op = "header" THEN Call.code ELSE 200)
  BY <1>1, CommitType DEF TypeOK
<1>3. [first EXCEPT !.over = TRUE] \in Sent
  BY DEF Sent
<1>4. sent' \in Sent
  BY <1>2, <1>3 DEF Receive
<1>5. body' = body \/ body' = body \o Call.data
  BY DEF Receive
<1>6. QED
  BY <1>4, <1>5, Concatenated DEF TypeOK

-----------------------------------------------------------------------------
(* Type correctness.                                                       *)

LEMMA HandlerTypes ==
    ASSUME TypeOK, Handler
    PROVE  TypeOK'
<1>0. /\ calls \in Seq(WriterCall) /\ gw \in GzipWriter /\ header \in Header
     /\ writer \in Sink /\ c.wrote \in BOOLEAN /\ \A w \in Wrappers : orig[w] \in Sink
  BY DEF TypeOK
<1> USE DEF Handling, Entering, Unanswered
<1>1. ASSUME NEW code \in {200, 404}, Respond(code)
      PROVE  TypeOK'
  <2>1. header' \in Header
    BY <1>0, <1>1, HeaderType DEF Respond
  <2>2. calls' \in Seq(WriterCall)
    <3>1. Answer(writer, c.wrote, code, 1) \in Seq(WriterCall)
      <4>1. code \in Codes /\ 1 \in 1 .. MaxWrites \cup {500, 503}
        BY FirstWrite DEF Codes
      <4>2. QED
        BY <1>0, <4>1, AnswerType
    <3>2. QED
      BY <1>1, <3>1 DEF Respond
  <2>3. written' \in Seq(1 .. MaxWrites)
    BY <1>1, FirstWrite DEF Respond
  <2>4. QED
    BY <1>1, <2>1, <2>2, <2>3 DEF TypeOK, Respond, Codes, Frames, fixedVars,
       frameVars, writerVars, netVars, saidVars, recordVars
<1>2. ASSUME NEW code \in {200, 404}, NEW type \in {"none", "text", "binary"},
             SetStatus(code, type)
      PROVE  TypeOK'
  <2>1. header' \in Header
    BY <1>0, <1>2, HeaderType DEF SetStatus
  <2>2. calls' \in Seq(WriterCall)
    BY <1>0, <1>2, CallTypes, Prepend DEF SetStatus, Codes
  <2>3. QED
    BY <1>2, <2>1, <2>2 DEF TypeOK, SetStatus, Codes, Frames, fixedVars,
       frameVars, writerVars, netVars, saidVars, recordVars
<1>3. ASSUME NEW type \in {"text", "binary"}, File(type) \/ DirectFile(type)
      PROVE  TypeOK'
  <2>0. ServeContent(type)
    BY <1>3 DEF File, DirectFile
  <2>1. header' \in Header
    <3>1. header.encoded \in BOOLEAN
      BY <1>0 DEF Header
    <3>2. (~header.encoded) \in BOOLEAN
      BY <3>1, Zenon
    <3>3. QED
      BY <1>0, <2>0, <3>2, HeaderType DEF ServeContent
  <2>2. calls' \in Seq(WriterCall)
    <3>1. /\ HeaderCall(writer, 200) \in WriterCall
          /\ WriteCall(writer, Plain(1)) \in WriterCall
      BY <1>0, CallTypes, PlainType, FirstWrite DEF Codes
    <3>2. QED
      BY <2>0, <3>1 DEF ServeContent
  <2>3. written' \in Seq(1 .. MaxWrites)
    BY <2>0, FirstWrite DEF ServeContent
  <2>4. /\ direct' \in Codes \cup {0}
        /\ c' \in [wrote : BOOLEAN, status : Codes \cup {0}]
    <3>1. 200 \in Codes /\ TRUE \in BOOLEAN
      BY DEF Codes
    <3>2. [wrote |-> TRUE, status |-> 200]
              \in [wrote : BOOLEAN, status : Codes \cup {0}]
      BY <3>1
    <3>3. CASE File(type)
      <4>1. c' = [wrote |-> TRUE, status |-> 200] /\ direct' = direct
        BY <3>3 DEF File
      <4>2. QED
        BY <3>2, <4>1 DEF TypeOK
    <3>4. CASE DirectFile(type)
      <4>1. c' = c /\ direct' = 200
        BY <3>4 DEF DirectFile
      <4>2. QED
        BY <3>1, <4>1 DEF TypeOK
    <3>5. QED
      BY <1>3, <3>3, <3>4
  <2>5. QED
    BY <2>0, <2>1, <2>2, <2>3, <2>4 DEF TypeOK, ServeContent, Frames,
       fixedVars, frameVars, writerVars, netVars, recordVars
<1>4. CASE Write
  <2>1. Len(written) + 1 \in 1 .. MaxWrites /\ written \in Seq(1 .. MaxWrites)
    BY MaxWritesAssumption, <1>4 DEF Write, TypeOK
  <2>2. written' \in Seq(1 .. MaxWrites)
    BY <1>4, <2>1 DEF Write
  <2>3. WriteCall(writer, Plain(Len(written) + 1)) \in WriterCall
    BY <1>0, <2>1, CallTypes, PlainType
  <2>4. calls' \in Seq(WriterCall)
    BY <1>4, <2>3 DEF Write
  <2>5. QED
    BY <1>4, <2>2, <2>4 DEF TypeOK, Write, Frames, fixedVars, frameVars,
       writerVars, netVars, saidVars, recordVars
<1>5. CASE Flush
  <2>1. calls' \in Seq(WriterCall)
    BY <1>0, <1>5, CallTypes, Prepend DEF Flush
  <2>2. QED
    BY <1>5, <2>1 DEF TypeOK, Flush, Frames, fixedVars, frameVars, writerVars,
       netVars, saidVars, recordVars
<1>6. CASE Panic \/ Return
  BY <1>6, OuterIsNext DEF TypeOK, Panic, Return, Frames, fixedVars, frameVars,
     writerVars, netVars, saidVars, recordVars
<1>7. ASSUME NEW code \in {200, 404}, NEW type \in {"none", "text", "binary"},
             DirectStatus(code, type)
      PROVE  TypeOK'
  <2>1. header' \in Header
    BY <1>0, <1>7, HeaderType DEF DirectStatus
  <2>2. calls' \in Seq(WriterCall)
    BY <1>0, <1>7, CallTypes, Prepend DEF DirectStatus, Codes
  <2>3. QED
    BY <1>7, <2>1, <2>2 DEF TypeOK, DirectStatus, Codes, Frames, fixedVars,
       frameVars, writerVars, netVars, recordVars
<1>8. QED
  BY <1>1, <1>2, <1>3, <1>4, <1>5, <1>6, <1>7 DEF Handler

LEMMA WriterTypes ==
    ASSUME TypeOK, Writers
    PROVE  TypeOK'
<1>0. /\ calls \in Seq(WriterCall) /\ gw \in GzipWriter /\ header \in Header
     /\ writer \in Sink /\ c.wrote \in BOOLEAN /\ \A w \in Wrappers : orig[w] \in Sink
  BY DEF TypeOK
<1>a. calls # <<>>
  BY DEF Writers, ToServer, ToAccessLog, ToTimeout, FlushTimeout, GzipHeader,
         GzipPass, GzipBuffer, GzipStart, GzipWrite, GzipFlush, GzipClose,
         Calling
<1>b. /\ Call \in WriterCall /\ Call.data \in Data
      /\ Call.code \in Codes \cup {0} /\ Tail(calls) \in Seq(WriterCall)
  BY <1>0, <1>a, FirstCall
<1>c. /\ orig["gzip"] \in Sink /\ orig["timeout"] \in Sink
      /\ orig["access_log"] \in Sink
  BY <1>0 DEF Wrappers
<1>d. /\ gw.buf \in Data /\ gw.pending \in Data
      /\ Decided \in GzipWriter /\ Compressible \in BOOLEAN
  BY <1>0, GzipType, DecidedType, NoData
<1>e. /\ \A data \in Data : Emit(data) \in Seq(WriterCall)
      /\ \A data \in Data, more \in Seq(WriterCall) :
             Start(data, more) =>
                 header' \in Header /\ gw' \in GzipWriter
                     /\ calls' \in Seq(WriterCall)
  <2>1. \A data \in Data : Emit(data) \in Seq(WriterCall)
    BY <1>c, PackedType, CallTypes, Prepend DEF Emit
  <2>2. ASSUME NEW data \in Data, NEW more \in Seq(WriterCall),
               Start(data, more)
        PROVE  header' \in Header /\ gw' \in GzipWriter
                   /\ calls' \in Seq(WriterCall)
    <3>1. header' \in Header
      BY <1>0, <2>2, HeaderType DEF Start
    <3>2. gw' \in GzipWriter
      BY <1>d, <2>2, GzipType DEF Start
    <3>3. HeaderCall(orig["gzip"], 200) \in WriterCall
      BY <1>c, CallTypes DEF Codes
    <3>4. calls' \in Seq(WriterCall)
      BY <1>b, <2>2, <3>3 DEF Start
    <3>5. QED
      BY <3>1, <3>2, <3>4
  <2>3. QED
    BY <2>1, <2>2
<1>1. CASE ToServer
  <2>1. sent' \in Sent /\ body' \in Data
    BY <1>1, <1>b, ReceiveTypes DEF ToServer
  <2>2. QED
    BY <1>1, <1>b, <2>1 DEF TypeOK, ToServer, Frames, fixedVars, frameVars,
       writerVars, netVars, saidVars, recordVars
<1>2. CASE ToAccessLog
  <2>1. calls' \in Seq(WriterCall)
    BY <1>2, <1>b, <1>c, CallTypes, Prepend DEF ToAccessLog
  <2>2. QED
    BY <1>2, <2>1 DEF TypeOK, ToAccessLog, Frames, fixedVars, frameVars,
       writerVars, netVars, saidVars, recordVars
<1>3. CASE ToTimeout
  <2>1. sent' \in Sent /\ body' \in Data
    <3>1. CASE Expired
      BY <1>3, <3>1 DEF TypeOK, ToTimeout, netVars
    <3>2. CASE ~Expired
      BY <1>3, <1>b, <3>2, ReceiveTypes DEF ToTimeout
    <3>3. QED
      BY <3>1, <3>2
  <2>2. tw' \in [timedOut : BOOLEAN, wroteHeader : BOOLEAN]
    <3>1. tw \in [timedOut : BOOLEAN, wroteHeader : BOOLEAN]
      BY DEF TypeOK
    <3>2. (tw.wroteHeader \/ Call.op = "header") \in BOOLEAN
      BY <3>1, Zenon
    <3>3. QED
      BY ZenonT(60), <1>3, <3>1, <3>2 DEF ToTimeout
  <2>3. QED
    BY <1>3, <1>b, <2>1, <2>2 DEF TypeOK, ToTimeout, Frames, fixedVars,
       frameVars, writerVars, netVars, saidVars, recordVars
<1>4. CASE FlushTimeout
  <2>1. calls' \in Seq(WriterCall)
    BY <1>4, <1>b, <1>c, CallTypes, Prepend DEF FlushTimeout
  <2>2. QED
    BY <1>4, <2>1 DEF TypeOK, FlushTimeout, Frames, fixedVars, frameVars,
       writerVars, netVars, saidVars, recordVars
<1>5. CASE GzipHeader
  <2>1. gw' \in GzipWriter
    BY ZenonT(60), <1>0, <1>5, <1>d, GzipType, NoData DEF GzipHeader
  <2>2. header' \in Header
    BY ZenonT(60), <1>0, <1>5, <1>d, HeaderType DEF GzipHeader
  <2>3. HeaderCall(orig["gzip"], Call.code) \in WriterCall
    BY <1>b, <1>c DEF HeaderCall, WriterCall, Data
  <2>4. calls' \in Seq(WriterCall)
    BY ZenonT(60), <1>5, <1>b, <2>3, Prepend DEF GzipHeader
  <2>5. QED
    BY <1>5, <2>1, <2>2, <2>4 DEF TypeOK, GzipHeader, Frames, fixedVars,
       frameVars, writerVars, netVars, saidVars, recordVars
<1>6. CASE GzipPass
  <2>1. gw' \in GzipWriter
    BY <1>6, <1>d DEF GzipPass
  <2>2. calls' \in Seq(WriterCall)
    BY <1>6, <1>b, <1>c, CallTypes, Prepend DEF GzipPass
  <2>3. QED
    BY <1>6, <2>1, <2>2 DEF TypeOK, GzipPass, Frames, fixedVars, frameVars,
       writerVars, netVars, saidVars, recordVars
<1>7. CASE GzipBuffer
  <2>1. gw' \in GzipWriter
    BY <1>7, <1>b, <1>d, GzipType DEF GzipBuffer
  <2>2. QED
    BY <1>7, <1>b, <2>1 DEF TypeOK, GzipBuffer, Frames, fixedVars, frameVars,
       writerVars, netVars, saidVars, recordVars
<1>8. CASE GzipStart
  <2>1. gw.buf \o Call.data \in Data /\ <<>> \in Seq(WriterCall)
    BY <1>b, <1>d, Concatenated
  <2>2. /\ header' \in Header /\ gw' \in GzipWriter
        /\ calls' \in Seq(WriterCall)
    BY <1>8, <1>e, <2>1, NoData DEF GzipStart
  <2>3. QED
    BY <1>8, <2>2 DEF TypeOK, GzipStart, Frames, fixedVars, frameVars,
       writerVars, netVars, saidVars, recordVars
<1>9. CASE GzipWrite
  <2>1. gw.pending \o Call.data \in Data
    BY <1>b, <1>d, Concatenated
  <2>2. gw' \in GzipWriter
    BY ZenonT(60), <1>0, <1>9, <2>1, GzipType, NoData DEF GzipWrite
  <2>3. calls' \in Seq(WriterCall)
    <3>1. Emit(gw.pending \o Call.data) \in Seq(WriterCall)
      BY <1>e, <2>1
    <3>2. Emit(gw.pending \o Call.data) \o Tail(calls) \in Seq(WriterCall)
      BY <1>b, <3>1
    <3>3. QED
      BY <1>9, <1>b, <3>2 DEF GzipWrite
  <2>4. QED
    BY <1>9, <2>2, <2>3 DEF TypeOK, GzipWrite, Frames, fixedVars, frameVars,
       writerVars, netVars, saidVars, recordVars
<1>10. CASE GzipFlush
  <2>1. CASE Start(<<>>, Emit(gw.buf))
    <3>1. /\ header' \in Header /\ gw' \in GzipWriter
          /\ calls' \in Seq(WriterCall)
      BY <1>d, <1>e, <2>1, NoData
    <3>2. QED
      BY <1>10, <3>1 DEF TypeOK, GzipFlush, Frames, fixedVars, frameVars,
         writerVars, netVars, saidVars, recordVars
  <2>2. CASE /\ gw' = [gw EXCEPT !.pending = <<>>] /\ UNCHANGED header
             /\ calls' = Emit(gw.pending) \o Tail(calls)
    <3>1. gw' \in GzipWriter
      BY <1>0, <2>2, GzipType, NoData
    <3>2. calls' \in Seq(WriterCall)
      BY <2>2, <1>b, <1>d, <1>e
    <3>3. QED
      BY <1>10, <2>2, <3>1, <3>2 DEF TypeOK, GzipFlush, Frames, fixedVars,
         frameVars, writerVars, netVars, saidVars, recordVars
  <2>3. CASE calls' = Tail(calls) /\ UNCHANGED <<gw, header>>
    BY <1>10, <1>b, <2>3 DEF TypeOK, GzipFlush, Frames, fixedVars, frameVars,
       writerVars, netVars, saidVars, recordVars
  <2>4. QED
    BY <1>10, <2>1, <2>2, <2>3 DEF GzipFlush
<1>11. CASE GzipClose
  <2>1. gw' \in GzipWriter
    BY ZenonT(60), <1>0, <1>11, GzipType, NoData DEF GzipClose
  <2>2. header' \in Header
    BY <1>0, <1>11, HeaderType DEF GzipClose
  <2>3. Packed(gw.pending) \o End \in Data
    BY <1>d, PackedType, EndType, Concatenated
  <2>4. calls' \in Seq(WriterCall)
    <3>1. /\ WriteCall(orig["gzip"], Packed(gw.pending) \o End) \in WriterCall
          /\ WriteCall(orig["gzip"], gw.buf) \in WriterCall
      BY <1>c, <1>d, <2>3, CallTypes
    <3>2. /\ <<WriteCall(orig["gzip"], Packed(gw.pending) \o End)>>
                 \in Seq(WriterCall)
          /\ <<WriteCall(orig["gzip"], gw.buf)>> \in Seq(WriterCall)
          /\ <<>> \in Seq(WriterCall)
      BY <3>1
    <3>3. QED
      BY ZenonT(60), <1>11, <3>2 DEF GzipClose
  <2>5. QED
    BY <1>11, <2>1, <2>2, <2>4 DEF TypeOK, GzipClose, Frames, fixedVars,
       frameVars, writerVars, netVars, saidVars, recordVars
<1>12. QED
  BY <1>1, <1>2, <1>3, <1>4, <1>5, <1>6, <1>7, <1>8, <1>9, <1>10, <1>11
     DEF Writers

LEMMA MiddlewareTypes ==
    ASSUME TypeOK, Middleware
    PROVE  TypeOK'
<1>0. /\ calls \in Seq(WriterCall) /\ gw \in GzipWriter /\ header \in Header
     /\ writer \in Sink /\ c.wrote \in BOOLEAN /\ \A w \in Wrappers : orig[w] \in Sink
  BY DEF TypeOK
<1>a. /\ orig["gzip"] \in Sink /\ orig["timeout"] \in Sink
      /\ orig["access_log"] \in Sink
  BY <1>0 DEF Wrappers
<1>b. enabled \in SUBSET Layers /\ at \in Frames
  BY DEF TypeOK
<1>c. StatusCode \in Codes
  BY DEF TypeOK, StatusCode, Codes
<1> USE DEF Entering, Leaving, Unwinding, Frames, fixedVars, frameVars,
        writerVars, netVars, saidVars, recordVars
<1>1. CASE PassOn
  BY <1>1, <1>b, InnerIsNext DEF TypeOK, PassOn
<1>2. CASE EnterTimeout
  BY <1>2, <1>b, InnerIsNext DEF TypeOK, EnterTimeout, Install, Wrappers, Sink
<1>3. CASE EnterGzip
  BY <1>3, <1>b, InnerIsNext DEF TypeOK, EnterGzip, Install, Wrappers, Sink
<1>5. CASE EnterAccessLog
  BY <1>5, <1>b, InnerIsNext DEF TypeOK, EnterAccessLog, Install, Wrappers,
     Sink
<1>4. CASE EnterMetrics
  <2>1. m \in [requests : Nat, inFlight : Int, statuses : Seq(Codes)]
    BY DEF TypeOK
  <2>2. m' \in [requests : Nat, inFlight : Int, statuses : Seq(Codes)]
    <3>1. m' = [m EXCEPT !.requests = m.requests + 1,
                         !.inFlight = m.inFlight + 1]
      BY <1>4 DEF EnterMetrics
    <3>2. m.requests + 1 \in Nat /\ m.inFlight + 1 \in Int
      BY <2>1
    <3>3. QED
      BY <2>1, <3>1, <3>2
  <2>3. QED
    BY <1>4, <1>b, <2>2, InnerIsNext DEF TypeOK, EnterMetrics
<1>6. CASE LeaveAccessLog
  BY <1>6, <1>b, <1>a, <1>c, OuterIsNext DEF TypeOK, LeaveAccessLog
<1>7. CASE LeaveMetrics
  <2>1. m \in [requests : Nat, inFlight : Int, statuses : Seq(Codes)]
    BY DEF TypeOK
  <2>2. Append(m.statuses, StatusCode) \in Seq(Codes)
    BY <1>c, <2>1 DEF Codes
  <2>3. m' \in [requests : Nat, inFlight : Int, statuses : Seq(Codes)]
    <3>1. m' = [m EXCEPT !.inFlight = m.inFlight - 1,
                         !.statuses = Append(m.statuses, StatusCode)]
      BY <1>7 DEF LeaveMetrics
    <3>2. m.inFlight - 1 \in Int
      BY <2>1
    <3>3. QED
      BY <2>1, <2>2, <3>1, <3>2
  <2>4. QED
    BY <1>7, <1>b, <2>3, OuterIsNext DEF TypeOK, LeaveMetrics
<1>8. CASE UnwindMetrics
  <2>1. m \in [requests : Nat, inFlight : Int, statuses : Seq(Codes)]
    BY DEF TypeOK
  <2>2. Append(m.statuses, 500) \in Seq(Codes)
    BY <2>1 DEF Codes
  <2>3. m' \in [requests : Nat, inFlight : Int, statuses : Seq(Codes)]
    <3>1. m' = [m EXCEPT !.inFlight = m.inFlight - 1,
                         !.statuses = Append(m.statuses, 500)]
      BY <1>8 DEF UnwindMetrics
    <3>2. m.inFlight - 1 \in Int
      BY <2>1
    <3>3. QED
      BY ZenonT(60), <2>1, <2>2, <3>1, <3>2
  <2>4. QED
    BY <1>8, <1>b, <2>3, OuterIsNext DEF TypeOK, UnwindMetrics
<1>9. CASE CloseGzip
  <2>1. calls' \in Seq(WriterCall)
    BY <1>9, CallTypes, Prepend DEF CloseGzip, Sink, Wrappers
  <2>2. QED
    BY <1>9, <2>1 DEF TypeOK, CloseGzip
<1>10. CASE LeaveGzip
  BY <1>10, <1>b, <1>a, OuterIsNext DEF TypeOK, LeaveGzip
<1>11. CASE UnwindWriter
  BY <1>11, <1>b, OuterIsNext DEF TypeOK, UnwindWriter
<1>12. CASE LeaveTimeout
  <2>1. header' \in Header
    BY <1>0, <1>12, HeaderType DEF LeaveTimeout
  <2>2. calls' \in Seq(WriterCall)
    <3>1. Answer(orig["timeout"], FALSE, 503, 503) \in Seq(WriterCall)
      <4>1. 503 \in Codes /\ Plain(503) \in Data
        BY PlainType DEF Codes
      <4>2. /\ HeaderCall(orig["timeout"], 503) \in WriterCall
            /\ WriteCall(orig["timeout"], Plain(503)) \in WriterCall
        BY <1>a, <4>1, CallTypes
      <4>3. QED
        BY <4>2 DEF Answer
    <3>2. QED
      BY ZenonT(60), <1>0, <1>12, <3>1 DEF LeaveTimeout
  <2>3. c' \in [wrote : BOOLEAN, status : Codes \cup {0}]
    <3>1. c \in [wrote : BOOLEAN, status : Codes \cup {0}]
      BY DEF TypeOK
    <3>2. \/ c' = [wrote |-> TRUE, status |-> 503]
          \/ c' = c
      BY <1>12 DEF LeaveTimeout
    <3>3. [wrote |-> TRUE, status |-> 503]
              \in [wrote : BOOLEAN, status : Codes \cup {0}]
      BY DEF Codes
    <3>4. QED
      BY ZenonT(60), <3>1, <3>2, <3>3
  <2>4. at' \in Frames' /\ deadline' \in {"none", "live", "passed",
     "cancelled"}
    BY <1>12, <1>b, OuterIsNext DEF TypeOK, LeaveTimeout, Cancel
  <2>5. QED
    BY <1>12, <1>a, <2>1, <2>2, <2>3, <2>4 DEF TypeOK, LeaveTimeout
<1>13. CASE UnwindTimeout
  BY <1>13, <1>b, OuterIsNext DEF TypeOK, UnwindTimeout, Cancel
<1>14. CASE LeaveRecovery
  BY <1>14, <1>b, OuterIsNext DEF TypeOK, LeaveRecovery
<1>15. CASE Recover
  <2>1. header' \in Header
    BY <1>0, <1>15, HeaderType DEF Recover
  <2>2. calls' \in Seq(WriterCall)
    BY <1>0, <1>15, AnswerType DEF Recover, Codes
  <2>3. c' \in [wrote : BOOLEAN, status : Codes \cup {0}]
    BY <1>15 DEF TypeOK, Recover, Codes
  <2>4. at' \in Frames'
    BY <1>15, <1>b, OuterIsNext DEF Recover
  <2>5. QED
    BY <1>15, <2>1, <2>2, <2>3, <2>4 DEF TypeOK, Recover
<1>16. CASE Finish
  <2>1. sent' \in Sent
    BY <1>16, CommitType DEF TypeOK, Finish, Codes
  <2>2. QED
    BY <1>16, <2>1 DEF TypeOK, Finish, Frames, fixedVars, writerVars, saidVars,
       recordVars
<1>17. CASE Abort
  BY <1>17, <1>b DEF TypeOK, Abort
<1>18. QED
  BY <1>1, <1>2, <1>3, <1>4, <1>5, <1>6, <1>7, <1>8, <1>9,
     <1>10, <1>11, <1>12, <1>13, <1>14, <1>15, <1>16, <1>17 DEF Middleware

\* Every variable keeps its type, for every set of middleware combinations,
\* every kind of handler and any number of writes (every action).
THEOREM TypeCorrect == Spec => []TypeOK
<1>1. Init => TypeOK
  <2> SUFFICES ASSUME Init
               PROVE  TypeOK
    OBVIOUS
  <2>1. enabled \in SUBSET Layers /\ ops \in SUBSET HandlerOps
    BY LayerSetsAssumption, OpSetsAssumption DEF Init
  <2>2. \A S : <<>> \in Seq(S)
    OBVIOUS
  <2>3. gw \in GzipWriter /\ body \in Data
    BY NoData DEF Init, GzipWriter
  <2>4. header \in Header /\ sent \in Sent
    BY DEF Init, Header, Sent
  <2>5. QED
    BY <2>1, <2>2, <2>3, <2>4 DEF Init, TypeOK, Frames, Sink, Wrappers
<1>2. TypeOK /\ [Next]_vars => TypeOK'
  <2> SUFFICES ASSUME TypeOK, [Next]_vars
               PROVE  TypeOK'
    OBVIOUS
  <2>1. CASE Expire
    BY <2>1 DEF TypeOK, Expire, Frames, fixedVars, frameVars, writerVars,
       netVars, saidVars, recordVars
  <2>2. CASE Handler \/ Writers \/ Middleware
    BY <2>2, HandlerTypes, WriterTypes, MiddlewareTypes
  <2>3. CASE UNCHANGED vars
    BY <2>3 DEF TypeOK, vars, Frames, fixedVars, frameVars, writerVars, netVars,
       saidVars, recordVars
  <2>4. QED
    BY <2>1, <2>2, <2>3 DEF Next
<1>3. QED
  BY <1>1, <1>2, PTL DEF Spec

-----------------------------------------------------------------------------
(* The deadline.                                                           *)

\* A writer whose calls all end at the writer of the timeout middleware.
Guarded(w) ==
    \/ w = "timeout"
    \/ w = "gzip" /\ orig["gzip"] = "timeout"
    \/ /\ w = "access_log"
       /\ \/ orig["access_log"] = "timeout"
          \/ orig["access_log"] = "gzip" /\ orig["gzip"] = "timeout"

\* The wrapper l has been entered and has installed its writer.
Past(l) == Position[at] > Position[l] \/ (at = l /\ mode # "down")

HarmlessCalls ==
    {call \in WriterCall :
        Guarded(call.to) \/ (call.to = "server" /\ call.data = <<>>)}

TimeoutCalls ==
    {call \in WriterCall :
        call.to = "server" /\ call.data \in {<<>>, Plain(503)}}

\* The timeout middleware has not been entered,
Before ==
    /\ at \in {"server", "recovery", "timeout"} /\ mode = "down"
    /\ calls = <<>> /\ writer = "server"

\* or it has been entered, and maybe left by a panic: then every writer in use
\* is one of its own or wraps it,
Inside ==
    /\ Guarded(writer)
    /\ calls \in Seq(HarmlessCalls)
    /\ mode = "down" => Position[at] > 2
    /\ mode = "down" /\ Position[at] <= 3 => writer = "timeout"
    /\ mode = "down" /\ Position[at] <= 5 => writer # "access_log"
    /\ "gzip" \in enabled /\ Past("gzip") => orig["gzip"] = "timeout"
    /\ "access_log" \in enabled /\ Past("access_log") => Guarded("access_log")

\* or it has returned: nobody writes any more but itself.
After ==
    /\ at \in {"server", "recovery"} /\ mode \in {"up", "end"}
    /\ Expired
    /\ calls \in Seq(TimeoutCalls)

DeafInv ==
    IF "timeout" \in enabled
    THEN \/ deadline = "none" /\ Before
         \/ /\ deadline # "none" /\ orig["timeout"] = "server"
            /\ Inside \/ After
    ELSE deadline = "none"

\* Without the timeout middleware there is no deadline.
LEMMA NoDeadline ==
    ASSUME TypeOK, DeafInv, "timeout" \notin enabled, [Next]_vars
    PROVE  DeafInv'
<1>1. at # "timeout" /\ deadline = "none"
  BY DEF TypeOK, DeafInv, Frames
<1>2. enabled' = enabled /\ deadline' = "none"
  <2>1. CASE Expire
    BY <1>1, <2>1 DEF Expire
  <2>2. CASE Handler
    BY <1>1, <2>2 DEF Handler, Respond, SetStatus, DirectStatus, ServeContent,
       File, DirectFile, Write, Flush, Panic, Return, fixedVars, frameVars,
       writerVars, netVars, saidVars, recordVars
  <2>3. CASE Writers
    BY <1>1, <2>3 DEF Writers, ToServer, ToAccessLog, ToTimeout, FlushTimeout,
       GzipHeader, GzipPass, GzipBuffer, GzipStart, GzipWrite, GzipFlush,
       GzipClose, fixedVars, frameVars, writerVars, netVars, saidVars,
       recordVars
  <2>4. CASE Middleware
    BY <1>1, <2>4 DEF Middleware, PassOn, EnterTimeout, EnterGzip, EnterMetrics,
       EnterAccessLog, LeaveAccessLog, LeaveMetrics, UnwindMetrics, CloseGzip,
       LeaveGzip, UnwindWriter, LeaveTimeout, UnwindTimeout, LeaveRecovery,
       Recover, Finish, Abort, Entering, Leaving, Unwinding, fixedVars,
       frameVars, writerVars, netVars, saidVars, recordVars
  <2>5. CASE UNCHANGED vars
    BY <1>1, <2>5 DEF vars, fixedVars, frameVars, writerVars, netVars, saidVars,
       recordVars
  <2>6. QED
    BY <2>1, <2>2, <2>3, <2>4, <2>5 DEF Next
<1>3. QED
  BY <1>2 DEF DeafInv

LEMMA DeafHandler ==
    ASSUME TypeOK, DeafInv, "timeout" \in enabled, Handler
    PROVE  DeafInv'
<1>1. at = "handler" /\ mode = "down" /\ calls = <<>>
  BY DEF Handler, Respond, SetStatus, DirectStatus, ServeContent, File,
     DirectFile, Write, Flush, Panic, Return, Handling, Entering
<1>2. deadline # "none" /\ orig["timeout"] = "server" /\ Inside
  BY <1>1 DEF DeafInv, Before, After
<1>3. writer \in Sink /\ Guarded(writer) /\ enabled \in SUBSET Layers
      /\ c.wrote \in BOOLEAN /\ at \in Frames
  BY <1>2 DEF TypeOK, Inside
<1>4. UNCHANGED <<enabled, writer, orig, deadline>>
  BY DEF Handler, Respond, SetStatus, DirectStatus, ServeContent, File,
     DirectFile, Write, Flush, Panic, Return, fixedVars, frameVars, writerVars,
     netVars, saidVars, recordVars
<1>5. HarmlessCalls' = HarmlessCalls /\ Guarded(writer)'
      /\ (Guarded("access_log"))' = Guarded("access_log")
  BY <1>3, <1>4 DEF HarmlessCalls, Guarded
<1>6. /\ \A code \in Codes : HeaderCall(writer, code) \in HarmlessCalls
      /\ \A data \in Data : WriteCall(writer, data) \in HarmlessCalls
      /\ FlushCall(writer) \in HarmlessCalls
  <2>1. /\ \A code \in Codes : HeaderCall(writer, code) \in WriterCall
        /\ \A data \in Data : WriteCall(writer, data) \in WriterCall
        /\ FlushCall(writer) \in WriterCall
    BY <1>3, CallTypes
  <2>2. /\ \A code \in Codes : HeaderCall(writer, code).to = writer
        /\ \A data \in Data : WriteCall(writer, data).to = writer
        /\ FlushCall(writer).to = writer
    BY DEF HeaderCall, WriteCall, FlushCall
  <2>3. QED
    BY <1>3, <2>1, <2>2 DEF HarmlessCalls
<1>7. 200 \in Codes /\ 404 \in Codes /\ Plain(1) \in Data
  BY PlainType, FirstWrite DEF Codes
<1>8. calls' \in Seq(HarmlessCalls)
  <2>1. ASSUME NEW code \in {200, 404}, Respond(code)
        PROVE  calls' \in Seq(HarmlessCalls)
    BY <1>6, <1>7, <2>1 DEF Respond, Answer
  <2>2. ASSUME NEW code \in {200, 404},
               NEW type \in {"none", "text", "binary"}, SetStatus(code, type)
        PROVE  calls' \in Seq(HarmlessCalls)
    BY <1>6, <1>7, <2>2 DEF SetStatus
  <2>3. ASSUME NEW type \in {"text", "binary"}, File(type) \/ DirectFile(type)
        PROVE  calls' \in Seq(HarmlessCalls)
    <3>1. /\ HeaderCall(writer, 200) \in HarmlessCalls
          /\ WriteCall(writer, Plain(1)) \in HarmlessCalls
      BY <1>6, <1>7
    <3>2. ServeContent(type)
      BY <2>3 DEF File, DirectFile
    <3>3. QED
      BY <3>1, <3>2 DEF ServeContent
  <2>4. CASE Write
    <3>1. Len(written) + 1 \in 1 .. MaxWrites
      BY MaxWritesAssumption, <2>4 DEF Write, TypeOK
    <3>2. Plain(Len(written) + 1) \in Data
      BY <3>1, PlainType
    <3>3. WriteCall(writer, Plain(Len(written) + 1)) \in HarmlessCalls
      BY <1>6, <3>2
    <3>4. QED
      BY <2>4, <3>3 DEF Write
  <2>5. CASE Flush
    BY <1>6, <2>5 DEF Flush
  <2>6. CASE Panic \/ Return
    <3>1. calls' = <<>>
      BY <1>1, <2>6 DEF Panic, Return
    <3>2. QED
      BY <3>1
  <2>7. ASSUME NEW code \in {200, 404},
               NEW type \in {"none", "text", "binary"}, DirectStatus(code, type)
        PROVE  calls' \in Seq(HarmlessCalls)
    BY <1>6, <1>7, <2>7 DEF DirectStatus
  <2>8. QED
    BY <2>1, <2>2, <2>3, <2>4, <2>5, <2>6, <2>7 DEF Handler
<1>9. \/ at' = at /\ mode' = mode
      \/ Position[at'] < 6 /\ mode' # "down"
  BY <1>1, <1>3, OuterIsNext, Positions DEF Handler, Respond, SetStatus,
     DirectStatus, ServeContent, File, DirectFile, Write, Flush, Panic, Return,
     fixedVars, frameVars, writerVars, netVars, saidVars, recordVars
<1>10. Past("gzip") /\ Past("access_log")
  BY <1>1, Positions DEF Past
<1>11. Inside'
  BY <1>1, <1>2, <1>4, <1>5, <1>8, <1>9, <1>10, Positions DEF Inside
<1>12. QED
  BY <1>2, <1>4, <1>11 DEF DeafInv

LEMMA DeafWriters ==
    ASSUME TypeOK, DeafInv, "timeout" \in enabled, Writers
    PROVE  DeafInv'
<1>1. calls # <<>> /\ calls \in Seq(WriterCall)
  BY DEF TypeOK, Writers, ToServer, ToAccessLog, ToTimeout, FlushTimeout,
     GzipHeader, GzipPass, GzipBuffer, GzipStart, GzipWrite, GzipFlush,
     GzipClose, Calling
<1>2. UNCHANGED <<enabled, at, mode, writer, orig, deadline>>
  BY DEF Writers, ToServer, ToAccessLog, ToTimeout, FlushTimeout, GzipHeader,
     GzipPass, GzipBuffer, GzipStart, GzipWrite, GzipFlush, GzipClose,
     fixedVars, frameVars, writerVars, netVars, saidVars, recordVars
<1>3. deadline # "none" /\ orig["timeout"] = "server" /\ (Inside \/ After)
  BY <1>1 DEF DeafInv, Before
<1>4. CASE After
  <2>1. /\ Call \in TimeoutCalls /\ Call.to = "server"
        /\ Tail(calls) \in Seq(TimeoutCalls)
    BY <1>1, <1>4 DEF After, Call, TimeoutCalls
  <2>2. ToServer
    BY <2>1 DEF Writers, ToAccessLog, ToTimeout, FlushTimeout, GzipHeader,
       GzipPass, GzipBuffer, GzipStart, GzipWrite, GzipFlush, GzipClose,
       Calling, Call
  <2>3. calls' \in Seq(TimeoutCalls)
    BY <2>1, <2>2 DEF ToServer
  <2>4. After'
    BY <1>2, <1>4, <2>3 DEF After, Expired, TimeoutCalls
  <2>5. QED
    BY <1>2, <1>3, <2>4 DEF DeafInv
<1>5. CASE Inside
  <2>1. /\ Call \in HarmlessCalls /\ Call \in WriterCall
        /\ Head(calls) = Call
        /\ Tail(calls) \in Seq(HarmlessCalls)
    BY <1>1, <1>5 DEF Inside, Call, HarmlessCalls
  <2>2. /\ Call.data \in Data /\ Call.code \in Codes \cup {0}
        /\ gw.buf \in Data /\ gw.pending \in Data
        /\ orig["gzip"] \in Sink /\ orig["access_log"] \in Sink
    BY <2>1 DEF TypeOK, WriterCall, GzipWriter, Wrappers
  <2>3. calls' \in Seq(HarmlessCalls)
    <3>1. CASE ToServer \/ ToTimeout
      BY <2>1, <3>1 DEF ToServer, ToTimeout
    <3>2. CASE ToAccessLog
      <4>1. Call.to = "access_log"
        BY <2>1, <3>2 DEF ToAccessLog, Calling
      <4>2. Guarded(orig["access_log"])
        BY <2>1, <4>1 DEF HarmlessCalls, Guarded
      <4>3. [Call EXCEPT !.to = orig["access_log"]] \in WriterCall
        BY <2>1, <2>2, CallTypes
      <4>4. [Call EXCEPT !.to = orig["access_log"]].to = orig["access_log"]
        BY <2>1 DEF WriterCall
      <4>5. [Call EXCEPT !.to = orig["access_log"]] \in HarmlessCalls
        BY <4>2, <4>3, <4>4 DEF HarmlessCalls
      <4>6. QED
        BY <2>1, <3>2, <4>5 DEF ToAccessLog
    <3>3. CASE FlushTimeout
      <4>1. FlushCall("server") \in HarmlessCalls
        <5>1. FlushCall("server") \in WriterCall
          BY CallTypes DEF Sink
        <5>2. QED
          BY <5>1 DEF HarmlessCalls, FlushCall
      <4>2. QED
        BY <1>3, <2>1, <3>3, <4>1 DEF FlushTimeout
    <3>4. CASE \/ GzipHeader \/ GzipPass \/ GzipBuffer \/ GzipStart
               \/ GzipWrite \/ GzipFlush \/ GzipClose
      <4>1. Call.to = "gzip"
        BY <2>1, <3>4 DEF GzipHeader, GzipPass, GzipBuffer, GzipStart,
           GzipWrite, GzipFlush, GzipClose, Calling
      <4>2. orig["gzip"] = "timeout"
        BY <2>1, <4>1 DEF HarmlessCalls, Guarded
      <4>3. /\ \A code \in Codes \cup {0} :
                   HeaderCall(orig["gzip"], code) \in HarmlessCalls
            /\ \A data \in Data :
                   WriteCall(orig["gzip"], data) \in HarmlessCalls
        <5>1. /\ \A code \in Codes \cup {0} :
                     HeaderCall("timeout", code) \in WriterCall
              /\ \A data \in Data : WriteCall("timeout", data) \in WriterCall
          BY NoData DEF HeaderCall, WriteCall, WriterCall, Sink, Wrappers
        <5>2. /\ \A code \in Codes \cup {0} :
                     HeaderCall("timeout", code).to = "timeout"
              /\ \A data \in Data : WriteCall("timeout", data).to = "timeout"
          BY DEF HeaderCall, WriteCall
        <5>3. QED
          BY <4>2, <5>1, <5>2 DEF HarmlessCalls, Guarded
      <4>4. \A data \in Data : Emit(data) \in Seq(HarmlessCalls)
        BY <4>3, PackedType DEF Emit
      <4>5. \A data, more :
                more \in Seq(HarmlessCalls) /\ Start(data, more)
                    => calls' \in Seq(HarmlessCalls)
        <5>1. HeaderCall(orig["gzip"], 200) \in HarmlessCalls
          BY <4>3 DEF Codes
        <5>2. QED
          BY <2>1, <5>1 DEF Start
      <4>6. CASE GzipHeader
        <5>1. HeaderCall(orig["gzip"], Call.code) \in HarmlessCalls
          BY <2>2, <4>3
        <5>2. <<HeaderCall(orig["gzip"], Call.code)>> \o Tail(calls)
                  \in Seq(HarmlessCalls)
          BY <2>1, <5>1
        <5>3. calls' \in {Tail(calls), <<HeaderCall(orig["gzip"], Call.code)>>
                                           \o Tail(calls)}
          BY <4>6 DEF GzipHeader
        <5>4. QED
          BY <2>1, <5>2, <5>3
      <4>7. CASE GzipPass
        <5>1. WriteCall(orig["gzip"], Call.data) \in HarmlessCalls
          BY <2>2, <4>3
        <5>2. QED
          BY <2>1, <4>7, <5>1 DEF GzipPass
      <4>8. CASE GzipBuffer
        BY <2>1, <4>8 DEF GzipBuffer
      <4>9. CASE GzipStart
        <5>1. gw.buf \o Call.data \in Data /\ <<>> \in Seq(HarmlessCalls)
          BY <2>2, Concatenated
        <5>2. Emit(gw.buf \o Call.data) \in Seq(HarmlessCalls)
          BY <4>4, <5>1
        <5>3. QED
          BY <4>5, <4>9, <5>1, <5>2 DEF GzipStart
      <4>10. CASE GzipWrite
        <5>1. Emit(gw.pending \o Call.data) \in Seq(HarmlessCalls)
          BY <2>2, <4>4, Concatenated
        <5>2. Emit(gw.pending \o Call.data) \o Tail(calls)
                  \in Seq(HarmlessCalls)
          BY <2>1, <5>1
        <5>3. QED
          BY <2>1, <4>10, <5>2 DEF GzipWrite
      <4>11. CASE GzipFlush
        <5>1. /\ Emit(gw.buf) \in Seq(HarmlessCalls)
              /\ Emit(gw.pending) \in Seq(HarmlessCalls)
          BY <2>2, <4>4
        <5>2. Emit(gw.pending) \o Tail(calls) \in Seq(HarmlessCalls)
          BY <2>1, <5>1
        <5>3. QED
          BY <2>1, <4>5, <4>11, <5>1, <5>2 DEF GzipFlush
      <4>12. CASE GzipClose
        <5>1. Packed(gw.pending) \o End \in Data
          BY <2>2, PackedType, EndType, Concatenated
        <5>2. /\ WriteCall(orig["gzip"], Packed(gw.pending) \o End)
                     \in HarmlessCalls
              /\ WriteCall(orig["gzip"], gw.buf) \in HarmlessCalls
          BY <2>2, <4>3, <5>1
        <5>3. /\ <<WriteCall(orig["gzip"], Packed(gw.pending) \o End)>>
                     \in Seq(HarmlessCalls)
              /\ <<WriteCall(orig["gzip"], gw.buf)>> \in Seq(HarmlessCalls)
              /\ <<>> \in Seq(HarmlessCalls)
          BY <5>2
        <5>4. QED
          BY <4>12, <5>3 DEF GzipClose
      <4>13. QED
        BY <3>4, <4>6, <4>7, <4>8, <4>9, <4>10, <4>11, <4>12
    <3>5. QED
      BY <3>1, <3>2, <3>3, <3>4 DEF Writers
  <2>4. Inside'
    BY <1>2, <1>5, <2>3 DEF Inside, HarmlessCalls, Guarded, Past
  <2>5. QED
    BY <1>2, <1>3, <2>4 DEF DeafInv
<1>6. QED
  BY <1>3, <1>4, <1>5

\* On the way in: a frame that is entered next is the nearest one, so every
\* wrapper that is installed finds the writer of the timeout middleware, or one
\* around it, in the Context.
LEMMA DeafEntering ==
    ASSUME TypeOK, DeafInv, "timeout" \in enabled,
           PassOn \/ EnterTimeout \/ EnterGzip \/ EnterMetrics \/ EnterAccessLog
    PROVE  DeafInv'
<1>1. /\ enabled \in SUBSET Layers /\ at \in Frames /\ enabled' = enabled
      /\ mode = "down" /\ mode' = "down" /\ calls = <<>> /\ calls' = <<>>
      /\ at' = Inner(at) /\ at # "handler"
      /\ orig \in [Wrappers -> Sink]
  BY DEF TypeOK, PassOn, EnterTimeout, EnterGzip, EnterMetrics, EnterAccessLog,
     Entering, fixedVars, frameVars, writerVars, netVars, saidVars, recordVars
<1>2. /\ at' \in Frames /\ Position[at'] > Position[at]
      /\ \A g \in enabled : Position[g] > Position[at]
                                => Position[at'] <= Position[g]
  BY <1>1, InnerIsNext DEF Frames
<1>3. /\ Frames \subseteq Layers \cup {"server", "handler"}
      /\ Position[at] \in 0 .. 6 /\ Position[at'] \in 0 .. 6
  <2>1. Frames \subseteq Layers \cup {"server", "handler"}
    BY <1>1 DEF Frames
  <2>2. QED
    BY SMTT(60), <1>1, <1>2, <2>1, Positions DEF Layers
<1>4. calls' \in Seq(HarmlessCalls')
  BY <1>1
<1>5. CASE PassOn
  <2>1. deadline = "none" /\ Before
    BY <1>5, Positions DEF DeafInv, Inside, After, PassOn, Entering
  <2>2. Position[at'] <= 2
    BY <1>2, <1>5, Positions DEF PassOn, Entering
  <2>3. at' \in {"server", "recovery", "timeout"}
    BY <1>2, <1>3, <2>2, Positions DEF Layers
  <2>4. QED
    BY <1>1, <1>5, <2>1, <2>3 DEF DeafInv, Before, PassOn, fixedVars, frameVars,
       writerVars, netVars, saidVars, recordVars
<1>6. CASE EnterTimeout
  <2>1. deadline = "none" /\ writer = "server"
    BY <1>6, Positions DEF DeafInv, Inside, After, Before, EnterTimeout,
       Entering
  <2>2. /\ orig'["timeout"] = "server" /\ writer' = "timeout"
        /\ deadline' = "live"
    BY <1>1, <1>6, <2>1 DEF EnterTimeout, Install, Wrappers
  <2>3. at = "timeout"
    BY <1>6 DEF EnterTimeout, Entering
  <2>4. ~ ("gzip" \in enabled /\ Past("gzip")')
    BY <1>1, <1>2, <1>3, <2>3, Positions DEF Past
  <2>5. ~ ("access_log" \in enabled /\ Past("access_log")')
    BY <1>1, <1>2, <1>3, <2>3, Positions DEF Past
  <2>6. Inside'
    BY <1>1, <1>2, <1>3, <1>4, <2>2, <2>3, <2>4, <2>5, Positions
       DEF Inside, Guarded
  <2>7. QED
    BY <1>1, <2>2, <2>6 DEF DeafInv
<1>7. CASE EnterGzip \/ EnterMetrics \/ EnterAccessLog
  <2>1. /\ deadline # "none" /\ orig["timeout"] = "server" /\ Inside
        /\ deadline' = deadline
    BY <1>7 DEF DeafInv, Before, After, EnterGzip, EnterMetrics, EnterAccessLog,
       Entering, fixedVars, frameVars, writerVars, netVars, saidVars, recordVars
  <2>2. CASE EnterGzip
    <3>1. at = "gzip" /\ writer = "timeout"
      BY <1>1, <2>1, <2>2, Positions DEF EnterGzip, Entering, Inside
    <3>2. /\ writer' = "gzip" /\ orig'["gzip"] = "timeout"
          /\ orig'["timeout"] = "server"
      BY <1>1, <2>1, <2>2, <3>1 DEF EnterGzip, Install, Wrappers
    <3>3. ~ ("access_log" \in enabled /\ Past("access_log")')
      BY <1>1, <1>2, <1>3, <3>1, Positions DEF Past
    <3>4. Inside'
      BY <1>1, <1>2, <1>3, <1>4, <3>1, <3>2, <3>3, Positions
         DEF Inside, Guarded
    <3>5. QED
      BY <1>1, <2>1, <3>2, <3>4 DEF DeafInv
  <2>3. CASE EnterMetrics
    <3>1. at = "metrics" /\ writer' = writer /\ orig' = orig
      BY <2>3 DEF EnterMetrics, Entering, fixedVars, frameVars, writerVars,
         netVars, saidVars, recordVars
    <3>2. ~ ("access_log" \in enabled /\ Past("access_log")')
      BY <1>1, <1>2, <1>3, <3>1, Positions DEF Past
    <3>3. Past("gzip")
      BY <3>1, Positions DEF Past
    <3>4. Inside'
      BY <1>1, <1>2, <1>3, <1>4, <2>1, <3>1, <3>2, <3>3, Positions
         DEF Inside, Guarded
    <3>5. QED
      BY <1>1, <2>1, <3>1, <3>4 DEF DeafInv
  <2>4. CASE EnterAccessLog
    <3>1. at = "access_log" /\ Past("gzip")
      BY <2>4, Positions DEF EnterAccessLog, Entering, Past
    <3>2. Guarded(writer) /\ writer # "access_log"
      BY <1>1, <2>1, <3>1, Positions DEF Inside
    <3>3. /\ writer' = "access_log" /\ orig'["access_log"] = writer
          /\ orig'["timeout"] = "server" /\ orig'["gzip"] = orig["gzip"]
      BY <1>1, <2>1, <2>4 DEF EnterAccessLog, Install, Wrappers
    <3>4. Guarded("access_log")'
      BY <3>2, <3>3 DEF Guarded
    <3>5. Position[at'] = 6
      BY <1>2, <1>3, <3>1, Positions DEF Layers
    <3>6. Inside'
      BY <1>1, <1>4, <2>1, <3>1, <3>3, <3>4, <3>5, Positions DEF Inside
    <3>7. QED
      BY <1>1, <2>1, <3>3, <3>6 DEF DeafInv
  <2>5. QED
    BY <1>7, <2>2, <2>3, <2>4
<1>8. QED
  BY <1>5, <1>6, <1>7

\* On the way out.
LEMMA DeafLeaving ==
    ASSUME TypeOK, DeafInv, "timeout" \in enabled, Middleware,
           mode # "down"
    PROVE  DeafInv'
<1>1. /\ enabled \in SUBSET Layers /\ at \in Frames /\ enabled' = enabled
      /\ calls = <<>> /\ orig' = orig /\ mode' # "down"
  BY ZenonT(60) DEF TypeOK, Middleware, PassOn, EnterTimeout, EnterGzip,
     EnterMetrics, EnterAccessLog, LeaveAccessLog, LeaveMetrics, UnwindMetrics,
     CloseGzip, LeaveGzip, UnwindWriter, LeaveTimeout, UnwindTimeout,
     LeaveRecovery, Recover, Finish, Abort, Entering, Leaving, Unwinding,
     fixedVars, frameVars, writerVars, netVars, saidVars, recordVars
<1>2. deadline # "none" /\ orig["timeout"] = "server" /\ (Inside \/ After)
  BY DEF DeafInv, Before
<1>3. Frames \subseteq Layers \cup {"server", "handler"}
  BY <1>1 DEF Frames
<1>4. HarmlessCalls' = HarmlessCalls
  BY <1>1 DEF HarmlessCalls, Guarded
<1>5. CASE LeaveTimeout
  <2>1. at = "timeout"
    BY <1>5 DEF LeaveTimeout, Leaving
  <2>2. at' \in {"server", "recovery"}
    <3>1. at' = Outer(at)
      BY <1>5, <2>1 DEF LeaveTimeout
    <3>2. at' \in Frames /\ Position[at'] < 2
      BY <1>1, <2>1, <3>1, OuterIsNext, Positions
    <3>3. QED
      BY <1>3, <3>2, Positions DEF Layers
  <2>3. deadline' \in {"passed", "cancelled"} /\ mode' = "up"
    BY <1>2, <1>5 DEF TypeOK, LeaveTimeout, Cancel, Leaving
  <2>4. calls' \in Seq(TimeoutCalls)
    <3>1. HeaderCall("server", 503) \in TimeoutCalls
      <4>1. HeaderCall("server", 503) \in WriterCall
        BY CallTypes DEF Sink, Codes
      <4>2. QED
        BY <4>1 DEF HeaderCall, TimeoutCalls
    <3>2. WriteCall("server", Plain(503)) \in TimeoutCalls
      <4>1. WriteCall("server", Plain(503)) \in WriterCall
        BY CallTypes, PlainType DEF Sink
      <4>2. QED
        BY <4>1 DEF WriteCall, TimeoutCalls
    <3>3. <<HeaderCall("server", 503), WriteCall("server", Plain(503))>>
              \in Seq(TimeoutCalls)
      BY <3>1, <3>2
    <3>4. calls' \in {<<>>, <<HeaderCall("server", 503),
                               WriteCall("server", Plain(503))>>}
      BY <1>1, <1>2, <1>5 DEF LeaveTimeout, Answer
    <3>5. <<>> \in Seq(TimeoutCalls)
      OBVIOUS
    <3>6. QED
      BY ZenonT(60), <3>3, <3>4, <3>5
  <2>5. After'
    <3>1. TimeoutCalls' = TimeoutCalls
      BY DEF TimeoutCalls
    <3>2. QED
      BY <2>2, <2>3, <2>4, <3>1 DEF After, Expired
  <2>6. QED
    BY <1>1, <1>2, <2>3, <2>5 DEF DeafInv
<1>6. CASE After /\ ~LeaveTimeout
  <2>1. LeaveRecovery \/ Finish
    BY <1>6 DEF After, Middleware, PassOn, EnterTimeout, EnterGzip,
       EnterMetrics, EnterAccessLog, LeaveAccessLog, LeaveMetrics,
       UnwindMetrics, CloseGzip, LeaveGzip, UnwindWriter, UnwindTimeout,
       Recover, Abort, Entering, Leaving, Unwinding
  <2>2. at' \in {"server", "recovery"}
    <3>1. CASE Finish
      BY <1>6, <3>1 DEF After, Finish
    <3>2. CASE LeaveRecovery
      <4>1. at = "recovery" /\ at' = Outer(at)
        BY <3>2 DEF LeaveRecovery, Leaving
      <4>2. at' \in Frames /\ Position[at'] < 1
        BY <1>1, <4>1, OuterIsNext, Positions
      <4>3. QED
        BY <1>3, <4>2, Positions DEF Layers
    <3>3. QED
      BY <2>1, <3>1, <3>2
  <2>3. After'
    BY <1>6, <2>1, <2>2 DEF After, Expired, TimeoutCalls, LeaveRecovery, Finish,
       Leaving, fixedVars, frameVars, writerVars, netVars, saidVars, recordVars
  <2>4. deadline' = deadline
    BY <2>1 DEF LeaveRecovery, Finish, fixedVars, frameVars, writerVars,
       netVars, saidVars, recordVars
  <2>5. QED
    BY <1>1, <1>2, <2>3, <2>4 DEF DeafInv
<1>7. CASE Inside /\ ~LeaveTimeout
  <2>1. deadline' # "none"
    BY <1>2, <1>7 DEF Middleware, PassOn, EnterTimeout, EnterGzip, EnterMetrics,
       EnterAccessLog, LeaveAccessLog, LeaveMetrics, UnwindMetrics, CloseGzip,
       LeaveGzip, UnwindWriter, UnwindTimeout, LeaveRecovery, Recover, Finish,
       Abort, Entering, Cancel, fixedVars, frameVars, writerVars, netVars,
       saidVars, recordVars
  <2>2. \/ at' = at
        \/ at # "server" /\ at' = Outer(at)
    BY <1>7 DEF Middleware, PassOn, EnterTimeout, EnterGzip, EnterMetrics,
       EnterAccessLog, LeaveAccessLog, LeaveMetrics, UnwindMetrics, CloseGzip,
       LeaveGzip, UnwindWriter, UnwindTimeout, LeaveRecovery, Recover, Finish,
       Abort, Entering, Leaving, Unwinding, fixedVars, frameVars, writerVars,
       netVars, saidVars, recordVars
  <2>3. Position[at'] <= Position[at] /\ at' \in Frames
    <3>1. \A f \in Frames : Position[f] \in 0 .. 6
      BY <1>3, Positions DEF Layers
    <3>2. CASE at' = at
      BY <1>1, <3>1, <3>2
    <3>3. CASE at # "server" /\ at' = Outer(at)
      <4>1. Outer(at) \in Frames /\ Position[Outer(at)] < Position[at]
        BY <1>1, <3>3, OuterIsNext
      <4>2. Position[Outer(at)] \in 0 .. 6
        BY <3>1, <4>1
      <4>3. QED
        BY <1>1, <3>1, <3>3, <4>1, <4>2
    <3>4. QED
      BY <2>2, <3>2, <3>3
  <2>4. \A l \in {"gzip", "access_log"} : Past(l)' => Past(l)
    <3>1. \A l \in {"gzip", "access_log"} :
              at' = l => at = l \/ Position[at] > Position[l]
      <4>1. CASE at' = at
        BY <4>1
      <4>2. CASE at # "server" /\ at' = Outer(at)
        BY <1>1, <4>2, OuterIsNext
      <4>3. QED
        BY <2>2, <4>1, <4>2
    <3>2. /\ Position[at] \in 0 .. 6 /\ Position[at'] \in 0 .. 6
          /\ Position["gzip"] = 3 /\ Position["access_log"] = 5
      BY <1>1, <1>3, <2>3, Positions DEF Layers
    <3>3. QED
      BY <2>3, <3>1, <3>2 DEF Past
  <2>5. Guarded(writer)'
    <3>1. CASE LeaveAccessLog
      <4>1. at = "access_log" /\ writer' = orig["access_log"]
        BY <3>1 DEF LeaveAccessLog, Leaving
      <4>2. "access_log" \in enabled /\ Past("access_log")
        BY <1>1, <4>1 DEF Frames, Past
      <4>3. QED
        BY <1>1, <1>7, <4>1, <4>2 DEF Inside, Guarded
    <3>2. CASE LeaveGzip
      <4>1. at = "gzip" /\ writer' = orig["gzip"]
        BY <3>2 DEF LeaveGzip
      <4>2. "gzip" \in enabled /\ Past("gzip")
        BY <1>1, <4>1 DEF Frames, Past
      <4>3. QED
        BY <1>7, <4>1, <4>2 DEF Inside, Guarded
    <3>3. CASE ~LeaveAccessLog /\ ~LeaveGzip
      <4>1. writer' = writer
        BY <1>7, <3>3 DEF Middleware, PassOn, EnterTimeout, EnterGzip,
           EnterMetrics, EnterAccessLog, LeaveMetrics, UnwindMetrics, CloseGzip,
           UnwindWriter, UnwindTimeout, LeaveRecovery, Recover, Finish, Abort,
           Entering, fixedVars, frameVars, writerVars, netVars, saidVars,
           recordVars
      <4>2. QED
        BY <1>1, <1>7, <4>1 DEF Inside, Guarded
    <3>4. QED
      BY <3>1, <3>2, <3>3
  <2>6. calls' \in Seq(HarmlessCalls)
    <3>1. CASE CloseGzip
      <4>1. at = "gzip" /\ calls' = <<CloseCall("gzip")>>
        BY <3>1 DEF CloseGzip, Leaving
      <4>2. "gzip" \in enabled /\ Past("gzip")
        BY <1>1, <4>1 DEF Frames, Past
      <4>3. Guarded("gzip")
        BY <1>7, <4>2 DEF Inside, Guarded
      <4>4. CloseCall("gzip") \in WriterCall
        BY CallTypes DEF Sink, Wrappers
      <4>5. CloseCall("gzip") \in HarmlessCalls
        BY <4>3, <4>4 DEF HarmlessCalls, CloseCall
      <4>6. QED
        BY <4>1, <4>5
    <3>2. CASE Recover
      <4>1. Guarded(writer) /\ writer \in Sink /\ c.wrote \in BOOLEAN
        BY <1>7 DEF Inside, TypeOK
      <4>2. /\ HeaderCall(writer, 500) \in WriterCall
            /\ WriteCall(writer, Plain(500)) \in WriterCall
        BY <4>1, CallTypes, PlainType DEF Codes
      <4>3. HeaderCall(writer, 500).to = writer
            /\ WriteCall(writer, Plain(500)).to = writer
        BY DEF HeaderCall, WriteCall
      <4>4. /\ HeaderCall(writer, 500) \in HarmlessCalls
            /\ WriteCall(writer, Plain(500)) \in HarmlessCalls
        BY <4>1, <4>2, <4>3 DEF HarmlessCalls
      <4>5. QED
        BY <3>2, <4>4 DEF Recover, Answer
    <3>3. CASE ~CloseGzip /\ ~Recover
      <4>1. calls' = <<>>
        BY <1>1, <1>7, <3>3 DEF Middleware, PassOn, EnterTimeout, EnterGzip,
           EnterMetrics, EnterAccessLog, LeaveAccessLog, LeaveMetrics,
           UnwindMetrics, LeaveGzip, UnwindWriter, UnwindTimeout, LeaveRecovery,
           Finish, Abort, Entering, fixedVars, frameVars, writerVars, netVars,
           saidVars, recordVars
      <4>2. QED
        BY <4>1
    <3>4. QED
      BY <3>1, <3>2, <3>3
  <2>7. (Guarded("access_log"))' <=> Guarded("access_log")
    BY <1>1 DEF Guarded
  <2>8. Inside'
    BY <1>1, <1>4, <1>7, <2>4, <2>5, <2>6, <2>7 DEF Inside
  <2>9. QED
    BY <1>1, <1>2, <2>1, <2>8 DEF DeafInv
<1>8. QED
  BY <1>2, <1>5, <1>6, <1>7

LEMMA DeafInvariant == Spec => [](TypeOK /\ DeafInv)
<1>1. Init => DeafInv
  BY DEF Init, DeafInv, Before
<1>2. TypeOK /\ DeafInv /\ [Next]_vars => DeafInv'
  <2> SUFFICES ASSUME TypeOK, DeafInv, [Next]_vars
               PROVE  DeafInv'
    OBVIOUS
  <2>1. CASE "timeout" \notin enabled
    BY <2>1, NoDeadline
  <2>2. CASE "timeout" \in enabled
    <3>1. CASE Expire
      BY <2>2, <3>1 DEF DeafInv, Before, Inside, After, HarmlessCalls,
         TimeoutCalls, Guarded, Past, Expired, Expire, fixedVars, frameVars,
         writerVars, netVars, saidVars, recordVars
    <3>2. CASE Handler \/ Writers
      BY <2>2, <3>2, DeafHandler, DeafWriters
    <3>3. CASE Middleware /\ mode = "down"
      <4>1. PassOn \/ EnterTimeout \/ EnterGzip \/ EnterMetrics
                \/ EnterAccessLog
        BY <3>3 DEF Middleware, LeaveAccessLog, LeaveMetrics, UnwindMetrics,
           CloseGzip, LeaveGzip, UnwindWriter, LeaveTimeout, UnwindTimeout,
           LeaveRecovery, Recover, Finish, Abort, Leaving, Unwinding
      <4>2. QED
        BY <2>2, <4>1, DeafEntering
    <3>4. CASE Middleware /\ mode # "down"
      BY <2>2, <3>4, DeafLeaving
    <3>5. CASE UNCHANGED vars
      BY <2>2, <3>5 DEF DeafInv, Before, Inside, After, HarmlessCalls,
         TimeoutCalls, Guarded, Past, Expired, vars, fixedVars, frameVars,
         writerVars, netVars, saidVars, recordVars
    <3>6. QED
      BY <3>1, <3>2, <3>3, <3>4, <3>5 DEF Next
  <2>3. QED
    BY <2>1, <2>2
<1>3. QED
  BY <1>1, <1>2, TypeCorrect, PTL DEF Spec

\* Once the deadline has passed or the context is cancelled, nothing reaches
\* the client but the 503 of the timeout middleware, whatever else is installed
\* and whatever the handler does (timeoutWriter, TimeoutWithOptions).
THEOREM DeafToLateWrites == Spec => DeafAfterDeadline
<1> DEFINE Deaf == Expired => body' \in {body, body \o Plain(503)}
<1>1. TypeOK /\ DeafInv /\ [Next]_vars => [Deaf]_vars
  <2> SUFFICES ASSUME TypeOK, DeafInv, Next, Expired
               PROVE  body' \in {body, body \o Plain(503)}
    BY DEF vars, fixedVars, frameVars, writerVars, netVars, saidVars, recordVars
  <2>1. CASE ToServer
    <3>1. /\ calls # <<>> /\ Head(calls).to = "server" /\ Head(calls) = Call
          /\ body' = body \/ body' = body \o Call.data
          /\ body \in Data
      BY <2>1 DEF ToServer, Calling, Receive, Call, TypeOK
    <3>2. deadline # "none" /\ (Inside \/ After)
      BY <3>1 DEF DeafInv, Expired, Before
    <3>3. CASE Inside
      <4>1. Call \in HarmlessCalls /\ Call.to = "server"
        BY <3>1, <3>3 DEF Inside, Call
      <4>2. Call.data = <<>>
        BY <4>1 DEF HarmlessCalls, Guarded
      <4>3. QED
        BY <3>1, <4>2 DEF Data
    <3>4. CASE After
      <4>1. Call \in TimeoutCalls
        BY <3>1, <3>4 DEF After, Call
      <4>2. Call.data \in {<<>>, Plain(503)}
        BY <4>1 DEF TimeoutCalls
      <4>3. body \o <<>> = body
        BY <3>1 DEF Data
      <4>4. QED
        BY <3>1, <4>2, <4>3
    <3>5. QED
      BY <3>2, <3>3, <3>4
  <2>2. CASE ToTimeout
    BY <2>2 DEF ToTimeout, fixedVars, frameVars, writerVars, netVars, saidVars,
       recordVars
  <2>3. CASE Writers /\ ~ToServer /\ ~ToTimeout
    BY <2>3 DEF Writers, ToAccessLog, FlushTimeout, GzipHeader, GzipPass,
       GzipBuffer, GzipStart, GzipWrite, GzipFlush, GzipClose, fixedVars,
       frameVars, writerVars, netVars, saidVars, recordVars
  <2>4. CASE Expire \/ Handler
    BY <2>4 DEF Expire, Handler, Respond, SetStatus, DirectStatus, ServeContent,
       File, DirectFile, Write, Flush, Panic, Return, fixedVars, frameVars,
       writerVars, netVars, saidVars, recordVars
  <2>5. CASE Middleware
    BY <2>5 DEF Middleware, PassOn, EnterTimeout, EnterGzip, EnterMetrics,
       EnterAccessLog, LeaveAccessLog, LeaveMetrics, UnwindMetrics, CloseGzip,
       LeaveGzip, UnwindWriter, LeaveTimeout, UnwindTimeout, LeaveRecovery,
       Recover, Finish, Abort, fixedVars, frameVars, writerVars, netVars,
       saidVars, recordVars
  <2>6. QED
    BY <2>1, <2>2, <2>3, <2>4, <2>5 DEF Next
<1>2. QED
  BY <1>1, DeafInvariant, PTL DEF Spec, DeafAfterDeadline

-----------------------------------------------------------------------------
(* A Content-Length that is set is that of the only write there is.         *)

Sized ==
    /\ header.length => written = << 1 >>
    /\ sent.length => header.length

LEMMA SizedSame ==
    ASSUME Sized, header'.length = header.length, sent'.length = sent.length,
           UNCHANGED written
    PROVE  Sized'
BY DEF Sized

LEMMA SizedCommit ==
    ASSUME TypeOK, Sized, UNCHANGED <<header, written>>, NEW code,
           NEW first, first = Commit(code),
           sent' \in {first, [first EXCEPT !.over = TRUE]}
    PROVE  Sized'
<1>1. sent'.length = first.length
  <2>1. CASE sent.status # 0
    BY <2>1 DEF Commit, TypeOK, Sent
  <2>2. CASE sent.status = 0
    BY <2>2 DEF Commit
  <2>3. QED
    BY <2>1, <2>2
<1>2. first.length => header.length
  BY DEF Sized, Commit
<1>3. QED
  BY <1>1, <1>2 DEF Sized

LEMMA SizedHandler ==
    ASSUME TypeOK, Sized, Handler
    PROVE  Sized'
<1> USE DEF fixedVars, frameVars, writerVars, netVars, saidVars, recordVars
<1>0. header \in Header
  BY DEF TypeOK
<1>1. ASSUME NEW code \in {200, 404}, Respond(code)
      PROVE  Sized'
  BY <1>0, <1>1 DEF Respond, Sized, Header
<1>2. ASSUME NEW code \in {200, 404}, NEW type \in {"none", "text", "binary"},
             SetStatus(code, type) \/ DirectStatus(code, type)
      PROVE  Sized'
  BY <1>0, <1>2 DEF SetStatus, DirectStatus, Sized, Header
<1>3. ASSUME NEW type \in {"text", "binary"}, File(type) \/ DirectFile(type)
      PROVE  Sized'
  <2>1. ServeContent(type) /\ written = <<>>
    BY <1>3 DEF File, DirectFile, Unanswered
  <2>2. ~sent.length
    BY <2>1 DEF Sized
  <2>3. QED
    BY <2>1, <2>2 DEF ServeContent, Sized
<1>4. CASE Write
  BY <1>4 DEF Write, Sized
<1>5. CASE Flush \/ Panic \/ Return
  BY <1>5 DEF Flush, Panic, Return, Sized
<1>6. QED
  BY <1>1, <1>2, <1>3, <1>4, <1>5 DEF Handler

LEMMA SizedWriters ==
    ASSUME TypeOK, Sized, Writers
    PROVE  Sized'
<1> USE DEF fixedVars, frameVars, writerVars, netVars, saidVars, recordVars
<1>0. header \in Header
  BY DEF TypeOK
<1>1. CASE (ToServer \/ ToTimeout) /\ Receive
  <2>1. PICK first : first = Commit(IF Call.op = "header" THEN Call.code ELSE 200)
    OBVIOUS
  <2>2. sent' \in {first, [first EXCEPT !.over = TRUE]}
    BY <1>1, <2>1 DEF Receive
  <2>3. UNCHANGED <<header, written>>
    BY <1>1 DEF ToServer, ToTimeout
  <2>4. QED
    BY <2>1, <2>2, <2>3, SizedCommit
<1>2. CASE ToTimeout /\ ~Receive
  BY <1>2 DEF ToTimeout, Sized
<1>3. CASE ToAccessLog \/ FlushTimeout \/ GzipPass \/ GzipBuffer \/ GzipWrite
  BY <1>3 DEF ToAccessLog, FlushTimeout, GzipPass, GzipBuffer, GzipWrite, Sized
<1>4. CASE GzipHeader \/ GzipStart \/ GzipFlush \/ GzipClose
  <2>1. header'.length = header.length
    BY <1>0, <1>4 DEF GzipHeader, GzipStart, GzipFlush, GzipClose, Start, Header
  <2>2. UNCHANGED <<sent, written>>
    BY <1>4 DEF GzipHeader, GzipStart, GzipFlush, GzipClose
  <2>3. QED
    BY <2>1, <2>2, SizedSame
<1>5. QED
  BY <1>1, <1>2, <1>3, <1>4 DEF Writers, ToServer

LEMMA SizedMiddleware ==
    ASSUME TypeOK, Sized, Middleware
    PROVE  Sized'
<1> USE DEF fixedVars, frameVars, writerVars, netVars, saidVars, recordVars
<1>0. header \in Header
  BY DEF TypeOK
<1>1. CASE Finish
  BY <1>1, SizedCommit DEF Finish
<1>2. CASE LeaveTimeout \/ Recover
  <2>1. header'.length = header.length
    BY <1>0, <1>2 DEF LeaveTimeout, Recover, Header
  <2>2. UNCHANGED <<sent, written>>
    BY <1>2 DEF LeaveTimeout, Recover
  <2>3. QED
    BY <2>1, <2>2, SizedSame
<1>3. CASE Middleware /\ ~Finish /\ ~LeaveTimeout /\ ~Recover
  <2>1. UNCHANGED <<header, sent, written>>
    BY <1>3 DEF Middleware, PassOn, EnterTimeout, EnterGzip, EnterMetrics,
       EnterAccessLog, LeaveAccessLog, LeaveMetrics, UnwindMetrics, CloseGzip,
       LeaveGzip, UnwindWriter, UnwindTimeout, LeaveRecovery, Abort
  <2>2. QED
    BY <2>1, SizedSame
<1>4. QED
  BY <1>1, <1>2, <1>3

LEMMA SizedInvariant == Spec => [](TypeOK /\ Sized)
<1>1. Init => Sized
  BY DEF Init, Sized
<1>2. TypeOK /\ Sized /\ [Next]_vars => Sized'
  <2> SUFFICES ASSUME TypeOK, Sized, [Next]_vars
               PROVE  Sized'
    OBVIOUS
  <2>1. CASE Expire \/ UNCHANGED vars
    BY <2>1 DEF Expire, vars, Sized, netVars, saidVars
  <2>2. CASE Handler \/ Writers \/ Middleware
    BY <2>2, SizedHandler, SizedWriters, SizedMiddleware
  <2>3. QED
    BY <2>1, <2>2 DEF Next
<1>3. QED
  BY <1>1, <1>2, TypeCorrect, PTL DEF Spec

-----------------------------------------------------------------------------
(* The whole answer.                                                       *)

\* The calls that are to be made: those to the gzip writer or to one above it,
\* and the data they carry (only the last call carries any).
Made(cs) == {cs[i] : i \in DOMAIN cs}
Above(e, x) == "gzip" \in e /\ x.to \in {"gzip", "access_log"}
Upper(e, cs) == cs # <<>> /\ Above(e, cs[Len(cs)])
Flight(cs) == IF cs = <<>> THEN <<>> ELSE cs[Len(cs)].data

\* What data says: which writes it holds, and in which form.
Ids(s) == [i \in DOMAIN s |-> s[i].id]
All(s, as) == \A i \in DOMAIN s : s[i].as = as
Sealed(s, ids) == \E t \in Data : s = t \o End /\ All(t, "packed") /\ Ids(t) = ids

\* Nothing has gone wrong so far.
Good == panics = 0 /\ mode \notin {"panic", "aborted"} /\ deadline # "passed"

\* The writer a wrapper finds when it is entered.
Below(e, w) ==
    IF w = "access_log" /\ "gzip" \in e THEN "gzip"
    ELSE IF w # "timeout" /\ "timeout" \in e THEN "timeout"
    ELSE "server"

Installed(w) == w \in enabled /\ Past(w)

\* The Context holds the innermost writer that is installed, and each knows
\* the one below.
Wired ==
    /\ writer = IF Installed("access_log") THEN "access_log"
                ELSE IF Installed("gzip") THEN "gzip"
                ELSE IF Installed("timeout") THEN "timeout"
                ELSE "server"
    /\ \A w \in Wrappers : Installed(w) => orig[w] = Below(enabled, w)

\* At most a header and one other call are under way.
Shape ==
    /\ \/ calls = <<>>
       \/ \E x \in WriterCall : calls = <<x>>
       \/ \E x, y \in WriterCall :
             calls = <<x, y>> /\ x.op = "header" /\ y.op = "write"
    /\ \A x \in Made(calls) :
          /\ x.op # "write" => x.data = <<>>
          /\ x.to = "server" \/ Installed(x.to)
          /\ x.op = "header" => x.code = Asked
          /\ x.op = "close" => mode = "closing"
          /\ mode = "closing" /\ Above(enabled, x) => x.op = "close"
    /\ calls # <<>> => mode = "closing" \/ (mode = "down" /\ at = "handler")
    /\ mode = "closing" => at = "gzip"

HeaderOn == \E x \in Made(calls) : x.op = "header"
CloseOn == \E x \in Made(calls) : x.op = "close"

InTime ==
    /\ tw.timedOut = FALSE
    /\ deadline = "cancelled" =>
          mode \in {"up", "end"} /\ at \in {"server", "recovery"}

\* gzipWriter.Close has not been called.
Open ==
    \/ mode = "down"
    \/ mode = "up" /\ Past("gzip")
    \/ mode = "closing" /\ CloseOn

Fresh == ~gw.wroteHead /\ ~gw.started /\ ~gw.decided /\ gw.buf = <<>>

\* What the fields of gzipWriter say of each other,
Fields ==
    /\ gw.started =>
          /\ gw.wroteHead /\ gw.decided /\ gw.compress /\ gw.buf = <<>>
          /\ "gzip" \in enabled
    /\ ~gw.started => gw.pending = <<>>
    /\ gw.wroteHead => gw.decided /\ (gw.compress => gw.started)
    /\ gw.buf # <<>> =>
          /\ gw.decided /\ gw.compress /\ ~gw.wroteHead
          /\ Open /\ "gzip" \in enabled
    /\ ~Open => gw.pending = <<>>

\* and of what has been sent: nothing, as long as the choice is open.
Choice ==
    /\ /\ "gzip" \in enabled /\ Open
       /\ ~gw.wroteHead /\ (gw.decided => gw.compress)
       => /\ sent.status = 0 /\ body = <<>>
          /\ \A x \in Made(calls) : Above(enabled, x)
    /\ \A x \in Made(calls) : x.op = "header" /\ Above(enabled, x) => Fresh
    /\ header.encoded = gw.started
    /\ sent.status # 0 => sent.encoded = gw.started

\* The handler has given a status, to the Context or past it.
Answered == c.wrote \/ direct # 0

\* The status that is sent is the one the handler asked for.
Status ==
    /\ c.wrote <=> c.status # 0
    /\ sent.status # 0 => sent.status = Asked
    /\ sent.status = 0 /\ (Answered \/ gw.started) => HeaderOn
    /\ mode = "down" /\ Unanswered =>
          calls = <<>> /\ sent.status = 0 /\ body = <<>> /\ Fresh
    /\ mode = "down" /\ at # "handler" => Unanswered
    /\ mode = "end" => sent.status # 0

\* Every write is somewhere on its way, in its place,
Gathered ==
    /\ ~gw.started =>
          /\ All(body, "plain") /\ All(gw.buf, "plain")
          /\ All(Flight(calls), "plain")
          /\ Ids(body) \o Ids(gw.buf) \o Ids(Flight(calls)) = written
    /\ gw.started /\ Open =>
          /\ All(body, "packed") /\ All(gw.pending, "plain")
          /\ Upper(enabled, calls) =>
                /\ All(Flight(calls), "plain")
                /\ Ids(body) \o Ids(gw.pending) \o Ids(Flight(calls)) = written
          /\ ~Upper(enabled, calls) =>
                /\ All(Flight(calls), "packed")
                /\ Ids(body) \o Ids(Flight(calls)) \o Ids(gw.pending) = written
    /\ gw.started /\ ~Open => Sealed(body \o Flight(calls), written)

\* unless net/http refuses them because a file is compressed.
Content == Misfit \/ Gathered

\* What was recorded on the way out.
Recorded ==
    /\ "metrics" \in enabled =>
          m.statuses = IF mode # "down" /\ ~Past("metrics")
                       THEN <<StatusCode>> ELSE <<>>
    /\ "access_log" \in enabled =>
          logged = IF mode # "down" /\ ~Past("access_log")
                   THEN <<StatusCode>> ELSE <<>>

GoodInv ==
    Good => /\ Wired /\ Shape /\ InTime
            /\ Fields /\ Choice /\ Status /\ Content /\ Recorded

LEMMA NoCalls == Made(<<>>) = {} /\ Flight(<<>>) = <<>> /\ \A e : ~Upper(e, <<>>)
BY DEF Made, Flight, Upper

LEMMA OneCall ==
    ASSUME NEW x
    PROVE  /\ Made(<<x>>) = {x} /\ Flight(<<x>>) = x.data
           /\ \A e : Upper(e, <<x>>) <=> Above(e, x)
BY DEF Made, Flight, Upper

LEMMA TwoCalls ==
    ASSUME NEW x, NEW y
    PROVE  /\ Made(<<x, y>>) = {x, y} /\ Flight(<<x, y>>) = y.data
           /\ \A e : Upper(e, <<x, y>>) <=> Above(e, y)
BY DEF Made, Flight, Upper

LEMMA IdsType ==
    ASSUME NEW s \in Data
    PROVE  Ids(s) \in Seq(Nat)
<1>1. s \in Seq(Token) /\ \A t \in Token : t.id \in Nat
  BY DEF Data, Token
<1>2. DOMAIN s = 1 .. Len(s) /\ Len(s) \in Nat /\ \A i \in DOMAIN s : s[i] \in Token
  BY <1>1
<1>3. Ids(s) \in [1 .. Len(s) -> Nat]
  BY <1>1, <1>2 DEF Ids
<1>4. QED
  BY <1>2, <1>3

LEMMA IdsOfNone == Ids(<<>>) = <<>> /\ \A as : All(<<>>, as)
<1>1. DOMAIN <<>> = {}
  OBVIOUS
<1>2. Ids(<<>>) = [i \in {} |-> <<>>[i].id]
  BY <1>1 DEF Ids
<1>3. QED
  BY <1>1, <1>2 DEF All

LEMMA IdsOfBoth ==
    ASSUME NEW s \in Data, NEW t \in Data
    PROVE  Ids(s \o t) = Ids(s) \o Ids(t)
<1>1. /\ s \in Seq(Token) /\ t \in Seq(Token)
      /\ Ids(s) \in Seq(Nat) /\ Ids(t) \in Seq(Nat)
  BY IdsType DEF Data
<1>2. /\ s \o t \in Seq(Token) /\ Len(s \o t) = Len(s) + Len(t)
      /\ Len(s) \in Nat /\ Len(t) \in Nat
      /\ DOMAIN s = 1 .. Len(s) /\ DOMAIN t = 1 .. Len(t)
      /\ DOMAIN (s \o t) = 1 .. Len(s) + Len(t)
  BY <1>1
<1>3. Len(Ids(s)) = Len(s) /\ Len(Ids(t)) = Len(t)
  BY <1>1, <1>2 DEF Ids
<1>4. \A i \in 1 .. Len(s) + Len(t) :
          (s \o t)[i] = IF i <= Len(s) THEN s[i] ELSE t[i - Len(s)]
  BY <1>1
<1>5. Ids(s \o t) \in Seq(Nat) /\ Ids(s) \o Ids(t) \in Seq(Nat)
      /\ Len(Ids(s \o t)) = Len(s) + Len(t)
      /\ Len(Ids(s) \o Ids(t)) = Len(s) + Len(t)
  <2>1. Ids(s \o t) \in Seq(Nat)
    BY <1>1, <1>2, IdsType DEF Data
  <2>2. DOMAIN Ids(s \o t) = 1 .. Len(s) + Len(t)
    BY <1>2 DEF Ids
  <2>3. QED
    BY <1>1, <1>2, <1>3, <2>1, <2>2
<1>6. \A i \in 1 .. Len(s) + Len(t) : Ids(s \o t)[i] = (Ids(s) \o Ids(t))[i]
  <2> SUFFICES ASSUME NEW i \in 1 .. Len(s) + Len(t)
               PROVE  Ids(s \o t)[i] = (Ids(s) \o Ids(t))[i]
    OBVIOUS
  <2>1. Ids(s \o t)[i] = (s \o t)[i].id
    BY <1>2 DEF Ids
  <2>2. CASE i <= Len(s)
    <3>1. i \in 1 .. Len(s)
      BY <1>2, <2>2
    <3>2. Ids(s)[i] = s[i].id
      BY <1>2, <3>1 DEF Ids
    <3>3. (Ids(s) \o Ids(t))[i] = Ids(s)[i]
      BY <1>1, <1>3, <3>1
    <3>4. QED
      BY <1>4, <2>1, <2>2, <3>2, <3>3
  <2>3. CASE ~(i <= Len(s))
    <3>1. i - Len(s) \in 1 .. Len(t)
      BY <1>2, <2>3
    <3>2. Ids(t)[i - Len(s)] = t[i - Len(s)].id
      BY <1>2, <3>1 DEF Ids
    <3>3. (Ids(s) \o Ids(t))[i] = Ids(t)[i - Len(s)]
      BY <1>1, <1>2, <1>3, <2>3, <3>1
    <3>4. QED
      BY <1>4, <2>1, <2>3, <3>2, <3>3
  <2>4. QED
    BY <2>2, <2>3
<1>7. QED
  BY <1>5, <1>6, SeqEqual

LEMMA AllOfBoth ==
    ASSUME NEW s \in Data, NEW t \in Data, NEW as
    PROVE  All(s \o t, as) <=> All(s, as) /\ All(t, as)
<1>1. s \in Seq(Token) /\ t \in Seq(Token)
  BY DEF Data
<1>2. /\ Len(s) \in Nat /\ Len(t) \in Nat
      /\ DOMAIN s = 1 .. Len(s) /\ DOMAIN t = 1 .. Len(t)
      /\ DOMAIN (s \o t) = 1 .. Len(s) + Len(t)
  BY <1>1
<1>3. \A i \in 1 .. Len(s) + Len(t) :
          (s \o t)[i] = IF i <= Len(s) THEN s[i] ELSE t[i - Len(s)]
  BY <1>1
<1>4. /\ All(s, as) <=> \A i \in 1 .. Len(s) : s[i].as = as
      /\ All(t, as) <=> \A i \in 1 .. Len(t) : t[i].as = as
      /\ All(s \o t, as)
            <=> \A i \in 1 .. Len(s) + Len(t) : (s \o t)[i].as = as
  BY <1>2, Zenon DEF All
<1>5. ASSUME All(s \o t, as)
      PROVE  All(s, as)
  <2> SUFFICES ASSUME NEW i \in 1 .. Len(s)
               PROVE  s[i].as = as
    BY <1>4
  <2>1. i \in 1 .. Len(s) + Len(t) /\ i <= Len(s)
    BY <1>2
  <2>2. QED
    BY <1>3, <1>4, <1>5, <2>1
<1>6. ASSUME All(s \o t, as)
      PROVE  All(t, as)
  <2> SUFFICES ASSUME NEW i \in 1 .. Len(t)
               PROVE  t[i].as = as
    BY <1>4
  <2>1. i + Len(s) \in 1 .. Len(s) + Len(t) /\ ~(i + Len(s) <= Len(s))
        /\ (i + Len(s)) - Len(s) = i
    BY <1>2
  <2>2. (s \o t)[i + Len(s)] = t[i]
    BY <1>3, <2>1
  <2>3. QED
    BY <1>4, <1>6, <2>1, <2>2
<1>7. ASSUME All(s, as), All(t, as)
      PROVE  All(s \o t, as)
  <2> SUFFICES ASSUME NEW i \in 1 .. Len(s) + Len(t)
               PROVE  (s \o t)[i].as = as
    BY <1>4
  <2>1. CASE i <= Len(s)
    <3>1. i \in 1 .. Len(s)
      BY <1>2, <2>1
    <3>2. QED
      BY <1>3, <1>4, <1>7, <2>1, <3>1
  <2>2. CASE ~(i <= Len(s))
    <3>1. i - Len(s) \in 1 .. Len(t)
      BY <1>2, <2>2
    <3>2. (s \o t)[i] = t[i - Len(s)]
      BY <1>3, <2>2
    <3>3. t[i - Len(s)].as = as
      BY <1>4, <1>7, <3>1
    <3>4. QED
      BY <3>2, <3>3
  <2>3. QED
    BY <2>1, <2>2
<1>8. QED
  BY <1>5, <1>6, <1>7

LEMMA PackedIds ==
    ASSUME NEW s \in Data
    PROVE  /\ Packed(s) \in Data /\ Ids(Packed(s)) = Ids(s)
           /\ All(Packed(s), "packed")
<1>1. Packed(s) \in Data /\ \A i \in DOMAIN s : s[i] \in Token
  BY PackedType DEF Data
<1>2. \A t \in Token : [t EXCEPT !.as = "packed"].id = t.id
                       /\ [t EXCEPT !.as = "packed"].as = "packed"
  BY DEF Token
<1>3. QED
  BY <1>1, <1>2 DEF Packed, Ids, All

LEMMA PlainIds ==
    ASSUME NEW id \in 1 .. MaxWrites \cup {500, 503}
    PROVE  /\ Plain(id) \in Data /\ Ids(Plain(id)) = <<id>>
           /\ All(Plain(id), "plain")
BY PlainType DEF Plain, Ids, All

LEMMA Joined ==
    ASSUME NEW s \in Seq(Nat), NEW t \in Seq(Nat), NEW u \in Seq(Nat)
    PROVE  /\ (s \o t) \o u = s \o (t \o u)
           /\ s \o <<>> = s /\ <<>> \o s = s
           /\ s \o t \in Seq(Nat)
<1>1. (s \o t) \o u = s \o (t \o u)
  OBVIOUS
<1>2. s \o <<>> = s /\ <<>> \o s = s
  OBVIOUS
<1>3. s \o t \in Seq(Nat)
  OBVIOUS
<1>4. QED
  BY <1>1, <1>2, <1>3

LEMMA Regrouped ==
    ASSUME NEW s \in Seq(Nat), NEW t \in Seq(Nat), NEW u \in Seq(Nat)
    PROVE  (s \o t) \o u = s \o (t \o u)
OBVIOUS

LEMMA DataRegrouped ==
    ASSUME NEW s \in Data, NEW t \in Data, NEW u \in Data
    PROVE  (s \o t) \o u = s \o (t \o u)
BY DEF Data

LEMMA DataJoined ==
    ASSUME NEW s \in Data, NEW t \in Data, NEW u \in Data
    PROVE  /\ (s \o t) \o u = s \o (t \o u)
           /\ s \o <<>> = s /\ <<>> \o s = s
           /\ s \o t \in Data
BY DEF Data

\* Where the running frame stands.
LEMMA Standing ==
    ASSUME TypeOK
    PROVE  /\ at \in {"server", "recovery", "timeout", "gzip", "metrics",
                      "access_log", "handler"}
           /\ Position[at] \in 0 .. 6
           /\ enabled \in SUBSET Layers /\ at \in Frames
BY Positions DEF TypeOK, Frames, Layers

LEMMA PairOf ==
    ASSUME NEW x, NEW y
    PROVE  /\ <<x>> \o <<>> = <<x>> /\ <<x>> \o <<y>> = <<x, y>>
           /\ <<x, y>> \o <<>> = <<x, y>>
<1> DEFINE S == {x, y}
<1>1. <<x>> \in Seq(S) /\ <<y>> \in Seq(S) /\ <<x, y>> \in Seq(S)
  OBVIOUS
<1>2. Len(<<x>>) = 1 /\ Len(<<y>>) = 1 /\ <<x>>[1] = x /\ <<y>>[1] = y
  OBVIOUS
<1>3. <<x>> \o <<>> = <<x>>
  BY <1>1
<1>4. <<x>> \o <<y>> \in Seq(S) /\ Len(<<x>> \o <<y>>) = 2
  BY <1>1, <1>2
<1>5. (<<x>> \o <<y>>)[1] = x /\ (<<x>> \o <<y>>)[2] = y
  BY <1>1, <1>2
<1>6. Len(<<x, y>>) = 2 /\ <<x, y>>[1] = x /\ <<x, y>>[2] = y
  OBVIOUS
<1>7. \A i \in 1 .. 2 : (<<x>> \o <<y>>)[i] = <<x, y>>[i]
  BY <1>5, <1>6
<1>8. <<x>> \o <<y>> = <<x, y>>
  BY <1>1, <1>4, <1>6, <1>7, SeqEqual
<1>9. <<x, y>> \o <<>> = <<x, y>>
  BY <1>1
<1>10. QED
  BY <1>3, <1>8, <1>9

LEMMA CallAndRest ==
    ASSUME TypeOK, Shape, calls # <<>>
    PROVE  /\ Call \in WriterCall /\ Call \in Made(calls)
           /\ \/ calls = <<Call>> /\ Tail(calls) = <<>>
              \/ \E y \in WriterCall :
                    /\ calls = <<Call, y>> /\ Tail(calls) = <<y>>
                    /\ Call.op = "header" /\ y.op = "write"
<1>1. CASE \E x \in WriterCall : calls = <<x>>
  <2>1. PICK x \in WriterCall : calls = <<x>>
    BY <1>1
  <2>2. Head(<<x>>) = x /\ Tail(<<x>>) = <<>>
    OBVIOUS
  <2>3. QED
    BY <2>1, <2>2, OneCall DEF Call
<1>2. CASE \E x, y \in WriterCall :
              calls = <<x, y>> /\ x.op = "header" /\ y.op = "write"
  <2>1. PICK x \in WriterCall, y \in WriterCall :
            calls = <<x, y>> /\ x.op = "header" /\ y.op = "write"
    BY <1>2
  <2>2. Head(<<x, y>>) = x /\ Tail(<<x, y>>) = <<y>>
    OBVIOUS
  <2>3. QED
    BY <2>1, <2>2, TwoCalls DEF Call
<1>3. QED
  BY <1>1, <1>2 DEF Shape

\* A call that is not a header call is alone.
LEMMA LoneCall ==
    ASSUME TypeOK, Shape, calls # <<>>, Call.op # "header"
    PROVE  /\ calls = <<Call>> /\ Tail(calls) = <<>> /\ Made(calls) = {Call}
           /\ Flight(calls) = Call.data /\ Call \in WriterCall
           /\ \A e : Upper(e, calls) <=> Above(e, Call)
           /\ \A s \in Seq(WriterCall) : s \o Tail(calls) = s
<1>1. Call \in WriterCall /\ calls = <<Call>> /\ Tail(calls) = <<>>
  BY CallAndRest
<1>2. \A s \in Seq(WriterCall) : s \o <<>> = s
  OBVIOUS
<1>3. QED
  BY <1>1, <1>2, OneCall

\* What no writer touches.
LEMMA WriterFrame ==
    ASSUME TypeOK, Good, Wired, Recorded, Writers
    PROVE  /\ calls # <<>>
           /\ UNCHANGED <<enabled, at, mode, writer, orig, deadline, c,
                          written, direct, panics, m, logged>>
           /\ Good' /\ Wired' /\ Recorded'
           /\ \A w \in Wrappers : Installed(w)' = Installed(w)
           /\ Asked' = Asked /\ Answered' = Answered
           /\ Unanswered' = Unanswered
<1>1. calls # <<>>
  BY DEF Writers, ToServer, ToAccessLog, ToTimeout, FlushTimeout, GzipHeader,
     GzipPass, GzipBuffer, GzipStart, GzipWrite, GzipFlush, GzipClose, Calling
<1>2. UNCHANGED <<enabled, at, mode, writer, orig, deadline, c, written,
                  direct, panics, m, logged>>
  BY DEF Writers, ToServer, ToAccessLog, ToTimeout, FlushTimeout, GzipHeader,
     GzipPass, GzipBuffer, GzipStart, GzipWrite, GzipFlush, GzipClose,
     fixedVars, frameVars, writerVars, netVars, saidVars, recordVars
<1>3. Good'
  BY <1>2 DEF Good
<1>4. Wired'
  BY <1>2 DEF Wired, Installed, Past
<1>5. StatusCode' = StatusCode /\ Asked' = Asked
  BY <1>2 DEF StatusCode, Asked
<1>6. Recorded'
  BY <1>2, <1>5 DEF Recorded, Past
<1>7. QED
  BY <1>1, <1>2, <1>3, <1>4, <1>5, <1>6 DEF Installed, Past, Unanswered,
     Answered

\* Nothing makes a misfit fit.
LEMMA MisfitStays ==
    ASSUME TypeOK, Fields, Writers
    PROVE  Misfit => Misfit'
<1> USE DEF fixedVars, frameVars, writerVars, netVars, saidVars, recordVars
<1>1. header'.length = header.length
  <2>1. header \in Header
    BY DEF TypeOK
  <2>2. QED
    BY <2>1 DEF Writers, ToServer, ToAccessLog, ToTimeout, FlushTimeout,
       GzipHeader, GzipPass, GzipBuffer, GzipStart, GzipWrite, GzipFlush,
       GzipClose, Start, Header
<1>2. gw.started => gw'.started
  <2>1. gw \in GzipWriter
    BY DEF TypeOK
  <2>2. gw.started => gw.wroteHead
    BY DEF Fields
  <2>3. CASE GzipHeader
    BY <2>1, <2>2, <2>3, DecidedType DEF GzipHeader, GzipWriter
  <2>4. CASE GzipPass \/ GzipBuffer
    BY <2>1, <2>4 DEF GzipPass, GzipBuffer, Decided, GzipWriter
  <2>5. CASE GzipStart \/ GzipFlush
    BY <2>1, <2>5, DecidedType DEF GzipStart, GzipFlush, Start, Decided,
       GzipWriter
  <2>6. CASE GzipWrite \/ GzipClose
    BY <2>1, <2>6 DEF GzipWrite, GzipClose, GzipWriter
  <2>7. CASE ToServer \/ ToAccessLog \/ ToTimeout \/ FlushTimeout
    BY <2>7 DEF ToServer, ToAccessLog, ToTimeout, FlushTimeout
  <2>8. QED
    BY <2>3, <2>4, <2>5, <2>6, <2>7 DEF Writers
<1>3. QED
  BY <1>1, <1>2 DEF Misfit

\* Where the calls of a good request go.
LEMMA Destinations ==
    ASSUME TypeOK, Wired
    PROVE  /\ Installed("gzip") =>
                 orig["gzip"] = "server"
                     \/ (orig["gzip"] = "timeout" /\ Installed("timeout"))
           /\ Installed("access_log") =>
                 \/ /\ "gzip" \in enabled /\ orig["access_log"] = "gzip"
                    /\ Installed("gzip")
                 \/ /\ "gzip" \notin enabled /\ orig["access_log"] = "timeout"
                    /\ Installed("timeout")
                 \/ "gzip" \notin enabled /\ orig["access_log"] = "server"
           /\ Installed("timeout") => orig["timeout"] = "server"
<1>1. Past("gzip") => Past("timeout")
  BY Standing, Positions DEF Past
<1>2. Past("access_log") => Past("timeout") /\ Past("gzip")
  BY Standing, Positions DEF Past
<1>3. QED
  BY <1>1, <1>2 DEF Wired, Below, Installed, Wrappers

\* A call that is passed on, unchanged but for its writer and on the same side
\* of the compressor, leaves the rest as it was.
Passed(x, z) ==
    /\ z.op = x.op /\ z.data = x.data
    /\ z.op = "header" => z.code = x.code
    /\ Above(enabled, z) <=> Above(enabled, x)
    /\ z.to = "server" \/ Installed(z.to)

LEMMA PassedOn ==
    ASSUME TypeOK, Good, Wired, Recorded, Writers,
           Shape, Fields, Choice, Status, Content,
           NEW z \in WriterCall, Passed(Call, z),
           calls' = <<z>> \o Tail(calls),
           UNCHANGED <<gw, sent, body, header>>
    PROVE  Shape' /\ Fields' /\ Choice' /\ Status' /\ Content'
<1>0. /\ calls # <<>>
      /\ UNCHANGED <<enabled, at, mode, c, written, direct>>
      /\ \A w \in Wrappers : Installed(w)' = Installed(w)
      /\ Asked' = Asked /\ Answered' = Answered
      /\ Unanswered' = Unanswered
  BY WriterFrame
<1>1. /\ Call \in WriterCall /\ Call \in Made(calls)
      /\ \/ calls = <<Call>> /\ Tail(calls) = <<>>
         \/ \E y \in WriterCall :
               /\ calls = <<Call, y>> /\ Tail(calls) = <<y>>
               /\ Call.op = "header" /\ y.op = "write"
  BY <1>0, CallAndRest
<1>2. \/ calls = <<Call>> /\ calls' = <<z>>
      \/ \E y \in WriterCall :
            /\ calls = <<Call, y>> /\ calls' = <<z, y>>
            /\ Call.op = "header" /\ y.op = "write"
  <2>1. <<z>> \o <<>> = <<z>> /\ \A y : <<z>> \o <<y>> = <<z, y>>
    BY PairOf
  <2>2. QED
    BY <1>1, <2>1
<1>3. /\ \A x \in Made(calls') : x = z \/ x \in Made(calls)
      /\ Flight(calls') = Flight(calls)
      /\ Upper(enabled, calls') <=> Upper(enabled, calls)
      /\ HeaderOn' <=> HeaderOn
      /\ CloseOn' <=> CloseOn
      /\ calls' # <<>>
  <2>1. CASE calls = <<Call>> /\ calls' = <<z>>
    BY <2>1, OneCall DEF Passed, HeaderOn, CloseOn
  <2>2. ASSUME NEW y \in WriterCall, calls = <<Call, y>>, calls' = <<z, y>>
        PROVE  /\ \A x \in Made(calls') : x = z \/ x \in Made(calls)
               /\ Flight(calls') = Flight(calls)
               /\ Upper(enabled, calls') <=> Upper(enabled, calls)
               /\ HeaderOn' <=> HeaderOn
               /\ CloseOn' <=> CloseOn
               /\ calls' # <<>>
    <3>1. /\ Made(calls) = {Call, y} /\ Made(calls') = {z, y}
          /\ Flight(calls) = y.data /\ Flight(calls') = y.data
          /\ Upper(enabled, calls) <=> Above(enabled, y)
          /\ Upper(enabled, calls') <=> Above(enabled, y)
      <4>1. /\ Made(<<Call, y>>) = {Call, y} /\ Flight(<<Call, y>>) = y.data
            /\ Upper(enabled, <<Call, y>>) <=> Above(enabled, y)
        BY TwoCalls
      <4>2. /\ Made(<<z, y>>) = {z, y} /\ Flight(<<z, y>>) = y.data
            /\ Upper(enabled, <<z, y>>) <=> Above(enabled, y)
        BY TwoCalls
      <4>3. QED
        BY <2>2, <4>1, <4>2
    <3>2. z.op = Call.op
      BY DEF Passed
    <3>3. HeaderOn' <=> HeaderOn
      BY <3>1, <3>2 DEF HeaderOn
    <3>4. CloseOn' <=> CloseOn
      BY <3>1, <3>2 DEF CloseOn
    <3>5. QED
      BY <2>2, <3>1, <3>3, <3>4
  <2>3. QED
    BY <1>2, <2>1, <2>2
<1>4. Shape'
  <2>1. \/ \E x \in WriterCall : calls' = <<x>>
        \/ \E x, y \in WriterCall :
              calls' = <<x, y>> /\ x.op = "header" /\ y.op = "write"
    BY <1>2 DEF Passed
  <2>2. ASSUME NEW x \in Made(calls')
        PROVE  /\ x.op # "write" => x.data = <<>>
               /\ x.to = "server" \/ Installed(x.to)'
               /\ x.op = "header" => x.code = Asked'
               /\ x.op = "close" => mode' = "closing"
               /\ mode' = "closing" /\ Above(enabled', x) => x.op = "close"
    <3>1. x \in Made(calls) \/ x = z
      BY <1>3
    <3>2. Installed(x.to)' = Installed(x.to)
      BY <1>0 DEF Installed, Past
    <3>3. CASE x \in Made(calls)
      BY <1>0, <3>2, <3>3 DEF Shape
    <3>4. CASE x = z
      BY <1>0, <1>1, <3>2, <3>4 DEF Shape, Passed
    <3>5. QED
      BY <3>1, <3>3, <3>4
  <2>3. QED
    BY <1>0, <2>1, <2>2 DEF Shape
<1>5. Open' <=> Open
  BY <1>0, <1>3 DEF Open, Past
<1>6. Fields'
  BY <1>0, <1>5 DEF Fields
<1>7. Choice'
  BY <1>0, <1>1, <1>3, <1>5 DEF Choice, Fresh, Passed
<1>8. Status'
  BY <1>0, <1>3 DEF Status, Fresh
<1>9. Content'
  <2> SUFFICES ASSUME ~Misfit', Gathered
               PROVE  Gathered'
    BY MisfitStays DEF Content
  <2>1. QED
    BY <1>0, <1>3, <1>5 DEF Gathered
<1>10. QED
  BY <1>4, <1>6, <1>7, <1>8, <1>9

LEMMA StatusIsCode ==
    ASSUME TypeOK
    PROVE  /\ StatusCode \in Codes /\ StatusCode # 0 /\ 200 \in Codes
           /\ Asked \in Codes /\ Asked # 0
           /\ Status /\ ~Answered => Asked = 200
BY DEF TypeOK, StatusCode, Asked, Codes, Status, Answered

\* The data of a good request.
LEMMA GoodData ==
    ASSUME TypeOK
    PROVE  /\ body \in Data /\ gw.buf \in Data /\ gw.pending \in Data
           /\ Ids(body) \in Seq(Nat) /\ Ids(gw.buf) \in Seq(Nat)
           /\ Ids(gw.pending) \in Seq(Nat) /\ <<>> \in Data /\ Ids(<<>>) = <<>>
           /\ \A x \in WriterCall : x.data \in Data /\ Ids(x.data) \in Seq(Nat)
<1>1. /\ body \in Data /\ gw.buf \in Data /\ gw.pending \in Data
      /\ \A x \in WriterCall : x.data \in Data
  BY DEF TypeOK, GzipWriter, WriterCall
<1>2. QED
  BY <1>1, IdsType, IdsOfNone, NoData

\* Two pieces that hold one write between them.
LEMMA OnlyOne ==
    ASSUME NEW b \in Data, NEW d \in Data, All(d, "plain"),
           Ids(b) \o Ids(d) = << 1 >>
    PROVE  d = <<>> \/ (b = <<>> /\ d = Plain(1))
<1>1. /\ Len(b) \in Nat /\ Len(d) \in Nat
      /\ DOMAIN b = 1 .. Len(b) /\ DOMAIN d = 1 .. Len(d)
      /\ \A i \in DOMAIN d : d[i] \in Token
  BY DEF Data
<1>2. /\ Ids(b) \in Seq(Nat) /\ DOMAIN Ids(b) = DOMAIN b
      /\ Ids(d) \in Seq(Nat) /\ DOMAIN Ids(d) = DOMAIN d
  BY IdsType DEF Ids
<1>a. Len(Ids(b)) = Len(b) /\ Len(Ids(d)) = Len(d)
  BY <1>1, <1>2
<1>3. Len(b) + Len(d) = 1
  <2>1. PICK s \in Seq(Nat), t \in Seq(Nat) : s = Ids(b) /\ t = Ids(d)
    BY <1>2
  <2>2. Len(s \o t) = Len(s) + Len(t)
    BY ConcatProperties
  <2>3. s \o t = << 1 >>
    BY <2>1
  <2>4. Len(s \o t) = 1
    BY <2>3
  <2>5. QED
    BY <1>a, <2>1, <2>2, <2>4
<1>4. CASE Len(d) = 0
  BY <1>1, <1>4 DEF Data
<1>5. CASE Len(b) = 0 /\ Len(d) = 1
  <2>1. b = <<>>
    BY <1>5 DEF Data
  <2>2. Ids(d) = << 1 >>
    <3>1. PICK t \in Seq(Nat) : t = Ids(d)
      BY <1>2
    <3>2. <<>> \o t = t
      OBVIOUS
    <3>3. Ids(b) = <<>>
      BY <2>1, IdsOfNone
    <3>4. QED
      BY <3>1, <3>2, <3>3
  <2>3. d[1].id = 1 /\ d[1].as = "plain" /\ d[1] \in Token
    <3>1. 1 \in DOMAIN d
      BY <1>1, <1>5
    <3>2. Ids(d)[1] = d[1].id
      BY <3>1 DEF Ids
    <3>3. QED
      BY <1>1, <2>2, <3>1, <3>2 DEF All
  <2>4. d[1] = [id |-> 1, as |-> "plain"]
    BY <2>3 DEF Token
  <2>5. d = << d[1] >>
    BY <1>5 DEF Data
  <2>6. QED
    BY <2>1, <2>4, <2>5 DEF Plain
<1>6. QED
  BY <1>1, <1>3, <1>4, <1>5

\* What Receive is given as long as the compressor leaves files alone fits the
\* Content-Length there may be: it is accepted.
LEMMA Accepted ==
    ASSUME TypeOK, Sized, Shape, Gathered, ~Misfit, Receive,
           calls # <<>>, ~Above(enabled, Call), gw.buf = <<>>
    PROVE  body' = body \o Call.data
<1> SUFFICES ASSUME header.length
             PROVE  Fits
  BY DEF Receive, Commit, Sized
<1>1. /\ Call \in WriterCall /\ Call \in Made(calls)
      /\ \/ calls = <<Call>>
         \/ Call.op = "header"
  BY CallAndRest
<1>2. CASE Call.op # "write"
  BY <1>1, <1>2 DEF Shape, Fits
<1>3. CASE Call.op = "write"
  <2>1. Flight(calls) = Call.data
    BY <1>1, <1>3, OneCall
  <2>2. /\ ~gw.started /\ written = << 1 >>
        /\ All(Call.data, "plain")
        /\ Ids(body) \o Ids(<<>>) \o Ids(Call.data) = << 1 >>
    BY <2>1 DEF Gathered, Misfit, Sized
  <2>3. /\ body \in Data /\ Call.data \in Data
        /\ Ids(body) \in Seq(Nat) /\ Ids(Call.data) \in Seq(Nat)
        /\ Ids(<<>>) = <<>>
    BY <1>1, GoodData
  <2>4. Ids(body) \o Ids(Call.data) = << 1 >>
    <3>1. Ids(body) \o <<>> = Ids(body)
      BY <2>3, Joined
    <3>2. QED
      BY <2>2, <2>3, <3>1
  <2>5. QED
    BY <2>2, <2>3, <2>4, OnlyOne DEF Fits
<1>4. QED
  BY <1>2, <1>3

\* A call that reaches net/http.
LEMMA Received ==
    ASSUME TypeOK, Sized, Good, Wired, Recorded, Writers,
           Shape, Fields, Choice, Status, Content,
           Call.to \in {"server", "timeout"}, Call.op # "close",
           Receive, calls' = Tail(calls), UNCHANGED <<gw, header>>
    PROVE  Shape' /\ Fields' /\ Choice' /\ Status' /\ Content'
<1>0. /\ calls # <<>>
      /\ UNCHANGED <<enabled, at, mode, c, written, direct>>
      /\ \A w \in Wrappers : Installed(w)' = Installed(w)
      /\ Asked' = Asked /\ Answered' = Answered
      /\ Unanswered' = Unanswered
  BY WriterFrame
<1>1. /\ Call \in WriterCall /\ Call \in Made(calls)
      /\ \/ calls = <<Call>> /\ calls' = <<>>
         \/ \E y \in WriterCall :
               /\ calls = <<Call, y>> /\ calls' = <<y>>
               /\ Call.op = "header" /\ y.op = "write"
  BY <1>0, CallAndRest
<1>2. ~Above(enabled, Call) /\ Call.data \in Data
  BY <1>1 DEF Above, WriterCall
<1>3. /\ sent'.status = IF sent.status # 0 THEN sent.status
                        ELSE IF Call.op = "header" THEN Call.code ELSE 200
      /\ sent'.encoded = IF sent.status # 0 THEN sent.encoded ELSE header.encoded
  <2>1. PICK first : first = Commit(IF Call.op = "header" THEN Call.code ELSE 200)
    OBVIOUS
  <2>2. sent' \in {first, [first EXCEPT !.over = TRUE]}
    BY <2>1 DEF Receive
  <2>3. CASE sent.status # 0
    BY <2>1, <2>2, <2>3 DEF Commit, TypeOK, Sent
  <2>4. CASE sent.status = 0
    BY <2>1, <2>2, <2>4 DEF Commit
  <2>5. QED
    BY <2>3, <2>4
<1>4. \A x \in Made(calls') : x \in Made(calls)
  <2>1. CASE calls' = <<>>
    BY <2>1, NoCalls
  <2>2. ASSUME NEW y \in WriterCall, calls = <<Call, y>>, calls' = <<y>>
        PROVE  \A x \in Made(calls') : x \in Made(calls)
    <3>1. Made(<<Call, y>>) = {Call, y}
      BY TwoCalls
    <3>2. Made(<<y>>) = {y}
      BY OneCall
    <3>3. QED
      BY <2>2, <3>1, <3>2
  <2>3. QED
    BY <1>1, <2>1, <2>2
<1>5. ~CloseOn /\ ~CloseOn'
  <2>1. \A x \in Made(calls) : x.op # "close"
    <3>1. CASE calls = <<Call>>
      BY <3>1, OneCall
    <3>2. ASSUME NEW y \in WriterCall, calls = <<Call, y>>, y.op = "write"
          PROVE  \A x \in Made(calls) : x.op # "close"
      <4>1. Made(<<Call, y>>) = {Call, y}
        BY TwoCalls
      <4>2. QED
        BY <3>2, <4>1
    <3>3. QED
      BY <1>1, <3>1, <3>2
  <2>2. QED
    BY <1>4, <2>1 DEF CloseOn
<1>6. Open' <=> Open
  BY <1>0, <1>5 DEF Open, Past
<1>7. Shape'
  <2>1. \/ calls' = <<>>
        \/ \E x \in WriterCall : calls' = <<x>>
    BY <1>1
  <2>2. ASSUME NEW x \in Made(calls')
        PROVE  /\ x.op # "write" => x.data = <<>>
               /\ x.to = "server" \/ Installed(x.to)'
               /\ x.op = "header" => x.code = Asked'
               /\ x.op = "close" => mode' = "closing"
               /\ mode' = "closing" /\ Above(enabled', x) => x.op = "close"
    <3>1. x \in Made(calls)
      BY <1>4
    <3>2. Installed(x.to)' = Installed(x.to)
      BY <1>0 DEF Installed, Past
    <3>3. QED
      BY <1>0, <3>1, <3>2 DEF Shape
  <2>3. QED
    BY <1>0, <2>1, <2>2 DEF Shape
<1>8. Fields'
  BY <1>0, <1>6 DEF Fields
<1>9. sent'.status # 0 /\ sent'.status = Asked
  <2>1. CASE sent.status # 0
    BY <1>3, <2>1 DEF Status
  <2>2. CASE sent.status = 0 /\ Call.op = "header"
    BY <1>1, <1>3, <2>2, StatusIsCode DEF Shape
  <2>3. CASE sent.status = 0 /\ Call.op # "header"
    <3>1. Made(calls) = {Call}
      BY <1>0, <2>3, LoneCall
    <3>2. ~Answered
      BY <2>3, <3>1 DEF Status, HeaderOn
    <3>3. QED
      BY <1>3, <2>3, <3>2, StatusIsCode
  <2>4. QED
    BY <2>1, <2>2, <2>3
<1>10. Choice'
  <2>1. ~(/\ "gzip" \in enabled /\ Open
          /\ ~gw.wroteHead /\ (gw.decided => gw.compress))
    BY <1>1, <1>2 DEF Choice
  <2>2. sent'.encoded = gw.started
    <3>1. CASE sent.status # 0
      BY <1>3, <3>1 DEF Choice
    <3>2. CASE sent.status = 0
      <4>1. sent'.encoded = header.encoded
        BY <1>3, <3>2
      <4>2. QED
        BY <4>1 DEF Choice
    <3>3. QED
      BY <3>1, <3>2
  <2>3. \A x \in Made(calls') : x.op = "header" /\ Above(enabled, x) => Fresh
    BY <1>4 DEF Choice
  <2>4. header.encoded = gw.started
    BY DEF Choice
  <2>5. Fresh' = Fresh
    BY DEF Fresh
  <2>6. QED
    BY <1>0, <1>6, <2>1, <2>2, <2>3, <2>4, <2>5 DEF Choice
<1>11. Status'
  BY <1>0, <1>9 DEF Status, Shape
<1>12. Content'
  <2> SUFFICES ASSUME ~Misfit', Gathered
               PROVE  Gathered'
    BY MisfitStays DEF Content
  <2>1. /\ body \in Data /\ Ids(body) \in Seq(Nat) /\ <<>> \in Data
        /\ Ids(gw.pending) \in Seq(Nat) /\ Ids(gw.buf) \in Seq(Nat)
        /\ Ids(Call.data) \in Seq(Nat) /\ Ids(<<>>) = <<>>
    BY <1>1, GoodData
  <2>2. gw.buf = <<>>
    BY <1>1, <1>2 DEF Fields, Choice
  <2>a. body' = body \o Call.data
    <3>1. ~Misfit
      BY DEF Misfit
    <3>2. QED
      BY <1>0, <1>2, <2>2, <3>1, Accepted
  <2>3. CASE calls = <<Call>> /\ calls' = <<>>
    <3>1. Flight(calls) = Call.data /\ Flight(calls') = <<>>
          /\ ~Upper(enabled, calls) /\ ~Upper(enabled, calls')
      BY <1>2, <2>3, NoCalls, OneCall
    <3>2. /\ Ids(body') = Ids(body) \o Ids(Call.data)
          /\ \A as : All(body', as) <=> All(body, as) /\ All(Call.data, as)
          /\ \A as : All(<<>>, as)
      BY <1>2, <2>a, <2>1, IdsOfBoth, AllOfBoth, IdsOfNone
    <3>3. body' \o <<>> = body \o Call.data
      BY <1>2, <2>a, <2>1, DataJoined
    <3>a. /\ Ids(body') \in Seq(Nat) /\ Ids(body') \o <<>> = Ids(body')
          /\ Ids(body) \o <<>> = Ids(body)
      BY <2>1, <3>2, Joined
    <3>4. Ids(body) \o Ids(<<>>) \o Ids(Call.data)
              = Ids(body') \o Ids(<<>>) \o Ids(<<>>)
      BY <2>1, <3>2, <3>a
    <3>5. Ids(body) \o Ids(Call.data) \o Ids(gw.pending)
              = Ids(body') \o Ids(<<>>) \o Ids(gw.pending)
      BY <2>1, <3>2, <3>a
    <3>6. QED
      BY <1>0, <1>6, <2>2, <3>1, <3>2, <3>3, <3>4, <3>5 DEF Gathered
  <2>4. ASSUME NEW y \in WriterCall, Call.op = "header",
               calls = <<Call, y>>, calls' = <<y>>
        PROVE  Gathered'
    <3>1. Flight(<<Call, y>>) = y.data /\ (Upper(enabled, <<Call, y>>) <=> Above(enabled, y))
      BY TwoCalls
    <3>2. Flight(<<y>>) = y.data /\ (Upper(enabled, <<y>>) <=> Above(enabled, y))
      BY OneCall
    <3>3. Call.data = <<>>
      BY <1>1, <2>4 DEF Shape
    <3>4. body' = body
      BY <2>a, <2>1, <3>3, DataJoined
    <3>5. /\ Flight(calls') = Flight(calls)
          /\ Upper(enabled, calls') <=> Upper(enabled, calls)
      BY <2>4, <3>1, <3>2
    <3>6. QED
      BY <1>0, <1>6, <3>4, <3>5 DEF Gathered
  <2>5. QED
    BY <1>1, <2>3, <2>4
<1>13. QED
  BY <1>7, <1>8, <1>10, <1>11, <1>12

\* A call that the compressor gets.
LEMMA GzipCalled ==
    ASSUME TypeOK, Good, Wired, Recorded, Writers,
           Shape, Fields, Choice, Status, Content, Call.to = "gzip"
    PROVE  /\ UNCHANGED <<enabled, at, mode, c, written, direct, orig>>
           /\ calls # <<>> /\ Call \in WriterCall /\ Call \in Made(calls)
           /\ "gzip" \in enabled /\ Installed("gzip") /\ Above(enabled, Call)
           /\ orig["gzip"] \in Sink /\ orig["gzip"] \in {"server", "timeout"}
           /\ orig["gzip"] = "server" \/ Installed(orig["gzip"])
           /\ Open
           /\ mode = IF Call.op = "close" THEN "closing" ELSE "down"
           /\ ~(mode = "down" /\ Unanswered)
           /\ Call.op # "write" => Call.data = <<>>
           /\ Call.op # "header" =>
                 /\ ~HeaderOn
                 /\ sent.status = 0 => ~Answered /\ ~gw.started /\ Asked = 200
<1>1. /\ calls # <<>> /\ UNCHANGED <<enabled, at, mode, c, written, direct, orig>>
  BY WriterFrame
<1>2. Call \in WriterCall /\ Call \in Made(calls)
  BY <1>1, CallAndRest
<1>3. Installed("gzip") /\ "gzip" \in enabled /\ Above(enabled, Call)
  BY <1>2 DEF Shape, Installed, Above
<1>4. /\ orig["gzip"] \in Sink /\ orig["gzip"] \in {"server", "timeout"}
      /\ orig["gzip"] = "server" \/ Installed(orig["gzip"])
  BY <1>3, Destinations DEF Sink, Wrappers
<1>5. mode = IF Call.op = "close" THEN "closing" ELSE "down"
  BY <1>1, <1>2, <1>3 DEF Shape
<1>6. Open
  BY <1>2, <1>5 DEF Open, Past, CloseOn
<1>7. ~(mode = "down" /\ Unanswered)
  BY <1>1 DEF Status
<1>8. Call.op # "write" => Call.data = <<>>
  BY <1>2 DEF Shape
<1>9. ASSUME Call.op # "header"
      PROVE  /\ ~HeaderOn
             /\ sent.status = 0 => ~Answered /\ ~gw.started /\ Asked = 200
  <2>1. Made(calls) = {Call}
    BY <1>1, <1>9, LoneCall
  <2>2. ~HeaderOn
    BY <1>9, <2>1 DEF HeaderOn
  <2>3. QED
    BY <2>2, StatusIsCode DEF Status
<1>10. QED
  BY <1>1, <1>2, <1>3, <1>4, <1>5, <1>6, <1>7, <1>8, <1>9

\* A call the compressor makes.
Lower(z) ==
    /\ z \in WriterCall /\ z.to = orig["gzip"]
    /\ \/ z.op = "write"
       \/ z.op = "header" /\ z.data = <<>> /\ z.code = Asked

LEMMA GzipAnswered ==
    ASSUME TypeOK, Good, Wired, Recorded, Writers,
           Shape, Fields, Choice, Status, Content,
           Call.to = "gzip", Call.op # "header", UNCHANGED <<sent, body>>,
           \/ calls' = <<>>
           \/ \E z : Lower(z) /\ calls' = <<z>>
           \/ \E h, z : /\ Lower(h) /\ h.op = "header"
                        /\ Lower(z) /\ z.op = "write"
                        /\ calls' = <<h, z>>,
           gw'.started => gw.started \/ HeaderOn'
    PROVE  /\ Shape' /\ Status'
           /\ ~Upper(enabled, calls') /\ ~CloseOn'
           /\ \A z \in Made(calls') : ~Above(enabled, z)
           /\ Open' <=> mode = "down"
<1>1. /\ UNCHANGED <<enabled, at, mode, c, written, direct, orig>>
      /\ calls # <<>> /\ Call \in WriterCall /\ Call \in Made(calls)
      /\ "gzip" \in enabled /\ Installed("gzip") /\ Above(enabled, Call)
      /\ orig["gzip"] \in Sink /\ orig["gzip"] \in {"server", "timeout"}
      /\ orig["gzip"] = "server" \/ Installed(orig["gzip"])
      /\ mode = IF Call.op = "close" THEN "closing" ELSE "down"
      /\ ~(mode = "down" /\ Unanswered)
      /\ ~HeaderOn
      /\ sent.status = 0 => ~Answered /\ ~gw.started
  BY GzipCalled
<1>2. /\ \A w \in Wrappers : Installed(w)' = Installed(w)
      /\ Asked' = Asked /\ Answered' = Answered
      /\ Unanswered' = Unanswered
  BY WriterFrame
<1>3. /\ \A z \in Made(calls') : Lower(z)
      /\ ~Upper(enabled, calls')
  <2>1. CASE calls' = <<>>
    BY <2>1, NoCalls
  <2>2. ASSUME NEW z, Lower(z), calls' = <<z>>
        PROVE  /\ \A x \in Made(calls') : Lower(x)
               /\ ~Upper(enabled, calls')
    <3>1. Made(<<z>>) = {z} /\ (Upper(enabled, <<z>>) <=> Above(enabled, z))
      BY OneCall
    <3>2. QED
      BY <1>1, <2>2, <3>1 DEF Lower, Above
  <2>3. ASSUME NEW h, NEW z, Lower(h), Lower(z), calls' = <<h, z>>
        PROVE  /\ \A x \in Made(calls') : Lower(x)
               /\ ~Upper(enabled, calls')
    <3>1. Made(<<h, z>>) = {h, z}
          /\ (Upper(enabled, <<h, z>>) <=> Above(enabled, z))
      BY TwoCalls
    <3>2. QED
      BY <1>1, <2>3, <3>1 DEF Lower, Above
  <2>4. QED
    BY <2>1, <2>2, <2>3
<1>4. \A z \in Made(calls') : ~Above(enabled, z)
  BY <1>1, <1>3 DEF Lower, Above
<1>5. ~CloseOn'
  BY <1>3 DEF CloseOn, Lower
<1>6. Open' <=> mode = "down"
  BY <1>1, <1>5 DEF Open, Past
<1>7. Shape'
  <2>1. \/ calls' = <<>>
        \/ \E x \in WriterCall : calls' = <<x>>
        \/ \E x, y \in WriterCall :
              calls' = <<x, y>> /\ x.op = "header" /\ y.op = "write"
    BY DEF Lower
  <2>2. ASSUME NEW x \in Made(calls')
        PROVE  /\ x.op # "write" => x.data = <<>>
               /\ x.to = "server" \/ Installed(x.to)'
               /\ x.op = "header" => x.code = Asked'
               /\ x.op = "close" => mode' = "closing"
               /\ mode' = "closing" /\ Above(enabled', x) => x.op = "close"
    <3>1. Lower(x) /\ ~Above(enabled, x)
      BY <1>3, <1>4
    <3>2. Installed(x.to)' = Installed(x.to)
      BY <1>1 DEF Installed, Past
    <3>3. QED
      BY <1>1, <1>2, <3>1, <3>2 DEF Lower
  <2>3. QED
    BY <1>1, <2>1, <2>2 DEF Shape
<1>8. Status'
  <2>1. sent.status = 0 /\ (Answered \/ gw'.started) => HeaderOn'
    BY <1>1
  <2>2. QED
    BY <1>1, <1>2, <2>1 DEF Status
<1>9. QED
  BY <1>3, <1>4, <1>5, <1>6, <1>7, <1>8

LEMMA LowerCalls ==
    ASSUME TypeOK, orig["gzip"] \in Sink
    PROVE  /\ \A data \in Data : /\ Lower(WriteCall(orig["gzip"], data))
                                 /\ WriteCall(orig["gzip"], data).op = "write"
                                 /\ WriteCall(orig["gzip"], data).data = data
           /\ \A code \in Codes : code = Asked =>
                 /\ Lower(HeaderCall(orig["gzip"], code))
                 /\ HeaderCall(orig["gzip"], code).op = "header"
                 /\ HeaderCall(orig["gzip"], code).data = <<>>
<1>1. ASSUME NEW data \in Data
      PROVE  /\ Lower(WriteCall(orig["gzip"], data))
             /\ WriteCall(orig["gzip"], data).op = "write"
             /\ WriteCall(orig["gzip"], data).data = data
  <2>1. WriteCall(orig["gzip"], data) \in WriterCall
    BY CallTypes
  <2>2. /\ WriteCall(orig["gzip"], data).op = "write"
        /\ WriteCall(orig["gzip"], data).data = data
        /\ WriteCall(orig["gzip"], data).to = orig["gzip"]
    BY DEF WriteCall
  <2>3. QED
    BY <2>1, <2>2 DEF Lower
<1>2. ASSUME NEW code \in Codes, code = Asked
      PROVE  /\ Lower(HeaderCall(orig["gzip"], code))
             /\ HeaderCall(orig["gzip"], code).op = "header"
             /\ HeaderCall(orig["gzip"], code).data = <<>>
  <2>1. HeaderCall(orig["gzip"], code) \in WriterCall
    BY <1>2, CallTypes
  <2>2. /\ HeaderCall(orig["gzip"], code).op = "header"
        /\ HeaderCall(orig["gzip"], code).data = <<>>
        /\ HeaderCall(orig["gzip"], code).code = code
        /\ HeaderCall(orig["gzip"], code).to = orig["gzip"]
    BY DEF HeaderCall
  <2>3. QED
    BY <1>2, <2>1, <2>2 DEF Lower
<1>3. QED
  BY <1>1, <1>2

LEMMA DecidedFields ==
    ASSUME gw \in GzipWriter
    PROVE  /\ Decided.decided = TRUE /\ Decided.compress = Compressible
           /\ Decided.wroteHead = gw.wroteHead /\ Decided.started = gw.started
           /\ Decided.buf = gw.buf /\ Decided.pending = gw.pending
           /\ Decided \in GzipWriter
<1>1. Decided \in GzipWriter
  BY DecidedType
<1>2. ASSUME NEW g \in GzipWriter, NEW b
      PROVE  LET n == [g EXCEPT !.decided = TRUE, !.compress = b]
             IN  /\ n.decided = TRUE /\ n.compress = b
                 /\ n.wroteHead = g.wroteHead /\ n.started = g.started
                 /\ n.buf = g.buf /\ n.pending = g.pending
  BY DEF GzipWriter
<1>3. QED
  BY <1>1, <1>2 DEF Decided

LEMMA GzipUpdates ==
    ASSUME NEW g \in GzipWriter, NEW d
    PROVE  /\ [g EXCEPT !.buf = d].buf = d
           /\ [g EXCEPT !.buf = d].pending = g.pending
           /\ [g EXCEPT !.buf = d].started = g.started
           /\ [g EXCEPT !.buf = d].wroteHead = g.wroteHead
           /\ [g EXCEPT !.buf = d].decided = g.decided
           /\ [g EXCEPT !.buf = d].compress = g.compress
           /\ [g EXCEPT !.pending = d].buf = g.buf
           /\ [g EXCEPT !.pending = d].pending = d
           /\ [g EXCEPT !.pending = d].started = g.started
           /\ [g EXCEPT !.pending = d].wroteHead = g.wroteHead
           /\ [g EXCEPT !.pending = d].decided = g.decided
           /\ [g EXCEPT !.pending = d].compress = g.compress
BY DEF GzipWriter

LEMMA GzipStarts ==
    ASSUME NEW g \in GzipWriter, NEW d
    PROVE  LET n == [g EXCEPT !.wroteHead = TRUE, !.started = TRUE,
                              !.buf = <<>>, !.pending = d]
           IN  /\ n.wroteHead = TRUE /\ n.started = TRUE /\ n.buf = <<>>
               /\ n.pending = d
               /\ n.decided = g.decided /\ n.compress = g.compress
BY DEF GzipWriter

LEMMA GzipHeads ==
    ASSUME NEW g \in GzipWriter, NEW b
    PROVE  LET n == [g EXCEPT !.wroteHead = TRUE, !.started = b]
           IN  /\ n.wroteHead = TRUE /\ n.started = b /\ n.buf = g.buf
               /\ n.pending = g.pending
               /\ n.decided = g.decided /\ n.compress = g.compress
BY DEF GzipWriter

\* gzipWriter.WriteHeader: the first call it gets, if there is one.
LEMMA GoodGzipHeader ==
    ASSUME TypeOK, Good, Wired, Recorded, Writers,
           Shape, Fields, Choice, Status, Content, GzipHeader
    PROVE  Shape' /\ Fields' /\ Choice' /\ Status' /\ Content'
<1>1. Call.to = "gzip" /\ Call.op = "header"
  BY DEF GzipHeader, Calling, Call
<1>2. /\ UNCHANGED <<enabled, at, mode, c, written, direct, orig>>
      /\ calls # <<>> /\ Call \in WriterCall /\ Call \in Made(calls)
      /\ "gzip" \in enabled /\ Above(enabled, Call)
      /\ orig["gzip"] \in Sink /\ orig["gzip"] \in {"server", "timeout"}
      /\ orig["gzip"] = "server" \/ Installed(orig["gzip"])
      /\ Open /\ mode = "down" /\ ~Unanswered /\ Call.data = <<>>
  BY <1>1, GzipCalled
<1>3. /\ \A w \in Wrappers : Installed(w)' = Installed(w)
      /\ Asked' = Asked /\ Answered' = Answered
      /\ Unanswered' = Unanswered
  BY WriterFrame
<1>4. Fresh /\ sent.status = 0 /\ body = <<>>
      /\ \A x \in Made(calls) : Above(enabled, x)
  BY <1>1, <1>2 DEF Choice, Fresh
<1>5. gw \in GzipWriter /\ gw.pending = <<>> /\ header \in Header
  BY <1>4 DEF TypeOK, Fields, Fresh
<1> DEFINE h == HeaderCall(orig["gzip"], Call.code)
<1>6. /\ gw' = [Decided EXCEPT !.wroteHead = TRUE, !.started = Compressible]
      /\ header' = [header EXCEPT !.encoded = Compressible]
      /\ calls' = <<h>> \o Tail(calls)
      /\ UNCHANGED <<sent, body>>
  BY <1>4 DEF GzipHeader, Fresh, netVars
<1>7. /\ gw'.wroteHead = TRUE /\ gw'.started = Compressible
      /\ gw'.buf = <<>> /\ gw'.pending = <<>>
      /\ gw'.decided = TRUE /\ gw'.compress = Compressible
  <2>1. PICK g \in GzipWriter : g = Decided
    BY <1>5, DecidedFields
  <2>2. /\ g.decided = TRUE /\ g.compress = Compressible
        /\ g.buf = <<>> /\ g.pending = <<>>
    BY <1>4, <1>5, <2>1, DecidedFields DEF Fresh
  <2>3. gw' = [g EXCEPT !.wroteHead = TRUE, !.started = Compressible]
    BY <1>6, <2>1
  <2>4. QED
    BY <2>2, <2>3, GzipHeads
<1>8. header'.encoded = gw'.started
  <2>1. [header EXCEPT !.encoded = Compressible].encoded = Compressible
    BY <1>5 DEF Header
  <2>2. QED
    BY <1>6, <1>7, <2>1
<1>9. Lower(h) /\ h.op = "header" /\ h.data = <<>> /\ ~Above(enabled, h)
  <2>1. Call.code = Asked
    BY <1>1, <1>2 DEF Shape
  <2>2. Call.code \in Codes
    BY <2>1, StatusIsCode
  <2>3. QED
    BY <1>2, <2>1, <2>2, LowerCalls DEF Lower, Above
<1>10. \/ calls = <<Call>> /\ calls' = <<h>>
       \/ \E y \in WriterCall :
             calls = <<Call, y>> /\ calls' = <<h, y>> /\ y.op = "write"
  <2>1. <<h>> \o <<>> = <<h>> /\ \A y : <<h>> \o <<y>> = <<h, y>>
    BY PairOf
  <2>2. QED
    BY <1>2, <1>6, <2>1, CallAndRest
<1>11. \A x \in Made(calls') : x = h \/ (x \in Made(calls) /\ x.op = "write")
  <2>1. CASE calls' = <<h>>
    BY <2>1, OneCall
  <2>2. ASSUME NEW y \in WriterCall, calls = <<Call, y>>, calls' = <<h, y>>,
               y.op = "write"
        PROVE  \A x \in Made(calls') :
                   x = h \/ (x \in Made(calls) /\ x.op = "write")
    <3>1. Made(<<Call, y>>) = {Call, y}
      BY TwoCalls
    <3>2. Made(<<h, y>>) = {h, y}
      BY TwoCalls
    <3>3. QED
      BY <2>2, <3>1, <3>2
  <2>3. QED
    BY <1>10, <2>1, <2>2
<1>12. h \in Made(calls') /\ HeaderOn'
  <2>1. h \in Made(calls')
    <3>1. Made(<<h>>) = {h} /\ \A y : Made(<<h, y>>) = {h, y}
      BY OneCall, TwoCalls
    <3>2. QED
      BY <1>10, <3>1
  <2>2. QED
    BY <1>9, <2>1 DEF HeaderOn
<1>13. Open' /\ Open
  BY <1>2 DEF Open, Past
<1> HIDE DEF h
<1>14. Shape'
  <2>1. \/ \E x \in WriterCall : calls' = <<x>>
        \/ \E x, y \in WriterCall :
              calls' = <<x, y>> /\ x.op = "header" /\ y.op = "write"
    BY <1>9, <1>10 DEF Lower
  <2>2. ASSUME NEW x \in Made(calls')
        PROVE  /\ x.op # "write" => x.data = <<>>
               /\ x.to = "server" \/ Installed(x.to)'
               /\ x.op = "header" => x.code = Asked'
               /\ x.op = "close" => mode' = "closing"
               /\ mode' = "closing" /\ Above(enabled', x) => x.op = "close"
    <3>1. x = h \/ (x \in Made(calls) /\ x.op = "write")
      BY <1>11
    <3>2. Installed(x.to)' = Installed(x.to)
      BY <1>2 DEF Installed, Past
    <3>3. CASE x = h
      BY <1>2, <1>3, <1>9, <3>2, <3>3 DEF Lower
    <3>4. CASE x \in Made(calls) /\ x.op = "write"
      BY <1>2, <1>3, <3>2, <3>4 DEF Shape
    <3>5. QED
      BY <3>1, <3>3, <3>4
  <2>3. QED
    BY <1>2, <2>1, <2>2 DEF Shape
<1>15. Fields'
  BY <1>2, <1>7, <1>13 DEF Fields
<1>16. Choice'
  <2>1. \A x \in Made(calls') : ~(x.op = "header" /\ Above(enabled, x))
    BY <1>9, <1>11
  <2>2. QED
    BY <1>2, <1>4, <1>6, <1>7, <1>8, <2>1 DEF Choice
<1>17. Status'
  BY <1>2, <1>3, <1>4, <1>6, <1>12 DEF Status
<1>18. Content'
  <2> SUFFICES ASSUME ~Misfit', Gathered
               PROVE  Gathered'
    BY MisfitStays DEF Content
  <2>1. <<>> \in Data /\ Ids(<<>>) = <<>> /\ \A as : All(<<>>, as)
    BY GoodData, IdsOfNone
  <2>2. /\ ~gw.started /\ gw.buf = <<>> /\ All(Flight(calls), "plain")
        /\ Ids(<<>>) \o Ids(<<>>) \o Ids(Flight(calls)) = written
    BY <1>4 DEF Gathered, Fresh
  <2>3. CASE calls = <<Call>> /\ calls' = <<h>>
    <3>1. /\ Flight(calls) = <<>> /\ Flight(calls') = <<>>
          /\ ~Upper(enabled, calls')
      BY <1>2, <1>9, <2>3, OneCall
    <3>2. <<>> \o <<>> \o <<>> = <<>>
      OBVIOUS
    <3>3. written = <<>>
      BY <2>1, <2>2, <3>1, <3>2
    <3>4. QED
      BY <1>2, <1>4, <1>6, <1>7, <1>13, <2>1, <3>1, <3>2, <3>3 DEF Gathered
  <2>4. ASSUME NEW y \in WriterCall, calls = <<Call, y>>, calls' = <<h, y>>
        PROVE  Gathered'
    <3>1. /\ Flight(<<Call, y>>) = y.data /\ Made(<<Call, y>>) = {Call, y}
      BY TwoCalls
    <3>2. /\ Flight(<<h, y>>) = y.data
          /\ Upper(enabled, <<h, y>>) <=> Above(enabled, y)
      BY TwoCalls
    <3>3. Upper(enabled, calls') /\ Flight(calls') = Flight(calls)
      BY <1>4, <2>4, <3>1, <3>2
    <3>4. QED
      BY <1>2, <1>4, <1>6, <1>7, <1>13, <2>1, <2>2, <3>3 DEF Gathered
  <2>5. QED
    BY <1>10, <2>3, <2>4
<1>19. QED
  BY <1>14, <1>15, <1>16, <1>17, <1>18

LEMMA Choosing ==
    ASSUME TypeOK, Fields
    PROVE  /\ gw.started => Compressible
           /\ gw.buf # <<>> => Compressible
           /\ Compressible /\ ~gw.started
                 => ~gw.wroteHead /\ (gw.decided => gw.compress)
           /\ Compressible \in BOOLEAN
BY DecidedType DEF Fields, Compressible, TypeOK, GzipWriter

\* gzipWriter.Write of data that is not compressed.
LEMMA GoodGzipPass ==
    ASSUME TypeOK, Good, Wired, Recorded, Writers,
           Shape, Fields, Choice, Status, Content, GzipPass
    PROVE  Shape' /\ Fields' /\ Choice' /\ Status' /\ Content'
<1>1. Call.to = "gzip" /\ Call.op = "write"
  BY DEF GzipPass, Calling, Call
<1>2. /\ UNCHANGED <<enabled, at, mode, c, written, direct, orig>>
      /\ calls # <<>> /\ orig["gzip"] \in Sink /\ mode = "down"
      /\ ~HeaderOn /\ Call \in WriterCall
  BY <1>1, GzipCalled
<1>3. /\ ~Compressible /\ gw' = Decided /\ UNCHANGED <<sent, body, header>>
      /\ calls' = <<WriteCall(orig["gzip"], Call.data)>> \o Tail(calls)
  BY DEF GzipPass, netVars
<1>4. ~gw.started /\ gw.buf = <<>> /\ gw \in GzipWriter
  BY <1>3, Choosing DEF TypeOK
<1>5. /\ gw'.decided = TRUE /\ gw'.compress = Compressible
      /\ gw'.wroteHead = gw.wroteHead /\ gw'.started = gw.started
      /\ gw'.buf = <<>> /\ gw'.pending = gw.pending
  BY <1>3, <1>4, DecidedFields
<1> DEFINE w == WriteCall(orig["gzip"], Call.data)
<1>6. Lower(w) /\ w.op = "write" /\ w.data = Call.data
  BY <1>2, LowerCalls, GoodData
<1>7. calls' = <<w>> /\ Flight(calls) = Call.data
  <2>1. Tail(calls) = <<>> /\ Flight(calls) = Call.data
    BY <1>1, <1>2, LoneCall
  <2>2. <<w>> \o <<>> = <<w>>
    BY PairOf
  <2>3. QED
    BY <1>3, <2>1, <2>2
<1> HIDE DEF w
<1>8. /\ Shape' /\ Status' /\ ~Upper(enabled, calls')
      /\ Open' <=> mode = "down"
  BY <1>1, <1>3, <1>4, <1>5, <1>6, <1>7, GzipAnswered
<1>9. Made(calls') = {w} /\ Flight(calls') = Call.data
  BY <1>6, <1>7, OneCall
<1>10. Fields'
  BY <1>2, <1>3, <1>4, <1>5, <1>8 DEF Fields
<1>11. Choice'
  BY <1>2, <1>3, <1>5, <1>6, <1>9 DEF Choice
<1>12. Content'
  <2> SUFFICES ASSUME ~Misfit', Gathered
               PROVE  Gathered'
    BY MisfitStays DEF Content
  <2>1. QED
    BY <1>2, <1>3, <1>4, <1>5, <1>7, <1>9 DEF Gathered
<1>13. QED
  BY <1>8, <1>10, <1>11, <1>12

\* gzipWriter.Write that keeps a small answer.
LEMMA GoodGzipBuffer ==
    ASSUME TypeOK, Good, Wired, Recorded, Writers,
           Shape, Fields, Choice, Status, Content, GzipBuffer
    PROVE  Shape' /\ Fields' /\ Choice' /\ Status' /\ Content'
<1>1. Call.to = "gzip" /\ Call.op = "write"
  BY DEF GzipBuffer, Calling, Call
<1>2. /\ UNCHANGED <<enabled, at, mode, c, written, direct, orig>>
      /\ calls # <<>> /\ mode = "down" /\ Open
      /\ ~HeaderOn /\ Call \in WriterCall /\ "gzip" \in enabled
  BY <1>1, GzipCalled
<1>3. /\ Compressible /\ ~gw.started /\ UNCHANGED <<sent, body, header>>
      /\ gw' = [Decided EXCEPT !.buf = Decided.buf \o Call.data]
      /\ calls' = Tail(calls)
  BY DEF GzipBuffer, netVars
<1>4. gw \in GzipWriter /\ ~gw.wroteHead /\ (gw.decided => gw.compress)
  BY <1>3, Choosing DEF TypeOK
<1>5. /\ gw'.decided = TRUE /\ gw'.compress = Compressible
      /\ gw'.wroteHead = FALSE /\ gw'.started = FALSE
      /\ gw'.buf = gw.buf \o Call.data /\ gw'.pending = gw.pending
  <2>1. PICK g \in GzipWriter : g = Decided
    BY <1>4, DecidedFields
  <2>2. /\ g.decided = TRUE /\ g.compress = Compressible
        /\ g.buf = gw.buf /\ g.pending = gw.pending
        /\ g.wroteHead = gw.wroteHead /\ g.started = gw.started
    BY <1>4, <2>1, DecidedFields
  <2>3. gw' = [g EXCEPT !.buf = g.buf \o Call.data]
    BY <1>3, <2>1
  <2>4. gw.wroteHead = FALSE /\ gw.started = FALSE
    BY <1>3, <1>4 DEF GzipWriter
  <2>5. /\ gw'.decided = g.decided /\ gw'.compress = g.compress
        /\ gw'.wroteHead = g.wroteHead /\ gw'.started = g.started
        /\ gw'.buf = g.buf \o Call.data /\ gw'.pending = g.pending
    BY <2>3, GzipUpdates
  <2>6. QED
    BY <2>2, <2>4, <2>5
<1>6. calls' = <<>> /\ Flight(calls) = Call.data
  BY <1>1, <1>2, <1>3, LoneCall
<1>7. /\ Shape' /\ Status' /\ ~Upper(enabled, calls')
      /\ Open' <=> mode = "down"
  BY <1>1, <1>3, <1>5, <1>6, GzipAnswered
<1>8. Made(calls') = {} /\ Flight(calls') = <<>>
  BY <1>6, NoCalls
<1>9. sent.status = 0 /\ body = <<>>
  BY <1>2, <1>4 DEF Choice
<1>10. Fields'
  BY <1>2, <1>3, <1>5, <1>7 DEF Fields
<1>11. Choice'
  <2>1. gw'.started = gw.started
    BY <1>3, <1>4, <1>5 DEF GzipWriter
  <2>2. QED
    BY <1>2, <1>3, <1>8, <1>9, <2>1 DEF Choice
<1>12. Content'
  <2> SUFFICES ASSUME ~Misfit', Gathered
               PROVE  Gathered'
    BY MisfitStays DEF Content
  <2>1. /\ gw.buf \in Data /\ Call.data \in Data
        /\ Ids(body) \in Seq(Nat) /\ Ids(gw.buf) \in Seq(Nat)
        /\ Ids(Call.data) \in Seq(Nat) /\ Ids(<<>>) = <<>>
    BY <1>2, GoodData
  <2>2. /\ Ids(gw'.buf) = Ids(gw.buf) \o Ids(Call.data)
        /\ All(gw'.buf, "plain") <=> All(gw.buf, "plain") /\ All(Call.data, "plain")
        /\ All(<<>>, "plain")
    BY <1>5, <2>1, IdsOfBoth, AllOfBoth, IdsOfNone
  <2>3. /\ Ids(body) \o Ids(gw.buf) \o Ids(Call.data)
              = Ids(body) \o Ids(gw'.buf)
        /\ Ids(body) \o Ids(gw'.buf) \o <<>> = Ids(body) \o Ids(gw'.buf)
    <3>1. Ids(gw'.buf) \in Seq(Nat)
      BY <2>1, <2>2, Joined
    <3>2. Ids(body) \o Ids(gw'.buf) \in Seq(Nat)
      BY <2>1, <3>1, Joined
    <3>3. \A q \in Seq(Nat) : q \o <<>> = q
      OBVIOUS
    <3>4. (Ids(body) \o Ids(gw.buf)) \o Ids(Call.data)
              = Ids(body) \o (Ids(gw.buf) \o Ids(Call.data))
      BY <2>1, Regrouped
    <3>5. QED
      BY <2>2, <3>2, <3>3, <3>4
  <2>4. QED
    BY <1>2, <1>3, <1>5, <1>6, <1>8, <2>1, <2>2, <2>3 DEF Gathered
<1>13. QED
  BY <1>7, <1>10, <1>11, <1>12

\* gzipWriter.startGzip, with the data held back or passed on at once.
LEMMA GoodStart ==
    ASSUME TypeOK, Good, Wired, Recorded, Writers,
           Shape, Fields, Choice, Status, Content,
           Call.to = "gzip", Call.op \in {"write", "flush"},
           ~gw.started, ~gw.wroteHead, Compressible, UNCHANGED <<sent, body>>,
           NEW all, all = gw.buf \o Call.data,
           Start(all, <<>>) \/ Start(<<>>, Emit(all))
    PROVE  Shape' /\ Fields' /\ Choice' /\ Status' /\ Content'
<1>1. /\ UNCHANGED <<enabled, at, mode, c, written, direct, orig>>
      /\ calls # <<>> /\ orig["gzip"] \in Sink /\ mode = "down" /\ Open
      /\ ~HeaderOn /\ Call \in WriterCall /\ "gzip" \in enabled
      /\ sent.status = 0 => Asked = 200
  BY GzipCalled
<1>2. /\ gw \in GzipWriter /\ header \in Header
      /\ gw.decided => gw.compress
  BY Choosing DEF TypeOK
<1>3. sent.status = 0 /\ body = <<>> /\ gw.pending = <<>>
  BY <1>1, <1>2 DEF Choice, Fields
<1>4. /\ gw.buf \in Data /\ Call.data \in Data /\ <<>> \in Data /\ all \in Data
      /\ Packed(all) \in Data
  BY <1>1, GoodData, Concatenated, PackedIds
<1> DEFINE h == HeaderCall(orig["gzip"], 200)
           w == WriteCall(orig["gzip"], Packed(all))
<1>5. /\ Lower(h) /\ h.op = "header" /\ h.data = <<>>
      /\ Lower(w) /\ w.op = "write" /\ w.data = Packed(all)
  BY <1>1, <1>3, <1>4, LowerCalls, StatusIsCode
<1>6. PICK data \in Data, more \in {<<>>, <<w>>} :
         /\ \/ data = all /\ more = <<>>
            \/ data = <<>> /\ more = <<w>>
         /\ Start(data, more)
  BY <1>4 DEF Emit
<1>7. /\ header' = [header EXCEPT !.encoded = TRUE]
      /\ calls' = <<h>> \o more \o Tail(calls)
      /\ gw' = [Decided EXCEPT !.wroteHead = TRUE, !.started = TRUE,
                               !.buf = <<>>, !.pending = data]
  BY <1>6 DEF Start
<1>8. Tail(calls) = <<>> /\ Flight(calls) = Call.data
      /\ (Upper(enabled, calls) <=> Above(enabled, Call))
  BY <1>1, LoneCall
<1> HIDE DEF h, w
<1>9. \/ data = all /\ calls' = <<h>>
      \/ data = <<>> /\ calls' = <<h, w>>
  <2>1. <<h>> \o <<>> = <<h>> /\ <<h>> \o <<w>> = <<h, w>>
        /\ <<h, w>> \o <<>> = <<h, w>>
    BY PairOf
  <2>2. QED
    BY <1>6, <1>7, <1>8, <2>1
<1>10. /\ gw'.wroteHead = TRUE /\ gw'.started = TRUE /\ gw'.buf = <<>>
       /\ gw'.pending = data /\ gw'.decided = TRUE /\ gw'.compress = TRUE
  <2>1. PICK g \in GzipWriter : g = Decided
    BY <1>2, DecidedFields
  <2>2. g.decided = TRUE /\ g.compress = Compressible
    BY <1>2, <2>1, DecidedFields
  <2>3. Compressible = TRUE
    BY Choosing
  <2>4. gw' = [g EXCEPT !.wroteHead = TRUE, !.started = TRUE,
                        !.buf = <<>>, !.pending = data]
    BY <1>7, <2>1
  <2>5. QED
    BY <2>2, <2>3, <2>4, GzipStarts
<1>11. header'.encoded = TRUE
  BY <1>2, <1>7 DEF Header
<1>12. /\ Made(calls') \subseteq {h, w} /\ h \in Made(calls')
       /\ \/ data = all /\ Flight(calls') = <<>>
          \/ data = <<>> /\ Flight(calls') = Packed(all)
  <2>1. CASE data = all /\ calls' = <<h>>
    BY <1>5, <2>1, OneCall
  <2>2. CASE data = <<>> /\ calls' = <<h, w>>
    <3>1. Made(<<h, w>>) = {h, w} /\ Flight(<<h, w>>) = w.data
      BY TwoCalls
    <3>2. QED
      BY <1>5, <2>2, <3>1
  <2>3. QED
    BY <1>9, <2>1, <2>2
<1>13. HeaderOn'
  BY <1>5, <1>12 DEF HeaderOn
<1>14. /\ Shape' /\ Status' /\ ~Upper(enabled, calls')
       /\ \A z \in Made(calls') : ~Above(enabled, z)
       /\ Open' <=> mode = "down"
  <2>1. \/ calls' = <<>>
        \/ \E z : Lower(z) /\ calls' = <<z>>
        \/ \E x, z : /\ Lower(x) /\ x.op = "header"
                     /\ Lower(z) /\ z.op = "write"
                     /\ calls' = <<x, z>>
    BY <1>5, <1>9
  <2>2. QED
    BY <1>13, <2>1, GzipAnswered
<1>15. Fields'
  BY <1>1, <1>10, <1>14 DEF Fields
<1>16. Choice'
  <2>1. header'.encoded = gw'.started /\ sent'.status = 0
    BY <1>3, <1>10, <1>11
  <2>2. ~(~gw'.wroteHead)
    BY <1>10
  <2>3. QED
    BY <1>1, <1>14, <2>1, <2>2 DEF Choice
<1>17. Content'
  <2> SUFFICES ASSUME ~Misfit', Gathered
               PROVE  Gathered'
    BY MisfitStays DEF Content
  <2>1. /\ Ids(gw.buf) \in Seq(Nat) /\ Ids(Call.data) \in Seq(Nat)
        /\ Ids(<<>>) = <<>> /\ \A as : All(<<>>, as)
    BY <1>1, GoodData, IdsOfNone
  <2>2. /\ Ids(all) = Ids(gw.buf) \o Ids(Call.data) /\ Ids(all) \in Seq(Nat)
        /\ All(all, "plain") <=> All(gw.buf, "plain") /\ All(Call.data, "plain")
        /\ Ids(Packed(all)) = Ids(all) /\ All(Packed(all), "packed")
    BY <1>4, IdsOfBoth, AllOfBoth, PackedIds, IdsType
  <2>3. /\ All(gw.buf, "plain") /\ All(Call.data, "plain")
        /\ Ids(body) \o Ids(gw.buf) \o Ids(Call.data) = written
    BY <1>8 DEF Gathered
  <2>4. Ids(all) = written
    <3>1. <<>> \o Ids(gw.buf) = Ids(gw.buf)
      BY <2>1, Joined
    <3>2. QED
      BY <1>3, <2>1, <2>2, <2>3, <3>1
  <2>5. /\ Ids(<<>>) \o Ids(<<>>) \o Ids(all) = written
        /\ Ids(<<>>) \o Ids(all) \o Ids(<<>>) = written
    <3>1. <<>> \o <<>> = <<>> /\ <<>> \o Ids(all) = Ids(all)
          /\ Ids(all) \o <<>> = Ids(all)
      BY <2>2, Joined
    <3>2. QED
      BY <2>1, <2>4, <3>1
  <2>6. /\ All(gw'.pending, "plain") /\ All(Flight(calls'), "packed")
        /\ Ids(body) \o Ids(Flight(calls')) \o Ids(gw'.pending) = written
    <3>1. CASE data = all /\ Flight(calls') = <<>>
      BY <1>3, <1>10, <2>1, <2>2, <2>3, <2>5, <3>1
    <3>2. CASE data = <<>> /\ Flight(calls') = Packed(all)
      <4>1. Ids(Flight(calls')) = Ids(all) /\ gw'.pending = <<>>
            /\ All(Flight(calls'), "packed")
        BY <1>10, <2>2, <3>2
      <4>2. QED
        BY <1>3, <2>1, <2>5, <4>1
    <3>3. QED
      BY <1>12, <3>1, <3>2
  <2>7. QED
    BY <1>1, <1>3, <1>10, <1>14, <2>1, <2>6 DEF Gathered
<1>18. QED
  BY <1>14, <1>15, <1>16, <1>17

LEMMA GoodGzipStart ==
    ASSUME TypeOK, Good, Wired, Recorded, Writers,
           Shape, Fields, Choice, Status, Content, GzipStart
    PROVE  Shape' /\ Fields' /\ Choice' /\ Status' /\ Content'
<1>1. Call.to = "gzip" /\ Call.op = "write"
  BY DEF GzipStart, Calling, Call
<1>2. /\ ~gw.started /\ ~gw.wroteHead /\ Compressible /\ UNCHANGED <<sent, body>>
      /\ \/ Start(gw.buf \o Call.data, <<>>)
         \/ Start(<<>>, Emit(gw.buf \o Call.data))
  BY DEF GzipStart, netVars
<1>3. QED
  BY <1>1, <1>2, GoodStart

\* What the compressor holds back, passed on or not.
LEMMA GoodCompressed ==
    ASSUME TypeOK, Good, Wired, Recorded, Writers,
           Shape, Fields, Choice, Status, Content,
           Call.to = "gzip", Call.op \in {"write", "flush"},
           gw.started, UNCHANGED <<sent, body, header>>,
           NEW all, all = gw.pending \o Call.data,
           \/ gw' = [gw EXCEPT !.pending = all] /\ calls' = Tail(calls)
           \/ gw' = [gw EXCEPT !.pending = <<>>] /\ calls' = Emit(all) \o Tail(calls)
    PROVE  Shape' /\ Fields' /\ Choice' /\ Status' /\ Content'
<1>1. /\ UNCHANGED <<enabled, at, mode, c, written, direct, orig>>
      /\ calls # <<>> /\ orig["gzip"] \in Sink /\ mode = "down" /\ Open
      /\ Call \in WriterCall /\ Above(enabled, Call)
  BY GzipCalled
<1>2. gw \in GzipWriter
  BY DEF TypeOK
<1>3. /\ gw.pending \in Data /\ Call.data \in Data /\ <<>> \in Data /\ all \in Data
      /\ Packed(all) \in Data
  BY <1>1, GoodData, Concatenated, PackedIds
<1> DEFINE w == WriteCall(orig["gzip"], Packed(all))
<1>4. Lower(w) /\ w.op = "write" /\ w.data = Packed(all)
  BY <1>1, <1>3, LowerCalls
<1>5. Tail(calls) = <<>> /\ Flight(calls) = Call.data
      /\ (Upper(enabled, calls) <=> Above(enabled, Call))
  BY <1>1, LoneCall
<1>6. \/ gw' = [gw EXCEPT !.pending = all] /\ calls' = <<>>
      \/ gw' = [gw EXCEPT !.pending = <<>>] /\ calls' = <<w>>
  <2>1. <<w>> \o <<>> = <<w>>
    BY PairOf
  <2>2. QED
    BY <1>5, <2>1 DEF Emit
<1> HIDE DEF w
<1>7. /\ gw'.wroteHead = gw.wroteHead /\ gw'.started = gw.started
      /\ gw'.buf = gw.buf
      /\ gw'.decided = gw.decided /\ gw'.compress = gw.compress
      /\ \/ gw'.pending = all /\ calls' = <<>>
         \/ gw'.pending = <<>> /\ calls' = <<w>>
  <2>1. CASE gw' = [gw EXCEPT !.pending = all] /\ calls' = <<>>
    <3>1. /\ gw'.wroteHead = gw.wroteHead /\ gw'.started = gw.started
          /\ gw'.buf = gw.buf /\ gw'.pending = all
          /\ gw'.decided = gw.decided /\ gw'.compress = gw.compress
      <4>1. PICK d : d = all
        OBVIOUS
      <4>2. gw' = [gw EXCEPT !.pending = d]
        BY <2>1, <4>1
      <4>3. /\ gw'.wroteHead = gw.wroteHead /\ gw'.started = gw.started
            /\ gw'.buf = gw.buf /\ gw'.pending = d
            /\ gw'.decided = gw.decided /\ gw'.compress = gw.compress
        BY <1>2, <4>2, GzipUpdates, Zenon
      <4>4. QED
        BY <4>1, <4>3
    <3>2. QED
      BY <2>1, <3>1
  <2>2. CASE gw' = [gw EXCEPT !.pending = <<>>] /\ calls' = <<w>>
    BY <1>2, <2>2, GzipUpdates
  <2>3. QED
    BY <1>6, <2>1, <2>2
<1>8. /\ Shape' /\ Status' /\ ~Upper(enabled, calls')
      /\ \A z \in Made(calls') : ~Above(enabled, z)
      /\ Open' <=> mode = "down"
  BY <1>4, <1>7, GzipAnswered
<1>9. Fields'
  BY <1>1, <1>7, <1>8 DEF Fields
<1>10. Choice'
  BY <1>1, <1>7, <1>8 DEF Choice, Fields
<1>11. \/ gw'.pending = all /\ Flight(calls') = <<>>
       \/ gw'.pending = <<>> /\ Flight(calls') = Packed(all)
  <2>1. Flight(<<>>) = <<>> /\ Flight(<<w>>) = w.data
    BY NoCalls, OneCall
  <2>2. QED
    BY <1>4, <1>7, <2>1
<1>12. Content'
  <2> SUFFICES ASSUME ~Misfit', Gathered
               PROVE  Gathered'
    BY MisfitStays DEF Content
  <2>1. /\ Ids(gw.pending) \in Seq(Nat) /\ Ids(Call.data) \in Seq(Nat)
        /\ Ids(body) \in Seq(Nat)
        /\ Ids(<<>>) = <<>> /\ \A as : All(<<>>, as)
    BY <1>1, GoodData, IdsOfNone
  <2>2. /\ Ids(all) = Ids(gw.pending) \o Ids(Call.data) /\ Ids(all) \in Seq(Nat)
        /\ All(all, "plain")
               <=> All(gw.pending, "plain") /\ All(Call.data, "plain")
        /\ Ids(Packed(all)) = Ids(all) /\ All(Packed(all), "packed")
    <3>1. gw.pending \in Data /\ Call.data \in Data /\ all \in Data
      BY <1>3
    <3>2. Ids(all) \in Seq(Nat)
      BY <3>1, IdsType
    <3>3. Ids(Packed(all)) = Ids(all) /\ All(Packed(all), "packed")
      BY <3>1, PackedIds
    <3>4. all = gw.pending \o Call.data
      BY <1>3
    <3>5. Ids(gw.pending \o Call.data) = Ids(gw.pending) \o Ids(Call.data)
      BY <3>1, IdsOfBoth
    <3>6. All(gw.pending \o Call.data, "plain")
              <=> All(gw.pending, "plain") /\ All(Call.data, "plain")
      BY <3>1, AllOfBoth
    <3>7. QED
      BY <3>2, <3>3, <3>4, <3>5, <3>6
  <2>3. /\ All(body, "packed")
        /\ All(gw.pending, "plain") /\ All(Call.data, "plain")
        /\ Ids(body) \o Ids(gw.pending) \o Ids(Call.data) = written
    BY <1>1, <1>5 DEF Gathered
  <2>4. Ids(body) \o Ids(all) = written
    <3>1. (Ids(body) \o Ids(gw.pending)) \o Ids(Call.data)
              = Ids(body) \o (Ids(gw.pending) \o Ids(Call.data))
      BY <2>1, Regrouped
    <3>2. QED
      BY <2>2, <2>3, <3>1
  <2>5. /\ Ids(body) \o Ids(<<>>) \o Ids(all) = written
        /\ Ids(body) \o Ids(all) \o Ids(<<>>) = written
    <3>1. Ids(body) \o Ids(all) \in Seq(Nat)
      BY <2>1, <2>2, Joined
    <3>2. \A q \in Seq(Nat) : q \o <<>> = q
      OBVIOUS
    <3>3. QED
      BY <2>1, <2>4, <3>1, <3>2
  <2>6. /\ All(gw'.pending, "plain") /\ All(Flight(calls'), "packed")
        /\ Ids(body) \o Ids(Flight(calls')) \o Ids(gw'.pending) = written
    <3>1. CASE gw'.pending = all /\ Flight(calls') = <<>>
      BY <2>1, <2>2, <2>3, <2>5, <3>1
    <3>2. CASE gw'.pending = <<>> /\ Flight(calls') = Packed(all)
      <4>1. Ids(Flight(calls')) = Ids(all) /\ All(Flight(calls'), "packed")
        BY <2>2, <3>2
      <4>2. QED
        BY <2>1, <2>5, <3>2, <4>1
    <3>3. QED
      BY <1>11, <3>1, <3>2
  <2>7. QED
    BY <1>1, <1>7, <1>8, <2>3, <2>6 DEF Gathered
<1>13. QED
  BY <1>8, <1>9, <1>10, <1>12

LEMMA GoodGzipWrite ==
    ASSUME TypeOK, Good, Wired, Recorded, Writers,
           Shape, Fields, Choice, Status, Content, GzipWrite
    PROVE  Shape' /\ Fields' /\ Choice' /\ Status' /\ Content'
<1>1. Call.to = "gzip" /\ Call.op = "write"
  BY DEF GzipWrite, Calling, Call
<1>2. /\ gw.started /\ UNCHANGED <<sent, body, header>>
      /\ \/ /\ gw' = [gw EXCEPT !.pending = gw.pending \o Call.data]
            /\ calls' = Tail(calls)
         \/ /\ gw' = [gw EXCEPT !.pending = <<>>]
            /\ calls' = Emit(gw.pending \o Call.data) \o Tail(calls)
  BY DEF GzipWrite, netVars
<1>3. QED
  BY <1>1, <1>2, GoodCompressed

\* A call that the compressor has no use for.
LEMMA GoodDropped ==
    ASSUME TypeOK, Good, Wired, Recorded, Writers,
           Shape, Fields, Choice, Status, Content,
           Call.to = "gzip", Call.op \in {"flush", "close"},
           ~gw.started, Call.op = "close" => gw.buf = <<>>,
           calls' = <<>>, UNCHANGED <<gw, sent, body, header>>
    PROVE  Shape' /\ Fields' /\ Choice' /\ Status' /\ Content'
<1>1. /\ UNCHANGED <<enabled, at, mode, c, written, direct, orig>>
      /\ calls # <<>> /\ Open /\ Call \in WriterCall /\ Call.data = <<>>
      /\ mode = IF Call.op = "close" THEN "closing" ELSE "down"
  BY GzipCalled
<1>2. /\ Shape' /\ Status'
      /\ Open' <=> mode = "down"
  BY GzipAnswered
<1>3. Made(calls') = {} /\ Flight(calls') = <<>> /\ Flight(calls) = <<>>
  BY <1>1, NoCalls, LoneCall
<1>4. Fields'
  BY <1>1, <1>2 DEF Fields
<1>5. Choice'
  BY <1>1, <1>2, <1>3 DEF Choice
<1>6. Content'
  <2> SUFFICES ASSUME ~Misfit', Gathered
               PROVE  Gathered'
    BY MisfitStays DEF Content
  <2>1. QED
    BY <1>1, <1>3 DEF Gathered
<1>7. QED
  BY <1>2, <1>4, <1>5, <1>6

\* gzipWriter.Flush.
LEMMA GoodGzipFlush ==
    ASSUME TypeOK, Good, Wired, Recorded, Writers,
           Shape, Fields, Choice, Status, Content, GzipFlush
    PROVE  Shape' /\ Fields' /\ Choice' /\ Status' /\ Content'
<1>1. Call.to = "gzip" /\ Call.op = "flush" /\ UNCHANGED <<sent, body>>
  BY DEF GzipFlush, Calling, Call, netVars
<1>2. /\ calls # <<>> /\ Call.data = <<>> /\ gw.buf \in Data
      /\ gw.pending \in Data
  BY <1>1, GzipCalled, GoodData
<1>3. /\ gw.buf = gw.buf \o Call.data
      /\ gw.pending = gw.pending \o Call.data
  BY <1>2 DEF Data
<1>4. CASE ~gw.started /\ gw.buf # <<>> /\ ~gw.wroteHead
           /\ Start(<<>>, Emit(gw.buf))
  <2>1. Compressible
    BY <1>4, Choosing
  <2>2. PICK all : all = gw.buf \o Call.data
    OBVIOUS
  <2>3. Start(<<>>, Emit(all))
    BY <1>3, <1>4, <2>2
  <2>4. QED
    BY <1>1, <1>4, <2>1, <2>2, <2>3, GoodStart
<1>5. CASE gw.started /\ gw' = [gw EXCEPT !.pending = <<>>]
           /\ calls' = Emit(gw.pending) \o Tail(calls) /\ UNCHANGED header
  <2>1. PICK all : all = gw.pending \o Call.data
    OBVIOUS
  <2>2. calls' = Emit(all) \o Tail(calls)
    BY <1>3, <1>5, <2>1
  <2>3. QED
    BY <1>1, <1>5, <2>1, <2>2, GoodCompressed
<1>6. CASE ~gw.started /\ calls' = Tail(calls) /\ UNCHANGED <<gw, header>>
  <2>1. calls' = <<>>
    BY <1>1, <1>2, <1>6, LoneCall
  <2>2. QED
    BY <1>1, <1>6, <2>1, GoodDropped
<1>7. QED
  BY <1>4, <1>5, <1>6 DEF GzipFlush

\* gzipWriter.Close.
LEMMA GoodGzipClose ==
    ASSUME TypeOK, Good, Wired, Recorded, Writers,
           Shape, Fields, Choice, Status, Content, GzipClose
    PROVE  Shape' /\ Fields' /\ Choice' /\ Status' /\ Content'
<1>1. Call.to = "gzip" /\ Call.op = "close" /\ UNCHANGED <<sent, body>>
  BY DEF GzipClose, Calling, Call, netVars
<1>2. /\ UNCHANGED <<enabled, at, mode, c, written, direct, orig>>
      /\ calls # <<>> /\ orig["gzip"] \in Sink /\ mode = "closing" /\ Open
      /\ Call \in WriterCall /\ Above(enabled, Call) /\ Call.data = <<>>
      /\ ~HeaderOn
  BY <1>1, GzipCalled
<1>3. /\ gw \in GzipWriter /\ header \in Header
      /\ gw.pending \in Data /\ gw.buf \in Data /\ body \in Data
      /\ Packed(gw.pending) \in Data /\ End \in Data
      /\ Packed(gw.pending) \o End \in Data
  BY GoodData, PackedIds, EndType, Concatenated DEF TypeOK
<1>4. Flight(calls) = <<>> /\ Upper(enabled, calls)
  BY <1>1, <1>2, LoneCall
<1>5. /\ Ids(gw.pending) \in Seq(Nat) /\ Ids(gw.buf) \in Seq(Nat)
      /\ Ids(body) \in Seq(Nat) /\ Ids(<<>>) = <<>> /\ \A as : All(<<>>, as)
      /\ \A q \in Seq(Nat) : q \o <<>> = q
  BY GoodData, IdsOfNone
<1>6. CASE /\ gw.started /\ gw' = [gw EXCEPT !.pending = <<>>]
           /\ calls' = <<WriteCall(orig["gzip"], Packed(gw.pending) \o End)>>
           /\ UNCHANGED header
  <2> DEFINE w == WriteCall(orig["gzip"], Packed(gw.pending) \o End)
  <2>1. Lower(w) /\ w.op = "write" /\ w.data = Packed(gw.pending) \o End
    BY <1>2, <1>3, LowerCalls
  <2>2. calls' = <<w>>
    BY <1>6
  <2> HIDE DEF w
  <2>3. /\ gw'.wroteHead = gw.wroteHead /\ gw'.started = gw.started
        /\ gw'.buf = gw.buf /\ gw'.pending = <<>>
        /\ gw'.decided = gw.decided /\ gw'.compress = gw.compress
    <3>1. gw' = [gw EXCEPT !.pending = <<>>]
      BY <1>6
    <3>2. QED
      BY <1>3, <3>1, GzipUpdates, Zenon
  <2>4. /\ Shape' /\ Status' /\ ~Upper(enabled, calls')
        /\ \A z \in Made(calls') : ~Above(enabled, z)
        /\ Open' <=> mode = "down"
    BY <1>1, <2>1, <2>2, <2>3, GzipAnswered
  <2>5. Flight(calls') = Packed(gw.pending) \o End
    BY <2>1, <2>2, OneCall
  <2>6. Fields'
    BY <1>2, <1>6, <2>3, <2>4 DEF Fields
  <2>7. Choice'
    BY <1>1, <1>2, <1>6, <2>3, <2>4 DEF Choice
  <2>8. Content'
    <3> SUFFICES ASSUME ~Misfit', Gathered
                 PROVE  Gathered'
      BY MisfitStays DEF Content
    <3>1. /\ All(body, "packed") /\ All(gw.pending, "plain")
          /\ Ids(body) \o Ids(gw.pending) \o <<>> = written
      BY <1>2, <1>4, <1>5, <1>6 DEF Gathered
    <3>2. PICK t \in Data : t = body \o Packed(gw.pending)
      BY <1>3, Concatenated
    <3>3. All(t, "packed")
      BY <1>3, <3>1, <3>2, AllOfBoth, PackedIds
    <3>4. Ids(t) = written
      <4>1. Ids(t) = Ids(body) \o Ids(gw.pending)
        <5>1. Ids(t) = Ids(body) \o Ids(Packed(gw.pending))
          BY <1>3, <3>2, IdsOfBoth
        <5>2. QED
          BY <1>3, <5>1, PackedIds
      <4>2. Ids(body) \o Ids(gw.pending) \in Seq(Nat)
        BY <1>5, Joined
      <4>3. QED
        BY <1>5, <3>1, <4>1, <4>2
    <3>5. t \o End = body \o Flight(calls')
      <4>1. (body \o Packed(gw.pending)) \o End
                = body \o (Packed(gw.pending) \o End)
        <5>1. PICK p \in Data : p = Packed(gw.pending)
          BY <1>3
        <5>2. /\ p \in Seq(Token) /\ body \in Seq(Token)
              /\ End \in Seq(Token)
          BY <1>3, <5>1 DEF Data
        <5>3. (body \o p) \o End = body \o (p \o End)
          BY <5>2
        <5>4. QED
          BY <5>1, <5>3
      <4>2. QED
        BY <2>5, <3>2, <4>1
    <3>6. Sealed(body \o Flight(calls'), written)
      BY <3>3, <3>4, <3>5 DEF Sealed
    <3>7. QED
      BY <1>1, <1>2, <1>6, <2>3, <2>4, <3>6 DEF Gathered
  <2>9. QED
    BY <2>4, <2>6, <2>7, <2>8
<1>7. CASE /\ ~gw.started /\ gw.buf # <<>> /\ gw' = [gw EXCEPT !.buf = <<>>]
           /\ calls' = <<WriteCall(orig["gzip"], gw.buf)>>
           /\ header' = [header EXCEPT !.encoded = FALSE]
  <2> DEFINE w == WriteCall(orig["gzip"], gw.buf)
  <2>1. Lower(w) /\ w.op = "write" /\ w.data = gw.buf
    BY <1>2, <1>3, LowerCalls
  <2>2. calls' = <<w>>
    BY <1>7
  <2> HIDE DEF w
  <2>3. /\ gw'.wroteHead = gw.wroteHead /\ gw'.started = gw.started
        /\ gw'.buf = <<>> /\ gw'.pending = gw.pending
        /\ gw'.decided = gw.decided /\ gw'.compress = gw.compress
    BY <1>3, <1>7, GzipUpdates
  <2>4. /\ Shape' /\ Status' /\ ~Upper(enabled, calls')
        /\ \A z \in Made(calls') : ~Above(enabled, z)
        /\ Open' <=> mode = "down"
    BY <1>1, <2>1, <2>2, <2>3, GzipAnswered
  <2>5. Flight(calls') = gw.buf
    BY <2>1, <2>2, OneCall
  <2>6. Fields'
    BY <1>2, <1>7, <2>3, <2>4 DEF Fields
  <2>7. Choice'
    <3>1. header'.encoded = FALSE /\ gw.started = FALSE
      BY <1>3, <1>7 DEF Header, GzipWriter
    <3>2. QED
      BY <1>1, <1>2, <2>3, <2>4, <3>1 DEF Choice
  <2>8. Content'
    <3> SUFFICES ASSUME ~Misfit', Gathered
                 PROVE  Gathered'
      BY MisfitStays DEF Content
    <3>1. /\ All(body, "plain") /\ All(gw.buf, "plain")
          /\ Ids(body) \o Ids(gw.buf) \o <<>> = written
      BY <1>4, <1>5, <1>7 DEF Gathered
    <3>2. Ids(body) \o Ids(gw.buf) \in Seq(Nat)
      BY <1>5, Joined
    <3>3. Ids(body) \o Ids(<<>>) \o Ids(gw.buf) = written
      BY <1>5, <3>1, <3>2
    <3>4. QED
      BY <1>1, <1>2, <1>5, <1>7, <2>3, <2>5, <3>1, <3>3 DEF Gathered
  <2>9. QED
    BY <2>4, <2>6, <2>7, <2>8
<1>8. CASE ~gw.started /\ gw.buf = <<>> /\ calls' = <<>> /\ UNCHANGED <<gw, header>>
  BY <1>1, <1>8, GoodDropped
<1>9. QED
  BY <1>6, <1>7, <1>8 DEF GzipClose

\* Every call of a writer.
LEMMA GoodWriters ==
    ASSUME TypeOK, Sized, Good, Wired, Recorded, InTime,
           Shape, Fields, Choice, Status, Content, Writers
    PROVE  /\ Good' /\ Wired' /\ Recorded' /\ InTime'
           /\ Shape' /\ Fields' /\ Choice' /\ Status' /\ Content'
<1>1. /\ calls # <<>> /\ Good' /\ Wired' /\ Recorded'
      /\ UNCHANGED <<at, mode, deadline, orig>>
  BY WriterFrame
<1>2. ~Expired
  BY <1>1 DEF InTime, Good, Expired, Shape
<1>3. tw'.timedOut = tw.timedOut
  <2>1. CASE ToTimeout
    <3>1. tw' = [tw EXCEPT !.wroteHeader = tw.wroteHeader \/ Call.op = "header"]
      BY <1>2, <2>1 DEF ToTimeout
    <3>2. tw \in [timedOut : BOOLEAN, wroteHeader : BOOLEAN]
      BY DEF TypeOK
    <3>3. QED
      BY <3>1, <3>2
  <2>2. CASE ~ToTimeout
    BY <2>2 DEF Writers, ToServer, ToAccessLog, FlushTimeout, GzipHeader,
       GzipPass, GzipBuffer, GzipStart, GzipWrite, GzipFlush, GzipClose,
       writerVars
  <2>3. QED
    BY <2>1, <2>2
<1>4. InTime'
  BY <1>1, <1>3 DEF InTime
<1>5. Shape' /\ Fields' /\ Choice' /\ Status' /\ Content'
  <2>1. CASE ToServer
    BY <2>1, Received DEF ToServer, Calling, Call, writerVars
  <2>2. CASE ToTimeout
    BY <1>2, <2>2, Received DEF ToTimeout, Calling, Call
  <2>3. Call \in WriterCall /\ Call \in Made(calls)
    BY <1>1, CallAndRest
  <2>4. CASE ToAccessLog
    <3>1. Call.to = "access_log" /\ Installed("access_log")
      BY <2>3, <2>4 DEF ToAccessLog, Calling, Call, Shape
    <3>2. PICK z : z = [Call EXCEPT !.to = orig["access_log"]]
      OBVIOUS
    <3>3. /\ z.to = orig["access_log"] /\ z.op = Call.op /\ z.data = Call.data
          /\ z.code = Call.code
      BY <2>3, <3>2 DEF WriterCall
    <3>4. z \in WriterCall
      BY <2>3, <3>2, CallTypes DEF TypeOK, Wrappers
    <3>5. Passed(Call, z)
      BY <3>1, <3>3, Destinations DEF Passed, Above
    <3>6. calls' = <<z>> \o Tail(calls) /\ UNCHANGED <<gw, sent, body, header>>
      BY <2>4, <3>2 DEF ToAccessLog, writerVars, netVars
    <3>7. QED
      BY <3>4, <3>5, <3>6, PassedOn
  <2>5. CASE FlushTimeout
    <3>1. Call.to = "timeout" /\ Installed("timeout") /\ Call.op = "flush"
      BY <2>3, <2>5 DEF FlushTimeout, Calling, Call, Shape
    <3>2. PICK z : z = FlushCall(orig["timeout"])
      OBVIOUS
    <3>3. /\ z.to = "server" /\ z.op = "flush" /\ z.data = <<>>
      BY <3>1, <3>2, Destinations DEF FlushCall
    <3>4. z \in WriterCall
      BY <3>2, CallTypes DEF TypeOK, Wrappers
    <3>5. Passed(Call, z)
      <4>1. Call.data = <<>>
        BY <2>3, <3>1 DEF Shape
      <4>2. QED
        BY <3>1, <3>3, <4>1 DEF Passed, Above
    <3>6. calls' = <<z>> \o Tail(calls) /\ UNCHANGED <<gw, sent, body, header>>
      BY <2>5, <3>2 DEF FlushTimeout, writerVars, netVars
    <3>7. QED
      BY <3>4, <3>5, <3>6, PassedOn
  <2>6. QED
    BY <2>1, <2>2, <2>4, <2>5, GoodGzipHeader, GoodGzipPass, GoodGzipBuffer,
       GoodGzipStart, GoodGzipWrite, GoodGzipFlush, GoodGzipClose DEF Writers
<1>6. QED
  BY <1>1, <1>4, <1>5

\* What the handler is given: the innermost writer, and nothing under way.
Answering(x) ==
    /\ x \in WriterCall /\ x.to = writer /\ x.op \in {"header", "write", "flush"}
    /\ x.op # "write" => x.data = <<>>

LEMMA HandlerCalls ==
    ASSUME TypeOK, Good, Wired, Recorded, InTime,
           Handling, UNCHANGED <<enabled, at, mode, writer, orig, deadline, tw,
                                 panics, m, logged>>,
           \/ \E x : Answering(x) /\ calls' = <<x>>
           \/ \E h, x : /\ Answering(h) /\ h.op = "header"
                        /\ Answering(x) /\ x.op = "write"
                        /\ calls' = <<h, x>>,
           \A x \in Made(calls') : x.op = "header" => x.code = Asked'
    PROVE  /\ Good' /\ Wired' /\ Recorded' /\ InTime' /\ Shape' /\ Open /\ Open'
           /\ "gzip" \in enabled =>
                 /\ \A x \in Made(calls') : Above(enabled, x)
                 /\ Upper(enabled, calls')
<1>1. at = "handler" /\ mode = "down" /\ calls = <<>>
  BY DEF Handling, Entering
<1>2. /\ Good' /\ Wired' /\ Recorded' /\ InTime' /\ Open /\ Open'
      /\ \A w \in Wrappers : Installed(w)' = Installed(w)
  BY <1>1 DEF Good, Wired, Recorded, InTime, Open, Installed, Past
<1>3. /\ writer = "server" \/ Installed(writer)
      /\ "gzip" \in enabled => writer \in {"gzip", "access_log"}
      /\ writer \in Sink
  BY <1>1, Positions DEF Wired, Installed, Past, TypeOK
<1>4. /\ \A x \in Made(calls') : Answering(x)
      /\ (\A x : Answering(x) => Above(enabled, x)) => Upper(enabled, calls')
  <2>1. ASSUME NEW x, Answering(x), calls' = <<x>>
        PROVE  /\ \A z \in Made(calls') : Answering(z)
               /\ (\A z : Answering(z) => Above(enabled, z))
                      => Upper(enabled, calls')
    <3>1. Made(<<x>>) = {x} /\ (Upper(enabled, <<x>>) <=> Above(enabled, x))
      BY OneCall
    <3>2. QED
      BY <2>1, <3>1
  <2>2. ASSUME NEW h, NEW x, Answering(h), Answering(x), calls' = <<h, x>>
        PROVE  /\ \A z \in Made(calls') : Answering(z)
               /\ (\A z : Answering(z) => Above(enabled, z))
                      => Upper(enabled, calls')
    <3>1. /\ Made(<<h, x>>) = {h, x}
          /\ Upper(enabled, <<h, x>>) <=> Above(enabled, x)
      BY TwoCalls
    <3>2. QED
      BY <2>2, <3>1
  <2>3. QED
    BY <2>1, <2>2
<1>5. "gzip" \in enabled => \A x : Answering(x) => Above(enabled, x)
  BY <1>3 DEF Answering, Above
<1>6. Shape'
  <2>1. \/ \E x \in WriterCall : calls' = <<x>>
        \/ \E x, y \in WriterCall :
              calls' = <<x, y>> /\ x.op = "header" /\ y.op = "write"
    BY DEF Answering
  <2>2. ASSUME NEW x \in Made(calls')
        PROVE  /\ x.op # "write" => x.data = <<>>
               /\ x.to = "server" \/ Installed(x.to)'
               /\ x.op = "header" => x.code = Asked'
               /\ x.op = "close" => mode' = "closing"
               /\ mode' = "closing" /\ Above(enabled', x) => x.op = "close"
    <3>1. Answering(x)
      BY <1>4
    <3>2. Installed(x.to)' = Installed(x.to)
      BY DEF Installed, Past
    <3>3. QED
      BY <1>1, <1>3, <3>1, <3>2 DEF Answering
  <2>3. QED
    BY <1>1, <2>1, <2>2 DEF Shape
<1>7. QED
  BY <1>2, <1>4, <1>5, <1>6

\* The first answer, a status or a status and a write.
LEMMA GoodAnswer ==
    ASSUME TypeOK, Good, Wired, Recorded, InTime,
           Shape, Fields, Choice, Status, Content,
           Handling, Unanswered,
           UNCHANGED <<enabled, at, mode, writer, orig, deadline, tw,
                       panics, m, logged, gw, sent, body>>,
           header'.encoded = header.encoded,
           NEW code \in Codes, Asked' = code, Answered',
           c'.wrote <=> c'.status # 0,
           NEW h, h = HeaderCall(writer, code),
           NEW w, w = WriteCall(writer, Plain(1)),
           \/ calls' = <<h>> /\ written' = <<>>
           \/ calls' = <<h, w>> /\ written' = << 1 >>
    PROVE  /\ Good' /\ Wired' /\ Recorded' /\ InTime'
           /\ Shape' /\ Fields' /\ Choice' /\ Status' /\ Content'
<1>1. at = "handler" /\ mode = "down" /\ calls = <<>> /\ writer \in Sink
  BY DEF Handling, Entering, TypeOK
<1>2. code # 0
  BY DEF Codes
<1>3. Plain(1) \in Data /\ Ids(Plain(1)) = <<1>> /\ All(Plain(1), "plain")
  BY PlainIds, FirstWrite
<1>4. /\ Answering(h) /\ h.op = "header" /\ h.code = code /\ h.data = <<>>
      /\ Answering(w) /\ w.op = "write" /\ w.data = Plain(1)
  <2>1. h \in WriterCall /\ w \in WriterCall
    BY <1>1, <1>3, CallTypes
  <2>2. /\ h.to = writer /\ h.op = "header" /\ h.code = code /\ h.data = <<>>
        /\ w.to = writer /\ w.op = "write" /\ w.data = Plain(1)
    BY DEF HeaderCall, WriteCall
  <2>3. QED
    BY <2>1, <2>2 DEF Answering
<1>5. /\ Made(calls') \subseteq {h, w} /\ h \in Made(calls')
      /\ \/ Flight(calls') = <<>> /\ written' = <<>>
         \/ Flight(calls') = Plain(1) /\ written' = <<1>>
  <2>1. CASE calls' = <<h>> /\ written' = <<>>
    BY <1>4, <2>1, OneCall
  <2>2. CASE calls' = <<h, w>> /\ written' = <<1>>
    <3>1. Made(<<h, w>>) = {h, w} /\ Flight(<<h, w>>) = w.data
      BY TwoCalls
    <3>2. QED
      BY <1>4, <2>2, <3>1
  <2>3. QED
    BY <2>1, <2>2
<1>6. HeaderOn'
  BY <1>4, <1>5 DEF HeaderOn
<1>7. /\ Good' /\ Wired' /\ Recorded' /\ InTime' /\ Shape' /\ Open /\ Open'
      /\ "gzip" \in enabled => \A x \in Made(calls') : Above(enabled, x)
  <2>1. \/ \E x : Answering(x) /\ calls' = <<x>>
        \/ \E g, x : /\ Answering(g) /\ g.op = "header"
                     /\ Answering(x) /\ x.op = "write"
                     /\ calls' = <<g, x>>
    BY <1>4
  <2>2. \A x \in Made(calls') : x.op = "header" => x.code = Asked'
    BY <1>2, <1>4, <1>5
  <2>3. QED
    BY <2>1, <2>2, HandlerCalls
<1>8. Fresh /\ sent.status = 0 /\ body = <<>> /\ gw.pending = <<>>
  BY <1>1 DEF Status, Fields, Fresh
<1>9. Fields'
  BY <1>7 DEF Fields
<1>10. Fresh'
  BY <1>8 DEF Fresh
<1>11. Choice'
  BY <1>7, <1>8, <1>10 DEF Choice
<1>12. Status'
  BY <1>1, <1>2, <1>6, <1>8 DEF Status, Unanswered, Answered
<1>13. Content'
  <2>1. Ids(<<>>) = <<>> /\ \A as : All(<<>>, as)
    BY IdsOfNone
  <2>2. <<>> \o <<>> \o <<>> = <<>> /\ <<>> \o <<>> \o <<1>> = <<1>>
    OBVIOUS
  <2>3. ~gw.started /\ gw.buf = <<>>
    BY <1>8 DEF Fresh
  <2>4. /\ All(Flight(calls'), "plain")
        /\ <<>> \o <<>> \o Ids(Flight(calls')) = written'
    BY <1>3, <1>5, <2>1, <2>2
  <2>5. QED
    BY <1>8, <2>1, <2>3, <2>4 DEF Content, Gathered
<1>14. QED
  BY <1>7, <1>9, <1>11, <1>12, <1>13

\* A write, or a flush, of a handler that has begun to answer.
LEMMA GoodFurther ==
    ASSUME TypeOK, Good, Wired, Recorded, InTime,
           Shape, Fields, Choice, Status, Content,
           Handling,
           UNCHANGED <<enabled, at, mode, writer, orig, deadline, tw,
                       panics, m, logged, gw, sent, body, header, c, direct>>,
           NEW x, Answering(x), x.op # "header", calls' = <<x>>,
           written' # <<>> \/ Answered,
           written' = written \o Ids(x.data), All(x.data, "plain")
    PROVE  /\ Good' /\ Wired' /\ Recorded' /\ InTime'
           /\ Shape' /\ Fields' /\ Choice' /\ Status' /\ Content'
<1>1. at = "handler" /\ mode = "down" /\ calls = <<>>
  BY DEF Handling, Entering
<1>2. /\ Made(calls) = {} /\ Flight(calls) = <<>> /\ ~Upper(enabled, calls)
      /\ Made(calls') = {x} /\ Flight(calls') = x.data
  BY <1>1, NoCalls, OneCall
<1>3. /\ Good' /\ Wired' /\ Recorded' /\ InTime' /\ Shape' /\ Open /\ Open'
      /\ "gzip" \in enabled => /\ \A z \in Made(calls') : Above(enabled, z)
                               /\ Upper(enabled, calls')
  BY <1>2, HandlerCalls
<1>4. Fields'
  BY <1>3 DEF Fields
<1>5. Choice'
  BY <1>1, <1>2, <1>3 DEF Choice
<1>6. Status'
  <2>1. ~HeaderOn
    BY <1>2 DEF HeaderOn
  <2>2. Asked' = Asked /\ Answered' = Answered
    BY DEF Asked, StatusCode, Answered
  <2>3. QED
    BY <1>1, <2>1, <2>2 DEF Status, Unanswered, Answered
<1>7. Content'
  <2> SUFFICES ASSUME ~Misfit', Gathered
               PROVE  Gathered'
    BY DEF Content, Misfit
  <2>1. /\ Ids(body) \in Seq(Nat) /\ Ids(gw.buf) \in Seq(Nat)
        /\ Ids(gw.pending) \in Seq(Nat) /\ Ids(x.data) \in Seq(Nat)
        /\ Ids(<<>>) = <<>> /\ \A as : All(<<>>, as)
        /\ \A q \in Seq(Nat) : q \o <<>> = q
    BY GoodData, IdsOfNone DEF Answering
  <2>2. CASE ~gw.started
    <3>1. Ids(body) \o Ids(gw.buf) \o <<>> = written
      BY <1>2, <2>1, <2>2 DEF Gathered
    <3>2. Ids(body) \o Ids(gw.buf) = written
      BY <2>1, <3>1, Joined
    <3>3. QED
      BY <1>2, <2>2, <3>2 DEF Gathered
  <2>3. CASE gw.started
    <3>1. Ids(body) \o <<>> \o Ids(gw.pending) = written
      BY <1>2, <1>3, <2>1, <2>3 DEF Gathered
    <3>2. Ids(body) \o Ids(gw.pending) = written
      BY <2>1, <3>1
    <3>3. Upper(enabled, calls')
      BY <1>3, <2>3 DEF Fields
    <3>4. QED
      BY <1>2, <1>3, <2>3, <3>2, <3>3 DEF Gathered
  <2>4. QED
    BY <2>2, <2>3
<1>8. QED
  BY <1>3, <1>4, <1>5, <1>6, <1>7

LEMMA GoodHandler ==
    ASSUME TypeOK, Good, Wired, Recorded, InTime,
           Shape, Fields, Choice, Status, Content, Handler, ~Panic, ~Return
    PROVE  /\ Good' /\ Wired' /\ Recorded' /\ InTime'
           /\ Shape' /\ Fields' /\ Choice' /\ Status' /\ Content'
<1>0. header \in Header /\ writer \in Sink
  BY DEF TypeOK
<1> USE DEF fixedVars, frameVars, writerVars, netVars, saidVars, recordVars
<1>1. ASSUME NEW code \in {200, 404}, Respond(code)
      PROVE  /\ Good' /\ Wired' /\ Recorded' /\ InTime'
             /\ Shape' /\ Fields' /\ Choice' /\ Status' /\ Content'
  <2>1. header'.encoded = header.encoded
    BY <1>0, <1>1 DEF Respond, Header
  <2>2. code \in Codes
    BY DEF Codes
  <2>3. calls' = <<HeaderCall(writer, code), WriteCall(writer, Plain(1))>>
    BY <1>1 DEF Respond, Unanswered, Answer
  <2>4. /\ Asked' = code /\ Answered'
        /\ c'.wrote <=> c'.status # 0
    BY <1>1 DEF Respond, Unanswered, Asked, StatusCode, Answered
  <2>5. QED
    BY <1>1, <2>1, <2>2, <2>3, <2>4, GoodAnswer DEF Respond
<1>2. ASSUME NEW code \in {200, 404}, NEW type \in {"none", "text", "binary"},
             SetStatus(code, type)
      PROVE  /\ Good' /\ Wired' /\ Recorded' /\ InTime'
             /\ Shape' /\ Fields' /\ Choice' /\ Status' /\ Content'
  <2>1. header'.encoded = header.encoded
    BY <1>0, <1>2 DEF SetStatus, Header
  <2>2. code \in Codes
    BY DEF Codes
  <2>3. written' = <<>>
    BY <1>2 DEF SetStatus, Unanswered
  <2>4. /\ Asked' = code /\ Answered'
        /\ c'.wrote <=> c'.status # 0
    BY <1>2 DEF SetStatus, Unanswered, Asked, StatusCode, Answered
  <2>5. QED
    BY <1>2, <2>1, <2>2, <2>3, <2>4, GoodAnswer DEF SetStatus
<1>3. ASSUME NEW type \in {"text", "binary"}, File(type) \/ DirectFile(type)
      PROVE  /\ Good' /\ Wired' /\ Recorded' /\ InTime'
             /\ Shape' /\ Fields' /\ Choice' /\ Status' /\ Content'
  <2>1. ServeContent(type) /\ Handling /\ Unanswered
    BY <1>3 DEF File, DirectFile
  <2>2. header'.encoded = header.encoded
    BY <1>0, <2>1 DEF ServeContent, Header
  <2>3. 200 \in Codes
    BY DEF Codes
  <2>4. /\ Asked' = 200 /\ Answered'
        /\ c'.wrote <=> c'.status # 0
    <3>1. CASE File(type)
      BY <2>1, <3>1 DEF File, Unanswered, Asked, StatusCode, Answered
    <3>2. CASE DirectFile(type)
      BY <2>1, <3>2 DEF DirectFile, Asked, Answered, Status
    <3>3. QED
      BY <1>3, <3>1, <3>2
  <2>5. QED
    BY <2>1, <2>2, <2>3, <2>4, GoodAnswer DEF ServeContent
<1>4. CASE Write
  <2>1. Len(written) + 1 \in 1 .. MaxWrites /\ written \in Seq(1 .. MaxWrites)
    BY MaxWritesAssumption, <1>4 DEF Write, TypeOK
  <2>2. PICK id \in 1 .. MaxWrites : id = Len(written) + 1
    BY <2>1
  <2>3. Plain(id) \in Data /\ Ids(Plain(id)) = <<id>> /\ All(Plain(id), "plain")
    BY PlainIds
  <2>4. PICK x : x = WriteCall(writer, Plain(id))
    OBVIOUS
  <2>5. x.op = "write" /\ x.data = Plain(id) /\ Answering(x)
    BY <1>0, <2>3, <2>4, CallTypes DEF WriteCall, Answering
  <2>6. calls' = <<x>> /\ written' = written \o Ids(x.data) /\ written' # <<>>
    <3>1. calls' = <<x>> /\ written' = Append(written, id)
      BY <1>4, <2>2, <2>4 DEF Write
    <3>2. Append(written, id) = written \o <<id>> /\ Append(written, id) # <<>>
      BY <2>1
    <3>3. Ids(x.data) = <<id>>
      BY <2>3, <2>5
    <3>4. QED
      BY <3>1, <3>2, <3>3
  <2>7. QED
    BY <1>4, <2>3, <2>5, <2>6, GoodFurther DEF Write
<1>5. CASE Flush
  <2>1. PICK x : x = FlushCall(writer)
    OBVIOUS
  <2>2. x.op = "flush" /\ x.data = <<>> /\ Answering(x)
    BY <1>0, <2>1, CallTypes DEF FlushCall, Answering
  <2>3. /\ calls' = <<x>> /\ written' = written
        /\ written' # <<>> \/ Answered
    BY <1>5, <2>1 DEF Flush, Unanswered, Answered
  <2>4. /\ Ids(x.data) = <<>> /\ All(x.data, "plain")
        /\ written \o <<>> = written
    BY <2>2, IdsOfNone DEF TypeOK
  <2>5. written' = written \o Ids(x.data) /\ All(x.data, "plain")
        /\ x.op # "header"
    BY <2>2, <2>3, <2>4
  <2>6. /\ UNCHANGED <<enabled, at, mode, writer, orig, deadline, tw,
                       panics, m, logged, gw, sent, body, header, c, direct>>
        /\ Handling
    BY <1>5 DEF Flush
  <2>7. QED
    BY <2>2, <2>3, <2>5, <2>6, GoodFurther
<1>6. ASSUME NEW code \in {200, 404}, NEW type \in {"none", "text", "binary"},
             DirectStatus(code, type)
      PROVE  /\ Good' /\ Wired' /\ Recorded' /\ InTime'
             /\ Shape' /\ Fields' /\ Choice' /\ Status' /\ Content'
  <2>1. header'.encoded = header.encoded
    BY <1>0, <1>6 DEF DirectStatus, Header
  <2>2. code \in Codes
    BY DEF Codes
  <2>3. written' = <<>>
    BY <1>6 DEF DirectStatus, Unanswered
  <2>4. /\ Asked' = code /\ Answered'
        /\ c'.wrote <=> c'.status # 0
    BY <1>6 DEF DirectStatus, Asked, Answered, Status
  <2>5. QED
    BY <1>6, <2>1, <2>2, <2>3, <2>4, GoodAnswer DEF DirectStatus
<1>7. QED
  BY <1>1, <1>2, <1>3, <1>4, <1>5, <1>6 DEF Handler

\* Positions are distinct, and a frame is passed or not.
LEMMA Apart ==
    ASSUME TypeOK, NEW w \in enabled
    PROVE  /\ Position[w] \in 1 .. 5 /\ w \in Frames
           /\ w # "server" /\ w # "handler"
           /\ Position[at] = Position[w] <=> at = w
BY Standing, Positions DEF Layers, Frames

\* Entering at, the frame is passed; leaving it, it is passed no more.
LEMMA EnteringPast ==
    ASSUME TypeOK, mode = "down", mode' = "down", enabled' = enabled,
           at # "handler", at' = Inner(at), NEW w \in enabled
    PROVE  Past(w)' <=> (w = at \/ Past(w))
<1>1. /\ at' \in Frames /\ Position[at'] > Position[at]
      /\ \A g \in Frames : Position[g] > Position[at]
                                => Position[at'] <= Position[g]
  BY Standing, InnerIsNext
<1>2. /\ Position[w] \in 1 .. 5 /\ w \in Frames /\ Position[at] \in 0 .. 6
      /\ Position[at] = Position[w] <=> at = w
  BY Apart, Standing
<1>3. Position[at'] \in 0 .. 6
  BY <1>1, Standing, Positions DEF Frames, Layers
<1>4. QED
  BY <1>1, <1>2, <1>3 DEF Past

LEMMA LeavingPast ==
    ASSUME TypeOK, mode # "down" \/ at = "handler", mode' # "down",
           enabled' = enabled, at # "server", at' = Outer(at), NEW w \in enabled
    PROVE  Past(w)' <=> (w # at /\ Past(w))
<1>1. /\ at' \in Frames /\ Position[at'] < Position[at]
      /\ \A g \in Frames : Position[g] < Position[at]
                                => Position[g] <= Position[at']
  BY Standing, OuterIsNext
<1>2. /\ Position[w] \in 1 .. 5 /\ w \in Frames /\ Position[at] \in 0 .. 6
      /\ Position[at] = Position[w] <=> at = w
  BY Apart, Standing
<1>3. /\ Position[at'] \in 0 .. 6
      /\ Position[at'] = Position[w] <=> at' = w
  BY <1>1, <1>2, Standing, Positions DEF Frames, Layers
<1>4. Position["handler"] = 6
  BY Positions
<1>5. QED
  BY <1>1, <1>2, <1>3, <1>4 DEF Past

\* A step on the way in.
LEMMA GoodEntering ==
    ASSUME TypeOK, Good, Wired, Recorded, InTime,
           Shape, Fields, Choice, Status, Content,
           PassOn \/ EnterTimeout \/ EnterGzip \/ EnterMetrics \/ EnterAccessLog
    PROVE  /\ Good' /\ Wired' /\ Recorded' /\ InTime'
           /\ Shape' /\ Fields' /\ Choice' /\ Status' /\ Content'
<1> USE DEF fixedVars, frameVars, writerVars, netVars, saidVars, recordVars
<1>1. /\ mode = "down" /\ mode' = "down" /\ calls = <<>> /\ at # "handler"
      /\ at' = Inner(at) /\ deadline' \in {deadline, "live"}
      /\ m'.statuses = m.statuses
      /\ UNCHANGED <<enabled, calls, tw, gw, c, header, sent, body, written, direct,
                     panics, logged>>
  <2>1. CASE EnterMetrics
    <3>1. /\ m' = [m EXCEPT !.requests = m.requests + 1,
                            !.inFlight = m.inFlight + 1]
          /\ m \in [requests : Nat, inFlight : Int, statuses : Seq(Codes)]
      BY <2>1 DEF EnterMetrics, TypeOK
    <3>2. m'.statuses = m.statuses
      BY <3>1
    <3>3. QED
      BY <2>1, <3>2 DEF EnterMetrics, Entering
  <2>2. CASE PassOn \/ EnterTimeout \/ EnterGzip \/ EnterAccessLog
    BY <2>2 DEF PassOn, EnterTimeout, EnterGzip, EnterAccessLog, Entering
  <2>3. QED
    BY <2>1, <2>2
<1>2. /\ \A w \in enabled : Past(w)' <=> (w = at \/ Past(w))
      /\ at \in enabled => ~Past(at)
  BY <1>1, EnteringPast, Standing DEF Past
<1>3. /\ \/ /\ at \notin Wrappers /\ writer' = writer /\ orig' = orig
         \/ /\ at \in Wrappers /\ at \in enabled /\ writer' = at
            /\ orig' = [orig EXCEPT ![at] = writer]
      /\ orig \in [Wrappers -> Sink]
  BY Standing DEF PassOn, EnterTimeout, EnterGzip, EnterMetrics, EnterAccessLog,
     Entering, Install, Wrappers, Frames, TypeOK
<1>4. Good'
  BY <1>1 DEF Good
<1>5. InTime'
  BY <1>1 DEF InTime
<1>6. Wired'
  <2>1. \A w \in enabled \cap Wrappers :
            Position[w] < Position[at] <=> Past(w)
    BY <1>1, Apart, Standing DEF Past
  <2>2. CASE at \notin Wrappers
    <3>1. \A w \in Wrappers : Installed(w)' = Installed(w)
      BY <1>1, <1>2, <2>2 DEF Installed
    <3>2. writer' = writer /\ orig' = orig
      BY <1>3, <2>2
    <3>3. QED
      BY <1>1, <3>1, <3>2 DEF Wired, Wrappers
  <2>3. CASE at \in Wrappers
    <3>1. /\ at \in enabled /\ writer' = at
          /\ orig'[at] = writer /\ \A w \in Wrappers : w # at => orig'[w] = orig[w]
      BY <1>3, <2>3
    <3>2. \A w \in Wrappers : Installed(w)' <=> (w = at \/ Installed(w))
      BY <1>1, <1>2, <3>1 DEF Installed
    <3>3. writer = Below(enabled, at)
      BY <2>1, <2>3, <3>1, Standing, Positions
         DEF Wired, Below, Installed, Wrappers
    <3>4. writer' = IF Installed("access_log")' THEN "access_log"
                    ELSE IF Installed("gzip")' THEN "gzip"
                    ELSE IF Installed("timeout")' THEN "timeout"
                    ELSE "server"
      BY <2>1, <2>3, <3>1, <3>2, Positions DEF Installed, Wrappers
    <3>5. \A w \in Wrappers : Installed(w)' => orig'[w] = Below(enabled, w)
      BY <3>1, <3>2, <3>3 DEF Wired
    <3>6. QED
      BY <1>1, <3>4, <3>5 DEF Wired
  <2>4. QED
    BY <2>2, <2>3
<1>7. Recorded'
  BY <1>1 DEF Recorded
<1>8. Open /\ Open'
  BY <1>1 DEF Open
<1>9. Shape'
  BY <1>1, NoCalls DEF Shape
<1>10. Fields'
  BY <1>1, <1>8 DEF Fields
<1>11. Choice'
  BY <1>1, <1>8, NoCalls DEF Choice, Fresh
<1>12. Status'
  BY <1>1, NoCalls DEF Status, Unanswered, StatusCode, Asked, Answered, Fresh,
     HeaderOn
<1>13. Content'
  <2> SUFFICES ASSUME ~Misfit', Gathered
               PROVE  Gathered'
    BY <1>1 DEF Content, Misfit
  <2>1. QED
    BY <1>1, <1>8 DEF Gathered
<1>14. QED
  BY <1>4, <1>5, <1>6, <1>7, <1>9, <1>10, <1>11, <1>12, <1>13

\* gzipWriter.Close is called.
LEMMA GoodCloseGzip ==
    ASSUME TypeOK, Good, Wired, Recorded, InTime,
           Shape, Fields, Choice, Status, Content, CloseGzip
    PROVE  /\ Good' /\ Wired' /\ Recorded' /\ InTime'
           /\ Shape' /\ Fields' /\ Choice' /\ Status' /\ Content'
<1> USE DEF fixedVars, frameVars, writerVars, netVars, saidVars, recordVars
<1>1. /\ at = "gzip" /\ mode = "up" /\ calls = <<>> /\ mode' = "closing"
      /\ UNCHANGED <<enabled, at, writer, orig, deadline, tw, gw, c, header,
                     sent, body, written, direct, panics, m, logged>>
      /\ "gzip" \in enabled
  BY Positions DEF CloseGzip, Leaving, TypeOK, Frames
<1>2. PICK x : x = CloseCall("gzip")
  OBVIOUS
<1>3. /\ x \in WriterCall /\ x.op = "close" /\ x.to = "gzip" /\ x.data = <<>>
      /\ calls' = <<x>>
  BY <1>1, <1>2, CallTypes DEF CloseCall, CloseGzip, Sink, Wrappers
<1>4. Above(enabled, x)
  BY <1>1, <1>3 DEF Above
<1>5. /\ Made(calls) = {} /\ Flight(calls) = <<>> /\ ~Upper(enabled, calls)
      /\ Made(calls') = {x} /\ Flight(calls') = <<>> /\ Upper(enabled, calls')
  BY <1>1, <1>3, <1>4, NoCalls, OneCall
<1>6. \A w : Past(w)' = Past(w)
  BY <1>1 DEF Past
<1>7. /\ Open /\ Open' /\ Past("gzip")
  <2>1. Past("gzip")
    BY <1>1 DEF Past
  <2>2. CloseOn'
    BY <1>3, <1>5 DEF CloseOn
  <2>3. QED
    BY <1>1, <2>1, <2>2 DEF Open
<1>8. StatusCode' = StatusCode /\ Asked' = Asked /\ Answered' = Answered
  BY <1>1 DEF StatusCode, Asked, Answered
<1>9. Good' /\ InTime'
  BY <1>1 DEF Good, InTime
<1>10. Wired'
  BY <1>1, <1>6 DEF Wired, Installed
<1>11. Recorded'
  BY <1>1, <1>6, <1>8 DEF Recorded
<1>12. Shape'
  <2>1. Installed("gzip")'
    BY <1>1, <1>6, <1>7 DEF Installed
  <2>2. ASSUME NEW z \in Made(calls')
        PROVE  /\ z.op # "write" => z.data = <<>>
               /\ z.to = "server" \/ Installed(z.to)'
               /\ z.op = "header" => z.code = Asked'
               /\ z.op = "close" => mode' = "closing"
               /\ mode' = "closing" /\ Above(enabled', z) => z.op = "close"
    BY <1>1, <1>3, <1>5, <2>1
  <2>3. QED
    BY <1>1, <1>3, <2>2 DEF Shape
<1>13. Fields'
  BY <1>1, <1>7 DEF Fields
<1>14. Choice'
  BY <1>1, <1>3, <1>4, <1>5, <1>7 DEF Choice, Fresh
<1>15. Status'
  <2>1. ~HeaderOn
    BY <1>5 DEF HeaderOn
  <2>2. QED
    BY <1>1, <1>8, <2>1 DEF Status
<1>16. Content'
  <2> SUFFICES ASSUME ~Misfit', Gathered
               PROVE  Gathered'
    BY <1>1 DEF Content, Misfit
  <2>1. /\ Ids(body) \in Seq(Nat) /\ Ids(gw.pending) \in Seq(Nat)
        /\ Ids(<<>>) = <<>> /\ \A as : All(<<>>, as)
        /\ \A q \in Seq(Nat) : q \o <<>> = q
    BY GoodData, IdsOfNone
  <2>2. CASE ~gw.started
    BY <1>1, <1>5, <2>2 DEF Gathered
  <2>3. CASE gw.started
    <3>1. Ids(body) \o <<>> \o Ids(gw.pending) = written
      BY <1>5, <1>7, <2>1, <2>3 DEF Gathered
    <3>2. Ids(body) \o Ids(gw.pending) = written
      BY <2>1, <3>1
    <3>3. Ids(body) \o Ids(gw.pending) \o <<>> = written
      BY <2>1, <3>2, Joined
    <3>4. QED
      BY <1>1, <1>5, <1>7, <2>1, <2>3, <3>3 DEF Gathered
  <2>4. QED
    BY <2>2, <2>3
<1>17. QED
  BY <1>9, <1>10, <1>11, <1>12, <1>13, <1>14, <1>15, <1>16

\* A step on the way out that answers nothing.
LEMMA GoodLeaving ==
    ASSUME TypeOK, Good, Wired, Recorded, InTime,
           Shape, Fields, Choice, Status, Content,
           Return \/ LeaveAccessLog \/ LeaveMetrics \/ LeaveGzip
               \/ LeaveTimeout \/ LeaveRecovery
    PROVE  /\ Good' /\ Wired' /\ Recorded' /\ InTime'
           /\ Shape' /\ Fields' /\ Choice' /\ Status' /\ Content'
<1> USE DEF fixedVars, frameVars, writerVars, netVars, saidVars, recordVars
<1>1. /\ \/ mode = "down" /\ at = "handler"
         \/ mode = "up" /\ at \in {"recovery", "timeout", "metrics", "access_log"}
         \/ mode = "closing" /\ at = "gzip"
      /\ calls = <<>> /\ mode' = "up" /\ at' = Outer(at)
      /\ UNCHANGED <<enabled, calls, orig, tw, gw, c, header, sent, body, written, direct,
                     panics>>
      /\ deadline' = deadline \/ (deadline' = "cancelled" /\ at = "timeout")
  <2>1. CASE LeaveTimeout
    <3>1. tw.timedOut = FALSE
      BY DEF InTime
    <3>2. UNCHANGED <<header, c, calls>>
      BY <2>1, <3>1 DEF LeaveTimeout
    <3>3. QED
      BY <2>1, <3>2 DEF LeaveTimeout, Leaving, Cancel
  <2>2. CASE Return \/ LeaveAccessLog \/ LeaveMetrics \/ LeaveGzip
                 \/ LeaveRecovery
    BY <2>2 DEF Return, LeaveAccessLog, LeaveMetrics, LeaveGzip, LeaveRecovery,
       Handling, Entering, Leaving
  <2>3. QED
    BY <2>1, <2>2
<1>2. \A w \in enabled : Past(w)' <=> (w # at /\ Past(w))
  BY <1>1, LeavingPast
<1>3. /\ \A w \in enabled : Past(w) <=> Position[w] <= Position[at]
      /\ at \in Frames /\ (at \in enabled \/ at = "handler")
  BY <1>1, Apart, Standing, Positions DEF Past, Frames
<1>4. /\ \/ at \notin Wrappers /\ writer' = writer
         \/ at \in Wrappers /\ at \in enabled /\ writer' = orig[at]
  BY <1>1, <1>3
     DEF Return, LeaveAccessLog, LeaveMetrics, LeaveGzip, LeaveTimeout,
         LeaveRecovery, Handling, Entering, Leaving, Wrappers
<1>5. StatusCode' = StatusCode /\ Asked' = Asked /\ Answered' = Answered
  BY <1>1 DEF StatusCode, Asked, Answered
<1>6. Good'
  BY <1>1 DEF Good
<1>7. InTime'
  <2>1. CASE deadline' = deadline
    BY <1>1, <2>1, Positions, Standing, OuterIsNext DEF InTime, Frames, Layers
  <2>2. CASE deadline' = "cancelled" /\ at = "timeout"
    BY <1>1, <2>2, Positions, Standing, OuterIsNext DEF InTime, Frames, Layers
  <2>3. QED
    BY <1>1, <2>1, <2>2
<1>8. Wired'
  <2>1. \A w \in Wrappers : Installed(w)' <=> (w # at /\ Installed(w))
    BY <1>1, <1>2 DEF Installed
  <2>2. writer' = IF Installed("access_log")' THEN "access_log"
                  ELSE IF Installed("gzip")' THEN "gzip"
                  ELSE IF Installed("timeout")' THEN "timeout"
                  ELSE "server"
    <3>1. CASE at \notin Wrappers
      BY <1>4, <2>1, <3>1 DEF Wired, Wrappers
    <3>2. CASE at \in Wrappers
      <4>1. Installed(at)
        BY <1>1, <1>3, <1>4, <3>2, Standing DEF Installed
      <4>2. writer' = Below(enabled, at)
        BY <1>4, <3>2, <4>1 DEF Wired
      <4>3. QED
        BY <1>3, <2>1, <3>2, <4>2, Positions
           DEF Below, Installed, Wrappers
    <3>3. QED
      BY <3>1, <3>2
  <2>3. QED
    BY <1>1, <2>1, <2>2 DEF Wired
<1>9. Recorded'
  <2>1. "metrics" \in enabled =>
            m'.statuses = IF at = "metrics" THEN <<StatusCode>>
                          ELSE m.statuses
    <3>1. CASE LeaveMetrics
      <4>1. /\ m' = [m EXCEPT !.inFlight = m.inFlight - 1,
                              !.statuses = Append(m.statuses, StatusCode)]
            /\ m \in [requests : Nat, inFlight : Int, statuses : Seq(Codes)]
            /\ at = "metrics" /\ mode = "up"
        BY <3>1 DEF LeaveMetrics, Leaving, TypeOK
      <4>2. m'.statuses = Append(m.statuses, StatusCode)
        BY <4>1
      <4>3. "metrics" \in enabled => m.statuses = <<>>
        BY <4>1 DEF Recorded, Past
      <4>4. Append(<<>>, StatusCode) = <<StatusCode>>
        OBVIOUS
      <4>5. QED
        BY <4>1, <4>2, <4>3, <4>4
    <3>2. CASE Return \/ LeaveAccessLog \/ LeaveGzip \/ LeaveTimeout
                   \/ LeaveRecovery
      BY <3>2 DEF Return, LeaveAccessLog, LeaveGzip, LeaveTimeout,
         LeaveRecovery, Handling, Entering, Leaving
    <3>3. QED
      BY <3>1, <3>2
  <2>2. "access_log" \in enabled =>
            logged' = IF at = "access_log" THEN <<StatusCode>> ELSE logged
    <3>1. CASE LeaveAccessLog
      <4>1. /\ logged' = Append(logged, StatusCode)
            /\ at = "access_log" /\ mode = "up"
        BY <3>1 DEF LeaveAccessLog, Leaving
      <4>2. "access_log" \in enabled => logged = <<>>
        BY <4>1 DEF Recorded, Past
      <4>3. Append(<<>>, StatusCode) = <<StatusCode>>
        OBVIOUS
      <4>4. QED
        BY <4>1, <4>2, <4>3
    <3>2. CASE Return \/ LeaveMetrics \/ LeaveGzip \/ LeaveTimeout
                   \/ LeaveRecovery
      BY <3>2 DEF Return, LeaveMetrics, LeaveGzip, LeaveTimeout,
         LeaveRecovery, Handling, Entering, Leaving
    <3>3. QED
      BY <3>1, <3>2
  <2>3. \A w \in enabled :
            mode = "down" => Past(w) /\ w # at
    BY <1>1, Apart, Standing, Positions DEF Past
  <2>4. "metrics" \in enabled =>
            m'.statuses = IF ~Past("metrics")' THEN <<StatusCode>> ELSE <<>>
    BY <1>1, <1>2, <2>1, <2>3 DEF Recorded
  <2>5. "access_log" \in enabled =>
            logged' = IF ~Past("access_log")' THEN <<StatusCode>> ELSE <<>>
    BY <1>1, <1>2, <2>2, <2>3 DEF Recorded
  <2>6. QED
    BY <1>1, <1>5, <2>4, <2>5 DEF Recorded
<1>10. Made(calls) = {} /\ ~HeaderOn /\ ~CloseOn /\ ~CloseOn'
  BY <1>1, NoCalls DEF HeaderOn, CloseOn
<1>11. "gzip" \in enabled => (Open' <=> Open)
  BY <1>1, <1>2, <1>3, <1>10, Positions DEF Open
<1>12. Shape'
  BY <1>1, NoCalls DEF Shape
<1>13. Fields'
  BY <1>1, <1>11 DEF Fields
<1>14. Choice'
  BY <1>1, <1>11, NoCalls DEF Choice, Fresh
<1>15. Status'
  BY <1>1, <1>5, <1>10 DEF Status
<1>16. Content'
  <2> SUFFICES ASSUME ~Misfit', Gathered
               PROVE  Gathered'
    BY <1>1 DEF Content, Misfit
  <2>1. QED
    BY <1>1, <1>11 DEF Gathered, Fields
<1>17. QED
  BY <1>6, <1>7, <1>8, <1>9, <1>12, <1>13, <1>14, <1>15, <1>16

\* net/http ends a good response.
LEMMA GoodFinish ==
    ASSUME TypeOK, Good, Wired, Recorded, InTime,
           Shape, Fields, Choice, Status, Content, Finish
    PROVE  /\ Good' /\ Wired' /\ Recorded' /\ InTime'
           /\ Shape' /\ Fields' /\ Choice' /\ Status' /\ Content'
<1> USE DEF fixedVars, frameVars, writerVars, netVars, saidVars, recordVars
<1>1. /\ at = "server" /\ mode = "up" /\ calls = <<>> /\ mode' = "end"
      /\ UNCHANGED <<enabled, at, calls, writer, orig, deadline, tw, gw, c,
                     header, body, written, direct, panics, m, logged>>
  BY DEF Finish, Leaving
<1>2. \A w : Past(w)' = Past(w)
  BY <1>1 DEF Past
<1>3. /\ Made(calls) = {} /\ ~HeaderOn /\ ~CloseOn /\ ~CloseOn'
  BY <1>1, NoCalls DEF HeaderOn, CloseOn
<1>4. StatusCode' = StatusCode /\ Asked' = Asked /\ Answered' = Answered
  BY <1>1 DEF StatusCode, Asked, Answered
<1>5. "gzip" \in enabled => ~Open /\ ~Open'
  <2>1. "gzip" \in enabled => ~Past("gzip")
    BY <1>1, Apart, Positions DEF Past
  <2>2. QED
    BY <1>1, <1>2, <1>3, <2>1 DEF Open
<1>6. \/ sent.status # 0 /\ sent' = sent
      \/ /\ sent.status = 0 /\ sent'.status = 200
         /\ sent'.encoded = header.encoded
  BY DEF Finish, Commit
<1>7. sent'.status = Asked' /\ sent'.status # 0
  <2>1. CASE sent.status # 0 /\ sent' = sent
    BY <1>4, <2>1 DEF Status
  <2>2. CASE sent.status = 0 /\ sent'.status = 200
    <3>1. ~Answered
      BY <1>3, <2>2 DEF Status
    <3>2. QED
      BY <1>4, <2>2, <3>1, StatusIsCode
  <2>3. QED
    BY <1>6, <2>1, <2>2
<1>8. sent'.encoded = gw'.started
  BY <1>1, <1>6 DEF Choice
<1>9. Good' /\ InTime'
  BY <1>1 DEF Good, InTime
<1>10. Wired' /\ Recorded'
  BY <1>1, <1>2, <1>4 DEF Wired, Installed, Recorded
<1>11. Shape'
  BY <1>1, NoCalls DEF Shape
<1>12. Fields'
  BY <1>1, <1>5 DEF Fields
<1>13. Choice'
  BY <1>1, <1>3, <1>5, <1>8 DEF Choice
<1>14. Status'
  BY <1>1, <1>4, <1>7 DEF Status
<1>15. Content'
  <2> SUFFICES ASSUME ~Misfit', Gathered
               PROVE  Gathered'
    BY <1>1 DEF Content, Misfit
  <2>1. QED
    BY <1>1, <1>5 DEF Gathered, Fields
<1>16. QED
  BY <1>9, <1>10, <1>11, <1>12, <1>13, <1>14, <1>15

\* Nothing heals: a good state comes from a good one.
LEMMA GoodBefore ==
    ASSUME TypeOK, DeafInv, Next, Good'
    PROVE  /\ Good
           /\ ~Expire /\ ~Panic /\ ~UnwindMetrics /\ ~UnwindWriter
           /\ ~UnwindTimeout /\ ~Recover /\ ~Abort
<1> USE DEF fixedVars, frameVars, writerVars, netVars, saidVars, recordVars
<1>0. /\ panics' = 0 /\ mode' \notin {"panic", "aborted"}
      /\ deadline' # "passed" /\ panics \in Nat
  BY DEF Good, TypeOK
<1>1. ~Expire
  BY <1>0 DEF Expire
<1>2. /\ ~Panic /\ ~UnwindMetrics /\ ~UnwindWriter
      /\ ~UnwindTimeout /\ ~Abort
  BY <1>0 DEF Panic, UnwindMetrics, UnwindWriter, UnwindTimeout, Abort,
     Unwinding
<1>3. ~Recover
  BY <1>0 DEF Recover
<1>4. CASE EnterTimeout
  <2>1. deadline = "none"
    BY <1>4, Positions DEF EnterTimeout, Entering, DeafInv, Before, Inside,
       After, TypeOK, Frames
  <2>2. panics' = panics /\ mode' = mode
    BY <1>4 DEF EnterTimeout
  <2>3. QED
    BY <1>0, <1>1, <1>2, <1>3, <2>1, <2>2 DEF Good
<1>5. CASE Handler \/ Writers
  <2>1. UNCHANGED <<panics, deadline>> /\ (mode' = mode \/ mode = "down")
    BY <1>5 DEF Handler, Respond, SetStatus, DirectStatus, ServeContent, File,
       DirectFile, Write, Flush, Panic, Return, Handling, Entering, Writers,
       ToServer, ToAccessLog, ToTimeout, FlushTimeout, GzipHeader, GzipPass,
       GzipBuffer, GzipStart, GzipWrite, GzipFlush, GzipClose
  <2>2. QED
    BY <1>0, <1>1, <1>2, <1>3, <2>1 DEF Good
<1>6. CASE Middleware /\ ~EnterTimeout
  <2>1. /\ panics' = panics
        /\ mode' = mode \/ mode \in {"up", "closing"}
        /\ deadline' = deadline \/ deadline = "live"
    BY <1>2, <1>3, <1>6 DEF Middleware, PassOn, EnterGzip, EnterMetrics,
       EnterAccessLog, LeaveAccessLog, LeaveMetrics, CloseGzip, LeaveGzip,
       LeaveTimeout, LeaveRecovery, Finish, Leaving, Cancel
  <2>2. QED
    BY <1>0, <1>1, <1>2, <1>3, <2>1 DEF Good
<1>7. QED
  BY <1>1, <1>4, <1>5, <1>6 DEF Next

\* Every step of a good request keeps the whole invariant.
LEMMA GoodStep ==
    ASSUME TypeOK, Sized, DeafInv, GoodInv, Next
    PROVE  GoodInv'
<1> SUFFICES ASSUME Good'
             PROVE  /\ Wired' /\ Shape' /\ InTime'
                    /\ Fields' /\ Choice' /\ Status' /\ Content' /\ Recorded'
  BY DEF GoodInv
<1>1. /\ Good
      /\ ~Expire /\ ~Panic /\ ~UnwindMetrics /\ ~UnwindWriter
      /\ ~UnwindTimeout /\ ~Recover /\ ~Abort
  BY GoodBefore
<1>2. /\ Wired /\ Shape /\ InTime
      /\ Fields /\ Choice /\ Status /\ Content /\ Recorded
  BY <1>1 DEF GoodInv
<1>3. CASE Handler /\ ~Return
  BY <1>1, <1>2, <1>3, GoodHandler
<1>4. CASE Writers
  BY <1>1, <1>2, <1>4, GoodWriters
<1>5. CASE PassOn \/ EnterTimeout \/ EnterGzip \/ EnterMetrics \/ EnterAccessLog
  BY <1>1, <1>2, <1>5, GoodEntering
<1>6. CASE Return \/ LeaveAccessLog \/ LeaveMetrics \/ LeaveGzip
               \/ LeaveTimeout \/ LeaveRecovery
  BY <1>1, <1>2, <1>6, GoodLeaving
<1>7. CASE CloseGzip
  BY <1>1, <1>2, <1>7, GoodCloseGzip
<1>8. CASE Finish
  BY <1>1, <1>2, <1>8, GoodFinish
<1>9. QED
  BY <1>1, <1>3, <1>4, <1>5, <1>6, <1>7, <1>8 DEF Next, Middleware

LEMMA GoodInitially == Init => GoodInv
<1> SUFFICES ASSUME Init
             PROVE  /\ Wired /\ Shape /\ InTime
                    /\ Fields /\ Choice /\ Status /\ Content /\ Recorded
  BY DEF GoodInv
<1>1. /\ enabled \in SUBSET Layers /\ at = "server" /\ mode = "down"
      /\ calls = <<>> /\ writer = "server" /\ deadline = "none"
      /\ c = [wrote |-> FALSE, status |-> 0]
      /\ tw.timedOut = FALSE
      /\ gw = [wroteHead |-> FALSE, started |-> FALSE, decided |-> FALSE,
               compress |-> FALSE, buf |-> <<>>, pending |-> <<>>]
      /\ header.encoded = FALSE /\ sent.status = 0 /\ sent.encoded = FALSE
      /\ body = <<>> /\ written = <<>> /\ m.statuses = <<>> /\ logged = <<>>
      /\ direct = 0
  BY LayerSetsAssumption DEF Init
<1>2. ~gw.wroteHead /\ ~gw.started /\ ~gw.decided
  BY <1>1
<1>3. gw.buf = <<>> /\ gw.pending = <<>> /\ ~c.wrote /\ c.status = 0
  BY <1>1
<1>4. \A w \in enabled : ~Past(w)
  <2> SUFFICES ASSUME NEW w \in Layers
               PROVE  ~Past(w)
    BY <1>1
  <2>1. w # "server" /\ Position[w] \in 1 .. 5
    BY Positions DEF Layers
  <2>2. Position[at] = 0
    BY <1>1, Positions
  <2>3. QED
    BY <1>1, <2>1, <2>2 DEF Past
<1>5. Wired
  BY <1>1, <1>4 DEF Wired, Installed
<1>6. Shape
  BY <1>1, NoCalls DEF Shape
<1>7. InTime /\ Fields /\ Choice
  BY <1>1, <1>2, <1>3, NoCalls DEF InTime, Fields, Choice, Fresh, Open
<1>8. Status
  BY <1>1, <1>2, <1>3 DEF Status, Fresh, Unanswered, Answered
<1>9. Content
  <2>1. Ids(<<>>) = <<>> /\ \A as : All(<<>>, as)
    BY IdsOfNone
  <2>2. <<>> \o <<>> \o <<>> = <<>>
    OBVIOUS
  <2>3. Flight(calls) = <<>>
    BY <1>1, NoCalls
  <2>4. QED
    BY <1>1, <1>2, <1>3, <2>1, <2>2, <2>3 DEF Content, Gathered
<1>10. Recorded
  BY <1>1 DEF Recorded
<1>11. QED
  BY <1>5, <1>6, <1>7, <1>8, <1>9, <1>10

LEMMA GoodInvariant == Spec => [](TypeOK /\ Sized /\ DeafInv /\ GoodInv)
<1>1. ASSUME GoodInv, UNCHANGED vars
      PROVE  GoodInv'
  <2>1. UNCHANGED <<enabled, at, mode, calls, writer, orig, c, deadline, tw, gw,
                    header, sent, body, written, direct, panics, m, logged>>
    BY <1>1 DEF vars, fixedVars, frameVars, writerVars, netVars, saidVars,
       recordVars
  <2>2. Good' => Good
    BY <2>1 DEF Good
  <2>3. /\ Wired => Wired'
        /\ InTime => InTime'
    BY <2>1 DEF Wired, InTime, Installed, Past
  <2>4. Shape => Shape'
    BY <2>1 DEF Shape, Installed, Past, Asked, StatusCode
  <2>5. /\ Fields => Fields'
        /\ Choice => Choice'
    BY <2>1 DEF Fields, Choice, Open, Past, CloseOn, Fresh
  <2>6. Status => Status'
    BY <2>1 DEF Status, Asked, Answered, StatusCode, HeaderOn, Fresh,
       Unanswered
  <2>7. Content => Content'
    BY <2>1 DEF Content, Gathered, Misfit, Open, Past, CloseOn
  <2>8. Recorded => Recorded'
    BY <2>1 DEF Recorded, StatusCode, Past
  <2>9. QED
    BY <1>1, <2>2, <2>3, <2>4, <2>5, <2>6, <2>7, <2>8 DEF GoodInv
<1>2. TypeOK /\ Sized /\ DeafInv /\ GoodInv /\ [Next]_vars => GoodInv'
  BY <1>1, GoodStep
<1>3. QED
  BY <1>2, GoodInitially, SizedInvariant, DeafInvariant, PTL DEF Spec

LEMMA Lengthened ==
    ASSUME NEW S, NEW s \in Seq(S), NEW u \in Seq(S), Len(u) = 1
    PROVE  /\ Len(s \o u) = Len(s) + 1
           /\ \A i \in 1 .. Len(s) : (s \o u)[i] = s[i]
           /\ (s \o u)[Len(s) + 1] = u[1]
<1>1. Len(s) \in Nat
  BY LenProperties
<1>2. /\ Len(s \o u) = Len(s) + Len(u)
      /\ \A i \in 1 .. Len(s) + Len(u) : (s \o u)[i] =
            IF i <= Len(s) THEN s[i] ELSE u[i - Len(s)]
  BY ConcatProperties
<1>3. /\ Len(s) + 1 \in 1 .. Len(s) + Len(u) /\ ~(Len(s) + 1 <= Len(s))
      /\ Len(s) + 1 - Len(s) = 1
  BY <1>1
<1>4. (s \o u)[Len(s) + 1] = u[1]
  BY <1>2, <1>3
<1>5. \A i \in 1 .. Len(s) : i \in 1 .. Len(s) + Len(u) /\ i <= Len(s)
  BY <1>1
<1>6. \A i \in 1 .. Len(s) : (s \o u)[i] = s[i]
  BY <1>2, <1>5
<1>7. QED
  BY <1>2, <1>4, <1>6

\* What the client reads of a sealed stream, and of a plain one.
LEMMA SealedIsRead ==
    ASSUME TypeOK, Sealed(body, written), sent.encoded = TRUE
    PROVE  Coherent /\ Decoded = written
<1>1. PICK t \in Data : body = t \o End /\ All(t, "packed") /\ Ids(t) = written
  BY DEF Sealed
<1>2. /\ t \in Seq(Token) /\ End \in Seq(Token)
      /\ Len(End) = 1 /\ End[1].as = "end"
  BY EndType DEF Data, End
<1>3. Len(t) \in Nat
  BY <1>2, LenProperties
<1>4. /\ Len(body) = Len(t) + 1
      /\ \A i \in 1 .. Len(t) : body[i] = t[i]
      /\ body[Len(t) + 1] = End[1]
  <2>1. body = t \o End
    BY <1>1
  <2>2. QED
    BY <1>2, <2>1, Lengthened
<1>5. \A i \in 1 .. Len(t) : t[i].as = "packed"
  BY <1>1, <1>2 DEF All
<1>6. /\ Len(body) > 0 /\ Len(body) - 1 = Len(t)
      /\ body[Len(body)].as = "end"
  BY <1>2, <1>3, <1>4
<1>7. Coherent
  BY <1>4, <1>5, <1>6 DEF Coherent
<1>8. Decoded = [i \in 1 .. Len(t) |-> body[i].id]
  BY <1>6 DEF Decoded
<1>9. [i \in 1 .. Len(t) |-> body[i].id] = [i \in 1 .. Len(t) |-> t[i].id]
  BY <1>4
<1>10. Ids(t) = [i \in 1 .. Len(t) |-> t[i].id]
  BY <1>2 DEF Ids
<1>11. QED
  BY <1>1, <1>7, <1>8, <1>9, <1>10

LEMMA PlainIsRead ==
    ASSUME TypeOK, All(body, "plain"), Ids(body) = written, sent.encoded = FALSE
    PROVE  Coherent /\ Decoded = written
<1>1. body \in Seq(Token)
  BY DEF TypeOK, Data
<1>2. Len(body) \in Nat /\ DOMAIN body = 1 .. Len(body)
  BY <1>1, LenProperties
<1>3. \A i \in 1 .. Len(body) : body[i].as = "plain"
  BY <1>2 DEF All
<1>4. Coherent
  BY <1>3 DEF Coherent
<1>5. Decoded = [i \in 1 .. Len(body) |-> body[i].id]
  <2>1. ~(Len(body) > 0 /\ body[Len(body)].as = "end")
    BY <1>2, <1>3
  <2>2. QED
    BY <2>1 DEF Decoded
<1>6. Ids(body) = [i \in 1 .. Len(body) |-> body[i].id]
  BY <1>2 DEF Ids
<1>7. QED
  BY <1>4, <1>5, <1>6

LEMMA GoodEnd ==
    ASSUME TypeOK, Sized, GoodInv, Ended, panics = 0, deadline # "passed"
    PROVE  /\ sent.status = Asked
           /\ ~Misfit => Whole /\ Decoded = written
<1>1. /\ Good
      /\ Wired /\ Shape /\ InTime
      /\ Fields /\ Choice /\ Status /\ Content /\ Recorded
  BY DEF GoodInv, Good, Ended
<1>2. /\ calls = <<>> /\ ~Open /\ mode = "end"
  BY <1>1, NoCalls DEF Shape, Open, CloseOn, Ended
<1>3. sent.status # 0 /\ sent.status = Asked
  BY <1>1, <1>2 DEF Status
<1> SUFFICES ASSUME ~Misfit
             PROVE  Whole /\ Decoded = written
  BY <1>3
<1>4. sent.encoded = gw.started
  BY <1>1, <1>3 DEF Choice
<1>5. /\ gw.started \in BOOLEAN /\ Gathered
      /\ Flight(calls) = <<>> /\ body \o <<>> = body
  BY <1>1, <1>2, NoCalls DEF TypeOK, GzipWriter, Data, Content
<1>6. CASE gw.started
  <2>1. Sealed(body, written)
    BY <1>2, <1>5, <1>6 DEF Gathered
  <2>2. sent.encoded = TRUE
    BY <1>4, <1>5, <1>6
  <2>3. ~sent.length
    BY <1>6 DEF Misfit, Sized
  <2>4. QED
    BY <2>1, <2>2, <2>3, SealedIsRead DEF Whole
<1>7. CASE ~gw.started
  <2>1. gw.buf = <<>>
    BY <1>1, <1>2 DEF Fields
  <2>2. /\ All(body, "plain")
        /\ Ids(body) \o Ids(<<>>) \o Ids(<<>>) = written
    BY <1>5, <1>7, <2>1 DEF Gathered
  <2>3. /\ Ids(<<>>) = <<>> /\ Ids(body) \in Seq(Nat)
        /\ body \in Data /\ <<>> \in Data
    BY GoodData, IdsOfNone
  <2>4. Ids(body) \o <<>> = Ids(body) /\ <<>> \o Ids(body) = Ids(body)
    BY <2>3
  <2>5. Ids(body) = written
    BY <2>2, <2>3, <2>4
  <2>6. sent.encoded = FALSE
    BY <1>4, <1>5, <1>7
  <2>7. sent.length => body = Plain(1)
    <3>1. SUFFICES ASSUME sent.length
                   PROVE  body = Plain(1)
      OBVIOUS
    <3>2. Ids(body) = << 1 >>
      BY <2>5, <3>1 DEF Sized
    <3>3. Ids(<<>>) \o Ids(body) = << 1 >>
      BY <2>3, <2>4, <3>2
    <3>4. body = <<>> \/ body = Plain(1)
      BY <2>2, <2>3, <3>3, OnlyOne
    <3>5. body # <<>>
      BY <2>3, <3>2
    <3>6. QED
      BY <3>4, <3>5
  <2>8. QED
    BY <2>2, <2>5, <2>6, <2>7, PlainIsRead DEF Whole
<1>8. QED
  BY <1>6, <1>7

\* A good request is answered with the status its handler gave, through the
\* Context or past it, and with every write of it, in the encoding and of the
\* length that the headers name, whatever middleware is installed and whatever
\* MinSize is, unless gzip compresses a file (gzipWriter, timeoutWriter,
\* countingWriter, Context, net/http).
THEOREM AnswersAreWhole == Spec => []AnswerIsWhatWasWritten
<1>1. TypeOK /\ Sized /\ GoodInv => AnswerIsWhatWasWritten
  BY GoodEnd DEF AnswerIsWhatWasWritten
<1>2. QED
  BY <1>1, GoodInvariant, PTL

-----------------------------------------------------------------------------
(* The records.                                                            *)

\* How often metrics have counted the request, and as what.
Counted(requests, inFlight) == m.requests = requests /\ m.inFlight = inFlight

Spoiled == mode \in {"panic", "aborted"} \/ panics # 0

CountInv ==
    /\ mode \in {"end", "aborted"} => at = "server"
    /\ panics # 0 => at = "server" /\ mode \in {"up", "end"}
    /\ "metrics" \in enabled =>
          /\ mode = "down" /\ ~Past("metrics") =>
                Counted(0, 0) /\ m.statuses = <<>>
          /\ Past("metrics") => Counted(1, 1) /\ m.statuses = <<>>
          /\ mode # "down" /\ ~Past("metrics") =>
                /\ Counted(1, 0) /\ \E s \in Codes : m.statuses = <<s>>
                /\ Spoiled => m.statuses = <<500>>

\* A step that stays in its frame.
LEMMA CountStaying ==
    ASSUME CountInv, UNCHANGED <<enabled, at, mode, m, panics>>
    PROVE  CountInv'
BY DEF CountInv, Counted, Spoiled, Past

\* A step on the way in counts the request when it enters metrics.
LEMMA CountEntering ==
    ASSUME TypeOK, CountInv,
           PassOn \/ EnterTimeout \/ EnterGzip \/ EnterMetrics \/ EnterAccessLog
    PROVE  CountInv'
<1> USE DEF fixedVars, frameVars, writerVars, netVars, saidVars, recordVars
<1>1. /\ mode = "down" /\ mode' = "down" /\ at # "handler" /\ at' = Inner(at)
      /\ UNCHANGED <<enabled, panics>>
      /\ at = "metrics" \/ m' = m
  BY DEF PassOn, EnterTimeout, EnterGzip, EnterMetrics, EnterAccessLog, Entering
<1>2. panics = 0
  BY <1>1 DEF CountInv
<1>3. CASE "metrics" \notin enabled
  BY <1>1, <1>2, <1>3 DEF CountInv
<1>4. CASE "metrics" \in enabled
  <2>1. Past("metrics")' <=> (at = "metrics" \/ Past("metrics"))
    BY <1>1, <1>4, EnteringPast
  <2>2. CASE at = "metrics"
    <3>1. ~Past("metrics")
      BY <1>1, <2>2, Positions DEF Past
    <3>2. /\ m' = [m EXCEPT !.requests = m.requests + 1,
                            !.inFlight = m.inFlight + 1]
          /\ m \in [requests : Nat, inFlight : Int, statuses : Seq(Codes)]
          /\ m.requests = 0 /\ m.inFlight = 0 /\ m.statuses = <<>>
      BY <1>1, <1>4, <2>2, <3>1
         DEF PassOn, EnterTimeout, EnterGzip, EnterMetrics, EnterAccessLog,
             Entering, TypeOK, CountInv, Counted
    <3>3. m'.requests = 1 /\ m'.inFlight = 1 /\ m'.statuses = <<>>
      BY <3>2
    <3>4. QED
      BY <1>1, <1>2, <1>4, <2>1, <2>2, <3>3 DEF CountInv, Counted
  <2>3. CASE at # "metrics"
    BY <1>1, <1>2, <1>4, <2>1, <2>3 DEF CountInv, Counted
  <2>4. QED
    BY <2>2, <2>3
<1>5. QED
  BY <1>3, <1>4

\* A step on the way out counts the status when it leaves metrics, and a 500
\* when it is a panic that leaves it.
LEMMA CountLeaving ==
    ASSUME TypeOK, CountInv,
           \/ Panic \/ Return
           \/ LeaveAccessLog \/ LeaveMetrics \/ UnwindMetrics
           \/ LeaveGzip \/ UnwindWriter \/ LeaveTimeout \/ UnwindTimeout
           \/ LeaveRecovery \/ Recover
    PROVE  CountInv'
<1> USE DEF fixedVars, frameVars, writerVars, netVars, saidVars, recordVars
<1>1. /\ mode' \in {"up", "panic"} /\ at # "server" /\ at' = Outer(at)
      /\ \/ mode = "down" /\ at = "handler"
         \/ mode = "up" /\ mode' = "up"
         \/ mode = "panic" /\ mode' = "panic"
         \/ mode = "panic" /\ mode' = "up" /\ at = "recovery"
         \/ mode = "closing" /\ at = "gzip" /\ mode' = "up"
      /\ enabled' = enabled
      /\ \/ panics' = panics
         \/ at = "recovery" /\ mode = "panic" /\ mode' = "up"
      /\ at = "metrics" \/ m' = m
  BY DEF Panic, Return, LeaveAccessLog, LeaveMetrics, UnwindMetrics, LeaveGzip,
     UnwindWriter, LeaveTimeout, UnwindTimeout, LeaveRecovery, Recover,
     Handling, Entering, Leaving, Unwinding
<1>2. panics = 0
  BY <1>1 DEF CountInv
<1>3. /\ mode' \notin {"end", "aborted"}
      /\ panics' # 0 => at' = "server" /\ mode' = "up"
  <2>1. at = "recovery" => at' = "server"
    BY <1>1, OuterIsNext, Standing, Positions DEF Frames, Layers
  <2>2. QED
    BY <1>1, <1>2, <2>1
<1>4. CASE "metrics" \notin enabled
  BY <1>1, <1>3, <1>4 DEF CountInv
<1>5. CASE "metrics" \in enabled
  <2>1. Past("metrics")' <=> (at # "metrics" /\ Past("metrics"))
    BY <1>1, <1>5, LeavingPast
  <2>2. CASE at = "metrics"
    <3>1. Past("metrics") /\ panics' = 0 /\ mode' = mode
      BY <1>1, <1>2, <2>2 DEF Past
    <3>2. PICK s \in Codes :
            /\ m' = [m EXCEPT !.inFlight = m.inFlight - 1,
                              !.statuses = Append(m.statuses, s)]
            /\ mode = "panic" => s = 500
      <4>1. CASE mode = "up"
        <5>1. StatusCode \in Codes
          BY DEF StatusCode, TypeOK, Codes
        <5>2. m' = [m EXCEPT !.inFlight = m.inFlight - 1,
                             !.statuses = Append(m.statuses, StatusCode)]
          BY <2>2, <4>1 DEF Panic, Return, LeaveAccessLog, LeaveMetrics,
             UnwindMetrics, LeaveGzip, UnwindWriter, LeaveTimeout,
             UnwindTimeout, LeaveRecovery, Recover, Handling, Entering,
             Leaving, Unwinding
        <5>3. QED
          BY <4>1, <5>1, <5>2
      <4>2. CASE mode = "panic"
        <5>1. 500 \in Codes
          BY DEF Codes
        <5>2. m' = [m EXCEPT !.inFlight = m.inFlight - 1,
                             !.statuses = Append(m.statuses, 500)]
          BY <2>2, <4>2 DEF Panic, Return, LeaveAccessLog, LeaveMetrics,
             UnwindMetrics, LeaveGzip, UnwindWriter, LeaveTimeout,
             UnwindTimeout, LeaveRecovery, Recover, Handling, Entering,
             Leaving, Unwinding
        <5>3. QED
          BY <4>2, <5>1, <5>2
      <4>3. QED
        BY <1>1, <2>2, <4>1, <4>2
    <3>3. /\ m.requests = 1 /\ m.inFlight = 1 /\ m.statuses = <<>>
          /\ m \in [requests : Nat, inFlight : Int, statuses : Seq(Codes)]
      BY <1>5, <3>1 DEF CountInv, Counted, TypeOK
    <3>4. Append(<<>>, s) = <<s>>
      OBVIOUS
    <3>5. m'.requests = 1 /\ m'.inFlight = 0 /\ m'.statuses = <<s>>
      BY <3>2, <3>3, <3>4
    <3>6. Spoiled' => s = 500
      BY <1>1, <2>2, <3>1, <3>2 DEF Spoiled
    <3>7. QED
      BY <1>1, <1>3, <2>1, <2>2, <3>5, <3>6 DEF CountInv, Counted
  <2>3. CASE at # "metrics"
    <3>1. m' = m
      BY <1>1, <2>3
    <3>2. mode = "down" => Past("metrics")
      BY <1>1, <1>5, Apart, Positions DEF Past
    <3>3. mode # "down" /\ Spoiled' => Spoiled
      BY <1>1, <1>2 DEF Spoiled
    <3>4. QED
      BY <1>1, <1>3, <1>5, <2>1, <2>3, <3>1, <3>2, <3>3
         DEF CountInv, Counted
  <2>4. QED
    BY <2>2, <2>3
<1>6. QED
  BY <1>4, <1>5

LEMMA CountStep ==
    ASSUME TypeOK, CountInv, [Next]_vars
    PROVE  CountInv'
<1> USE DEF fixedVars, frameVars, writerVars, netVars, saidVars, recordVars
<1>1. CASE Expire \/ UNCHANGED vars
  BY <1>1, CountStaying DEF Expire, vars
<1>2. CASE Handler /\ ~Panic /\ ~Return
  <2>1. UNCHANGED <<enabled, at, mode, m, panics>>
    BY <1>2 DEF Handler, Respond, SetStatus, DirectStatus, ServeContent, File,
       DirectFile, Write, Flush
  <2>2. QED
    BY <2>1, CountStaying
<1>3. CASE Writers
  <2>1. UNCHANGED <<enabled, at, mode, m, panics>>
    BY <1>3 DEF Writers, ToServer, ToAccessLog, ToTimeout, FlushTimeout,
       GzipHeader, GzipPass, GzipBuffer, GzipStart, GzipWrite, GzipFlush,
       GzipClose
  <2>2. QED
    BY <2>1, CountStaying
<1>4. CASE CloseGzip
  <2>1. /\ mode = "up" /\ mode' = "closing" /\ at = "gzip"
        /\ UNCHANGED <<enabled, at, m, panics>>
    BY <1>4 DEF CloseGzip, Leaving
  <2>2. panics = 0 /\ ~Spoiled'
    BY <2>1 DEF CountInv, Spoiled
  <2>3. Past("metrics")' = Past("metrics")
    BY <2>1 DEF Past
  <2>4. QED
    BY <2>1, <2>2, <2>3 DEF CountInv, Counted
<1>5. CASE Finish \/ Abort
  <2>1. /\ \/ mode = "up" /\ mode' = "end"
           \/ mode = "panic" /\ mode' = "aborted"
        /\ at = "server"
        /\ UNCHANGED <<enabled, at, m, panics>>
    BY <1>5 DEF Finish, Abort, Leaving, Unwinding
  <2>2. Spoiled' => Spoiled
    BY <2>1 DEF Spoiled
  <2>3. Past("metrics")' = Past("metrics")
    BY <2>1 DEF Past
  <2>4. panics # 0 => mode' = "end"
    BY <2>1 DEF CountInv
  <2>5. QED
    BY <2>1, <2>2, <2>3, <2>4 DEF CountInv, Counted
<1>6. QED
  BY <1>1, <1>2, <1>3, <1>4, <1>5, CountEntering, CountLeaving
     DEF Next, Middleware, Handler

LEMMA CountInvariant == Spec => [](TypeOK /\ CountInv)
<1>1. Init => CountInv
  BY LayerSetsAssumption, Positions DEF Init, CountInv, Counted, Past
<1>2. QED
  BY <1>1, CountStep, TypeCorrect, PTL DEF Spec

\* The access log and metrics record the status that was sent, of a request that
\* is answered through the Context, in time and without a panic; and metrics count
\* every request once, in one class, and a panic as a 500 (MetricsHandler,
\* AccessLogHandler, Context.StatusCode).
THEOREM RecordsAreTrue == Spec => []RecordsAreHonest
<1>1. TypeOK /\ Sized /\ CountInv /\ GoodInv => RecordsAreHonest
  <2> SUFFICES ASSUME TypeOK, Sized, CountInv, GoodInv
               PROVE  RecordsAreHonest
    OBVIOUS
  <2>1. ASSUME mode \in {"end", "aborted"}
        PROVE  at = "server" /\ \A w \in enabled : ~Past(w)
    <3>1. at = "server"
      BY <2>1 DEF CountInv
    <3>2. \A w \in enabled : Position[w] \in 1 .. 5
      BY Apart
    <3>3. QED
      BY <3>1, <3>2, Positions DEF Past
  <2>2. ASSUME Ended, panics = 0, deadline # "passed", direct = 0
        PROVE  /\ "metrics" \in enabled => m.statuses = <<sent.status>>
               /\ "access_log" \in enabled => logged = <<sent.status>>
    <3>1. sent.status = StatusCode
      BY <2>2, GoodEnd DEF Asked
    <3>2. Recorded
      BY <2>2 DEF GoodInv, Good, Ended
    <3>3. QED
      BY <2>1, <2>2, <3>1, <3>2 DEF Recorded, Ended
  <2>3. ASSUME mode \in {"end", "aborted"}, "metrics" \in enabled
        PROVE  /\ m.requests = 1 /\ m.inFlight = 0 /\ Len(m.statuses) = 1
               /\ panics > 0 \/ mode = "aborted" => m.statuses = <<500>>
    <3>1. ~Past("metrics") /\ mode # "down"
      BY <2>1, <2>3
    <3>2. PICK s \in Codes : m.statuses = <<s>>
      BY <2>3, <3>1 DEF CountInv
    <3>3. Len(<<s>>) = 1
      OBVIOUS
    <3>4. m.requests = 1 /\ m.inFlight = 0
      BY <2>3, <3>1 DEF CountInv, Counted
    <3>5. panics > 0 \/ mode = "aborted" => Spoiled
      BY DEF Spoiled
    <3>6. Spoiled => m.statuses = <<500>>
      BY <2>3, <3>1 DEF CountInv
    <3>7. QED
      BY <3>2, <3>3, <3>4, <3>5, <3>6
  <2>4. QED
    BY <2>2, <2>3 DEF RecordsAreHonest
<1>2. QED
  BY <1>1, CountInvariant, GoodInvariant, PTL

-----------------------------------------------------------------------------
(* The answers of the middleware.                                          *)

\* How far the answer of a middleware, a status and a body, has come on its way
\* through the writers ws.
Progress(code, ws) ==
    \/ /\ \E x, y \in WriterCall :
             /\ calls = <<x, y>> /\ {x.to, y.to} \subseteq ws
             /\ x.op = "header" /\ x.code = code /\ x.data = <<>>
             /\ y.op = "write" /\ y.data = Plain(code)
       /\ sent.status = 0 /\ body = <<>>
    \/ /\ \E y \in WriterCall :
             /\ calls = <<y>> /\ y.to \in ws
             /\ y.op = "write" /\ y.data = Plain(code)
       /\ sent.status = code /\ body = <<>>
    \/ /\ calls = <<>> /\ sent.status = code
       /\ body = Plain(code) \/ (body = <<>> /\ sent.length)

\* Without timeout and gzip nothing is compressed, only the access log wraps
\* the writer, and the 500 of recovery goes where nothing has gone before.
Near == {"server", "access_log"}
NearCalls == {x \in WriterCall : x.to \in Near}

PanicInv ==
    enabled \cap {"timeout", "gzip"} = {} =>
        /\ calls \in Seq(NearCalls) /\ (mode = "end" => calls = <<>>)
        /\ writer \in Near /\ orig["access_log"] = "server"
        /\ writer = "access_log" /\ mode = "down" => at = "handler"
        /\ header.encoded = FALSE /\ sent.encoded = FALSE
        /\ mode \in {"down", "panic"} /\ Unanswered =>
              calls = <<>> /\ sent.status = 0 /\ body = <<>>
        /\ c.status = 500 => at = "server" /\ mode \in {"up", "end"}
        /\ c.status = 500 /\ written = <<>> /\ direct = 0 => Progress(500, Near)

LEMMA ProgressStep ==
    ASSUME TypeOK, NEW code \in Codes, NEW ws \in SUBSET Sink, Progress(code, ws),
           ToServer \/ (ToAccessLog /\ orig["access_log"] \in ws)
    PROVE  Progress(code, ws)'
<1> USE DEF fixedVars, frameVars, writerVars, netVars, saidVars, recordVars
<1>0. code # 0 /\ Plain(code) # <<>> /\ <<>> \o <<>> = <<>>
  BY DEF Codes, Plain
<1>1. CASE /\ \E x, y \in WriterCall :
                 /\ calls = <<x, y>> /\ {x.to, y.to} \subseteq ws
                 /\ x.op = "header" /\ x.code = code /\ x.data = <<>>
                 /\ y.op = "write" /\ y.data = Plain(code)
           /\ sent.status = 0 /\ body = <<>>
  <2>1. PICK x \in WriterCall, y \in WriterCall :
            /\ calls = <<x, y>> /\ {x.to, y.to} \subseteq ws
            /\ x.op = "header" /\ x.code = code /\ x.data = <<>>
            /\ y.op = "write" /\ y.data = Plain(code)
    BY <1>1
  <2>2. Call = x /\ Tail(calls) = <<y>>
    <3>1. Head(<<x, y>>) = x /\ Tail(<<x, y>>) = <<y>>
      OBVIOUS
    <3>2. QED
      BY <2>1, <3>1 DEF Call
  <2>3. CASE ToServer
    <3>1. calls' = <<y>> /\ sent'.status = code /\ body' = <<>>
      <4>1. Fits
        BY <2>1, <2>2 DEF Fits
      <4>2. sent' = Commit(code) /\ body' = body \o <<>>
        BY <2>1, <2>2, <2>3, <4>1 DEF ToServer, Receive
      <4>3. Commit(code).status = code
        BY <1>1 DEF Commit
      <4>4. QED
        BY <1>0, <1>1, <2>2, <2>3, <4>2, <4>3 DEF ToServer
    <3>2. QED
      BY <2>1, <3>1 DEF Progress
  <2>4. CASE ToAccessLog /\ orig["access_log"] \in ws
    <3>1. PICK z : z = [x EXCEPT !.to = orig["access_log"]]
      OBVIOUS
    <3>2. z \in WriterCall
      BY <2>4, <3>1, CallTypes
    <3>3. /\ z.to \in ws /\ z.op = "header" /\ z.code = code /\ z.data = <<>>
      BY <2>1, <2>4, <3>1 DEF WriterCall
    <3>4. <<z>> \o <<y>> = <<z, y>>
      BY PairOf
    <3>5. calls' = <<z, y>> /\ UNCHANGED <<sent, body>>
      BY <2>2, <2>4, <3>1, <3>4 DEF ToAccessLog
    <3>6. {z.to, y.to} \subseteq ws
      BY <2>1, <3>3
    <3>7. QED
      BY <1>1, <2>1, <3>2, <3>3, <3>5, <3>6 DEF Progress
  <2>5. QED
    BY <2>3, <2>4
<1>2. CASE /\ \E y \in WriterCall :
                 /\ calls = <<y>> /\ y.to \in ws
                 /\ y.op = "write" /\ y.data = Plain(code)
           /\ sent.status = code /\ body = <<>>
  <2>1. PICK y \in WriterCall : /\ calls = <<y>> /\ y.to \in ws
                                /\ y.op = "write" /\ y.data = Plain(code)
    BY <1>2
  <2>2. Call = y /\ Tail(calls) = <<>>
    <3>1. Head(<<y>>) = y /\ Tail(<<y>>) = <<>>
      OBVIOUS
    <3>2. QED
      BY <2>1, <3>1 DEF Call
  <2>3. CASE ToServer
    <3>1. Plain(code) \in Seq({Plain(code)[1]}) /\ <<>> \o Plain(code) = Plain(code)
      BY DEF Plain
    <3>2. Commit(IF Call.op = "header" THEN Call.code ELSE 200) = sent
      BY <1>0, <1>2 DEF Commit
    <3>3. \/ sent' = sent /\ body' = Plain(code)
          \/ /\ sent' = [sent EXCEPT !.over = TRUE] /\ sent.length
             /\ body' = <<>>
      BY <1>2, <2>1, <2>2, <2>3, <3>1, <3>2 DEF ToServer, Receive
    <3>4. /\ sent'.status = code
          /\ body' = Plain(code) \/ (body' = <<>> /\ sent'.length)
      BY <1>2, <3>3 DEF TypeOK, Sent
    <3>5. QED
      BY <2>2, <2>3, <3>4 DEF Progress, ToServer
  <2>4. CASE ToAccessLog /\ orig["access_log"] \in ws
    <3>1. PICK z : z = [y EXCEPT !.to = orig["access_log"]]
      OBVIOUS
    <3>2. z \in WriterCall
      BY <2>4, <3>1, CallTypes
    <3>3. z.to \in ws /\ z.op = "write" /\ z.data = Plain(code)
      BY <2>1, <2>4, <3>1 DEF WriterCall
    <3>4. <<z>> \o <<>> = <<z>>
      BY PairOf
    <3>5. calls' = <<z>> /\ UNCHANGED <<sent, body>>
      BY <2>2, <2>4, <3>1, <3>4 DEF ToAccessLog
    <3>6. QED
      BY <1>2, <3>2, <3>3, <3>5 DEF Progress
  <2>5. QED
    BY <2>3, <2>4
<1>3. CASE calls = <<>>
  BY <1>3 DEF ToServer, ToAccessLog, Calling
<1>4. QED
  BY <1>1, <1>2, <1>3 DEF Progress

\* The answer of a middleware, where nothing has been sent before, is on its way.
LEMMA ProgressBegins ==
    ASSUME NEW ws \in SUBSET Sink, NEW w \in ws, NEW code \in {500, 503},
           calls' = <<HeaderCall(w, code), WriteCall(w, Plain(code))>>,
           sent'.status = 0, body' = <<>>
    PROVE  Progress(code, ws)'
<1>1. code \in Codes /\ Plain(code) \in Data
  BY PlainType DEF Codes
<1>2. PICK x, y : x = HeaderCall(w, code) /\ y = WriteCall(w, Plain(code))
  OBVIOUS
<1>3. x \in WriterCall /\ y \in WriterCall
  BY <1>1, <1>2, CallTypes
<1>4. /\ x.to = w /\ x.op = "header" /\ x.code = code /\ x.data = <<>>
      /\ y.to = w /\ y.op = "write" /\ y.data = Plain(code)
  BY <1>2 DEF HeaderCall, WriteCall
<1>5. calls' = <<x, y>>
  BY <1>2
<1>6. {x.to, y.to} \subseteq ws
  BY <1>4
<1>7. \E p, q \in WriterCall :
          /\ calls' = <<p, q>> /\ {p.to, q.to} \subseteq ws
          /\ p.op = "header" /\ p.code = code /\ p.data = <<>>
          /\ q.op = "write" /\ q.data = Plain(code)
  <2> USE <1>3
  <2>1. WITNESS x \in WriterCall, y \in WriterCall
  <2>2. QED
    BY <1>4, <1>5, <1>6
<1>8. QED
  BY <1>7 DEF Progress

LEMMA NearHandler ==
    ASSUME TypeOK, PanicInv, enabled \cap {"timeout", "gzip"} = {}, Handler
    PROVE  PanicInv'
<1> USE DEF fixedVars, frameVars, writerVars, netVars, saidVars, recordVars
<1>0. /\ header \in Header /\ writer \in Sink /\ writer \in Near
      /\ written \in Seq(1 .. MaxWrites)
  BY DEF TypeOK, PanicInv
<1>1. /\ at = "handler" /\ mode = "down" /\ calls = <<>> /\ c.status # 500
      /\ UNCHANGED <<enabled, writer, orig, sent, body>>
      /\ mode' \in {"down", "up", "panic"}
  BY DEF Handler, Respond, SetStatus, DirectStatus, ServeContent, File,
     DirectFile, Write, Flush, Panic, Return, Handling, Entering, PanicInv
<1>2. \A x \in WriterCall : x.to \in Near => <<x>> \in Seq(NearCalls)
  BY DEF NearCalls
<1>3. \A x, y \in WriterCall :
          x.to \in Near /\ y.to \in Near => <<x, y>> \in Seq(NearCalls)
  BY DEF NearCalls
<1>4. /\ \A code \in Codes : /\ HeaderCall(writer, code) \in WriterCall
                             /\ HeaderCall(writer, code).to \in Near
      /\ \A id \in 1 .. MaxWrites :
             /\ WriteCall(writer, Plain(id)) \in WriterCall
             /\ WriteCall(writer, Plain(id)).to \in Near
      /\ FlushCall(writer) \in WriterCall /\ FlushCall(writer).to \in Near
      /\ {200, 404} \subseteq Codes /\ 1 \in 1 .. MaxWrites
  BY <1>0, CallTypes, PlainType, FirstWrite
     DEF HeaderCall, WriteCall, FlushCall, Codes
<1>5. ASSUME calls' \in Seq(NearCalls), header'.encoded = FALSE, c'.status # 500,
             mode' = "down", at' = at, ~Unanswered'
      PROVE  PanicInv'
  BY <1>1, <1>5 DEF PanicInv, Unanswered
<1>6. ASSUME NEW code \in {200, 404}, Respond(code)
      PROVE  PanicInv'
  <2>1. header'.encoded = FALSE
    BY <1>0, <1>1, <1>6 DEF Respond, PanicInv, Header
  <2>2. calls' = <<HeaderCall(writer, code), WriteCall(writer, Plain(1))>>
    BY <1>6 DEF Respond, Unanswered, Answer
  <2>3. calls' \in Seq(NearCalls)
    BY <1>3, <1>4, <2>2
  <2>4. c'.status # 500 /\ c'.wrote /\ mode' = "down" /\ at' = at
    BY <1>1, <1>6 DEF Respond
  <2>5. QED
    BY <1>5, <2>1, <2>3, <2>4 DEF Unanswered
<1>7. ASSUME NEW code \in {200, 404}, NEW type \in {"none", "text", "binary"},
             SetStatus(code, type)
      PROVE  PanicInv'
  <2>1. header'.encoded = FALSE
    BY <1>0, <1>1, <1>7 DEF SetStatus, PanicInv, Header
  <2>2. calls' \in Seq(NearCalls)
    BY <1>2, <1>4, <1>7 DEF SetStatus
  <2>3. c'.status # 500 /\ c'.wrote /\ mode' = "down" /\ at' = at
    BY <1>1, <1>7 DEF SetStatus
  <2>4. QED
    BY <1>5, <2>1, <2>2, <2>3 DEF Unanswered
<1>8. ASSUME NEW type \in {"text", "binary"}, File(type) \/ DirectFile(type)
      PROVE  PanicInv'
  <2>1. ServeContent(type)
    BY <1>8 DEF File, DirectFile
  <2>2. header'.encoded = FALSE
    BY <1>0, <1>1, <2>1 DEF ServeContent, PanicInv, Header
  <2>3. calls' \in Seq(NearCalls)
    BY <1>3, <1>4, <2>1 DEF ServeContent
  <2>4. c'.status # 500 /\ written' # <<>> /\ mode' = "down" /\ at' = at
    BY <1>1, <1>8, <2>1 DEF File, DirectFile, ServeContent
  <2>5. QED
    BY <1>5, <2>2, <2>3, <2>4 DEF Unanswered
<1>9. CASE Write
  <2>1. PICK id \in 1 .. MaxWrites : id = Len(written) + 1
    BY MaxWritesAssumption, <1>0, <1>9 DEF Write
  <2>2. calls' = <<WriteCall(writer, Plain(id))>> /\ written' = Append(written, id)
    BY <1>9, <2>1 DEF Write
  <2>3. calls' \in Seq(NearCalls) /\ written' # <<>>
    BY <1>0, <1>2, <1>4, <2>2
  <2>4. UNCHANGED <<header, c, mode, at>>
    BY <1>9 DEF Write
  <2>5. QED
    BY <1>1, <1>5, <2>3, <2>4 DEF Unanswered, PanicInv
<1>10. CASE Flush
  <2>1. calls' \in Seq(NearCalls)
    BY <1>2, <1>4, <1>10 DEF Flush
  <2>2. UNCHANGED <<header, c, mode, at, written, direct>> /\ ~Unanswered
    BY <1>10 DEF Flush
  <2>3. QED
    BY <1>1, <1>5, <2>1, <2>2 DEF Unanswered, PanicInv
<1>11. CASE Panic \/ Return
  <2>1. /\ mode' \in {"up", "panic"}
        /\ UNCHANGED <<calls, header, c, written, direct>>
    BY <1>11 DEF Panic, Return
  <2>2. QED
    BY <1>1, <2>1 DEF PanicInv, Unanswered
<1>12. ASSUME NEW code \in {200, 404}, NEW type \in {"none", "text", "binary"},
              DirectStatus(code, type)
       PROVE  PanicInv'
  <2>1. header'.encoded = FALSE
    BY <1>0, <1>1, <1>12 DEF DirectStatus, PanicInv, Header
  <2>2. calls' \in Seq(NearCalls)
    BY <1>2, <1>4, <1>12 DEF DirectStatus
  <2>3. c'.status # 500 /\ direct' # 0 /\ mode' = "down" /\ at' = at
    BY <1>1, <1>12 DEF DirectStatus
  <2>4. QED
    BY <1>5, <2>1, <2>2, <2>3 DEF Unanswered
<1>13. QED
  BY <1>6, <1>7, <1>8, <1>9, <1>10, <1>11, <1>12 DEF Handler

LEMMA NearWriters ==
    ASSUME TypeOK, PanicInv, enabled \cap {"timeout", "gzip"} = {}, Writers
    PROVE  PanicInv'
<1> USE DEF fixedVars, frameVars, writerVars, netVars, saidVars, recordVars
<1>0. calls # <<>>
  BY DEF Writers, ToServer, ToAccessLog, ToTimeout, FlushTimeout, GzipHeader,
     GzipPass, GzipBuffer, GzipStart, GzipWrite, GzipFlush, GzipClose, Calling
<1>1. /\ Call \in NearCalls /\ Tail(calls) \in Seq(NearCalls)
      /\ Call \in WriterCall /\ Call.to \in Near
  <2>1. calls \in Seq(NearCalls)
    BY DEF PanicInv
  <2>2. Head(calls) \in NearCalls /\ Tail(calls) \in Seq(NearCalls)
    BY <1>0, <2>1, HeadTailProperties
  <2>3. QED
    BY <2>2 DEF Call, NearCalls
<1>2. ToServer \/ ToAccessLog
  BY <1>1 DEF Writers, ToTimeout, FlushTimeout, GzipHeader,
     GzipPass, GzipBuffer, GzipStart, GzipWrite, GzipFlush, GzipClose, Calling,
     Call, Near
<1>3. /\ UNCHANGED <<enabled, at, mode, writer, orig, c, header, written,
                  direct>>
      /\ Unanswered' = Unanswered
  BY <1>2 DEF ToServer, ToAccessLog, Unanswered
<1>4. mode # "end" /\ ~(mode \in {"down", "panic"} /\ Unanswered)
  BY <1>0 DEF PanicInv
<1>5. calls' \in Seq(NearCalls) /\ sent'.encoded = FALSE
  <2>1. CASE ToServer
    <3>1. calls' \in Seq(NearCalls)
      BY <1>1, <2>1 DEF ToServer
    <3>2. PICK first : first = Commit(IF Call.op = "header" THEN Call.code ELSE 200)
      OBVIOUS
    <3>3. first.encoded = FALSE /\ first \in Sent
      <4>1. Call.code \in Codes \cup {0} /\ 200 \in Codes
        BY <1>1 DEF WriterCall, Codes
      <4>2. first \in Sent
        BY <3>2, <4>1, CommitType DEF TypeOK
      <4>3. QED
        BY <3>2, <4>2 DEF Commit, PanicInv
    <3>4. sent' \in {first, [first EXCEPT !.over = TRUE]}
      BY <2>1, <3>2 DEF ToServer, Receive
    <3>5. QED
      BY <3>1, <3>3, <3>4 DEF Sent
  <2>2. CASE ToAccessLog
    <3>1. PICK z : z = [Call EXCEPT !.to = orig["access_log"]]
      OBVIOUS
    <3>2. z.to = "server"
      BY <1>1, <3>1 DEF WriterCall, PanicInv
    <3>3. z \in WriterCall
      BY <1>1, <3>1, CallTypes DEF PanicInv, Sink
    <3>4. z \in NearCalls
      BY <3>2, <3>3 DEF NearCalls, Near
    <3>5. <<z>> \o Tail(calls) \in Seq(NearCalls)
      BY <1>1, <3>4
    <3>6. QED
      BY <2>2, <3>1, <3>5 DEF ToAccessLog, PanicInv
  <2>3. QED
    BY <1>2, <2>1, <2>2
<1>6. ASSUME c.status = 500, written = <<>>, direct = 0
      PROVE  Progress(500, Near)'
  <2>1. Progress(500, Near)
    BY <1>6 DEF PanicInv
  <2>2. 500 \in Codes /\ Near \in SUBSET Sink /\ orig["access_log"] \in Near
    BY DEF Codes, Near, Sink, Wrappers, PanicInv
  <2>3. QED
    BY <1>2, <2>1, <2>2, ProgressStep
<1>7. QED
  BY <1>3, <1>4, <1>5, <1>6 DEF PanicInv

LEMMA NearMiddleware ==
    ASSUME TypeOK, PanicInv, enabled \cap {"timeout", "gzip"} = {}, Middleware
    PROVE  PanicInv'
<1> USE DEF fixedVars, frameVars, writerVars, netVars, saidVars, recordVars
<1>0. at \notin {"timeout", "gzip"} /\ calls = <<>> /\ enabled' = enabled
  BY DEF TypeOK, Frames, Middleware, PassOn, EnterTimeout, EnterGzip,
     EnterMetrics, EnterAccessLog, LeaveAccessLog, LeaveMetrics,
     UnwindMetrics, CloseGzip, LeaveGzip, UnwindWriter, LeaveTimeout,
     UnwindTimeout, LeaveRecovery, Recover, Finish, Abort,
     Entering, Leaving, Unwinding
<1>1. CASE PassOn \/ EnterMetrics
  <2>1. /\ mode' = mode /\ mode = "down" /\ at # "handler"
        /\ UNCHANGED <<calls, writer, orig, c, header, sent, body, written, direct>>
    BY <1>1 DEF PassOn, EnterMetrics, Entering
  <2>2. QED
    BY <1>0, <2>1 DEF PanicInv, Unanswered
<1>2. CASE EnterAccessLog
  <2>1. /\ mode' = mode /\ mode = "down" /\ at = "access_log"
        /\ writer' = "access_log" /\ orig'["access_log"] = writer
        /\ at' = Inner("access_log")
        /\ UNCHANGED <<calls, c, header, sent, body, written, direct>>
    BY <1>2 DEF EnterAccessLog, Entering, Install, TypeOK, Wrappers
  <2>2. writer = "server"
    BY <2>1 DEF PanicInv, Near
  <2>3. at' = "handler"
    BY <2>1, InnerIsNext, Standing, Positions DEF Frames, Layers
  <2>4. "access_log" \in Near
    BY DEF Near
  <2>5. QED
    BY <1>0, <2>1, <2>2, <2>3, <2>4 DEF PanicInv, Unanswered
<1>3. CASE LeaveAccessLog \/ LeaveMetrics \/ LeaveRecovery
  <2>1. /\ mode' = mode /\ mode = "up" /\ at # "server"
        /\ writer' \in {writer, orig["access_log"]}
        /\ UNCHANGED <<calls, orig, c, header, sent, body, written, direct>>
    BY <1>3 DEF LeaveAccessLog, LeaveMetrics, LeaveRecovery, Leaving
  <2>2. "server" \in Near /\ c.status # 500
    BY <2>1 DEF Near, PanicInv
  <2>3. QED
    BY <1>0, <2>1, <2>2 DEF PanicInv
<1>4. CASE UnwindMetrics \/ UnwindWriter
  <2>1. /\ mode' = mode /\ mode = "panic"
        /\ UNCHANGED <<calls, writer, orig, c, header, sent, body, written, direct>>
    BY <1>4 DEF UnwindMetrics, UnwindWriter, Unwinding
  <2>2. QED
    BY <1>0, <2>1 DEF PanicInv, Unanswered
<1>5. CASE Recover
  <2>1. /\ mode' = "up" /\ mode = "panic" /\ at = "recovery"
        /\ at' = Outer("recovery")
        /\ calls' = Answer(writer, c.wrote, 500, 500)
        /\ c' = [wrote |-> TRUE, status |-> IF c.wrote THEN c.status ELSE 500]
        /\ header' = [header EXCEPT !.type = "text"]
        /\ UNCHANGED <<writer, orig, sent, body, written, direct>>
    BY <1>5 DEF Recover, Unwinding
  <2>2. at' = "server"
    BY <2>1, OuterIsNext, Standing, Positions DEF Frames, Layers
  <2>3. header'.encoded = FALSE
    BY <2>1 DEF TypeOK, Header, PanicInv
  <2>4. writer \in Near /\ writer \in Sink /\ c.status # 500
    BY <2>1 DEF PanicInv, TypeOK
  <2>5. calls' \in Seq(NearCalls)
    <3>1. 500 \in Codes /\ Plain(500) \in Data
      BY PlainType DEF Codes
    <3>2. PICK x, y : x = HeaderCall(writer, 500) /\ y = WriteCall(writer, Plain(500))
      OBVIOUS
    <3>3. x \in WriterCall /\ y \in WriterCall /\ x.to = writer /\ y.to = writer
      <4>1. x \in WriterCall /\ y \in WriterCall
        BY <2>4, <3>1, <3>2, CallTypes
      <4>2. x.to = writer /\ y.to = writer
        BY <3>2 DEF HeaderCall, WriteCall
      <4>3. QED
        BY <4>1, <4>2
    <3>4. <<y>> \in Seq(NearCalls) /\ <<x, y>> \in Seq(NearCalls)
      BY <2>4, <3>3 DEF NearCalls
    <3>5. calls' = <<y>> \/ calls' = <<x, y>>
      BY <2>1, <3>2 DEF Answer
    <3>6. QED
      BY <3>4, <3>5
  <2>6. ASSUME c'.status = 500, written = <<>>, direct = 0
        PROVE  Progress(500, Near)'
    <3>1. ~c.wrote /\ c.wrote \in BOOLEAN
      BY <2>1, <2>4, <2>6 DEF TypeOK
    <3>2. sent.status = 0 /\ body = <<>>
      BY <2>1, <2>6, <3>1 DEF PanicInv, Unanswered
    <3>3. PICK w \in Near : w = writer
      BY <2>4
    <3>4. calls' = <<HeaderCall(w, 500), WriteCall(w, Plain(500))>>
      BY <2>1, <3>1, <3>3 DEF Answer
    <3>5. sent'.status = 0 /\ body' = <<>>
      BY <2>1, <3>2
    <3>6. Near \in SUBSET Sink
      BY DEF Near, Sink, Wrappers
    <3>7. QED
      BY <3>4, <3>5, <3>6, ProgressBegins
  <2>7. QED
    BY <1>0, <2>1, <2>2, <2>3, <2>4, <2>5, <2>6 DEF PanicInv
<1>6. CASE Finish \/ Abort
  <2>1. /\ mode' \in {"end", "aborted"}
        /\ (mode = "panic" /\ mode' = "aborted") \/ (mode = "up" /\ mode' = "end")
        /\ UNCHANGED <<at, calls, writer, orig, c, header, body, written,
                       direct>>
        /\ sent' = sent \/ (sent.status = 0 /\ sent'.encoded = header.encoded)
    BY <1>6 DEF Finish, Abort, Leaving, Unwinding, Commit
  <2>2. sent'.encoded = FALSE
    BY <2>1 DEF PanicInv
  <2>3. ASSUME c.status = 500, written = <<>>, direct = 0
        PROVE  Progress(500, Near)'
    <3>1. /\ sent.status = 500
          /\ body = Plain(500) \/ (body = <<>> /\ sent.length)
      BY <1>0, <2>3 DEF PanicInv, Progress
    <3>2. sent' = sent
      BY <2>1, <3>1
    <3>3. QED
      BY <1>0, <2>1, <3>1, <3>2 DEF Progress
  <2>4. c.status = 500 => mode' = "end"
    BY <2>1 DEF PanicInv
  <2>5. QED
    BY <1>0, <2>1, <2>2, <2>3, <2>4 DEF PanicInv
<1>7. QED
  BY <1>0, <1>1, <1>2, <1>3, <1>4, <1>5, <1>6 DEF Middleware, EnterTimeout,
     EnterGzip, CloseGzip, LeaveGzip, LeaveTimeout, UnwindTimeout, Entering,
     Leaving, Unwinding

LEMMA PanicInvariant == Spec => [](TypeOK /\ PanicInv)
<1> USE DEF fixedVars, frameVars, writerVars, netVars, saidVars, recordVars
<1>1. Init => PanicInv
  BY DEF Init, PanicInv, Near, Wrappers
<1>2. TypeOK /\ PanicInv /\ [Next]_vars => PanicInv'
  <2> SUFFICES ASSUME TypeOK, PanicInv, [Next]_vars
               PROVE  PanicInv'
    OBVIOUS
  <2>1. enabled' = enabled
    BY DEF Next, Expire, vars, Handler, Respond, SetStatus, DirectStatus,
       ServeContent, File, DirectFile, Write, Flush, Panic, Return, Writers,
       ToServer, ToAccessLog, ToTimeout, FlushTimeout, GzipHeader, GzipPass,
       GzipBuffer, GzipStart, GzipWrite, GzipFlush, GzipClose, Middleware,
       PassOn, EnterTimeout, EnterGzip, EnterMetrics, EnterAccessLog,
       LeaveAccessLog, LeaveMetrics, UnwindMetrics, CloseGzip, LeaveGzip,
       UnwindWriter, LeaveTimeout, UnwindTimeout, LeaveRecovery, Recover,
       Finish, Abort
  <2>2. CASE enabled \cap {"timeout", "gzip"} # {}
    BY <2>1, <2>2 DEF PanicInv
  <2>3. CASE enabled \cap {"timeout", "gzip"} = {}
    <3>1. CASE Expire \/ UNCHANGED vars
      BY <2>3, <3>1 DEF Expire, vars, PanicInv, Progress, Unanswered
    <3>2. QED
      BY <2>3, <3>1, NearHandler, NearWriters, NearMiddleware DEF Next
  <2>4. QED
    BY <2>2, <2>3
<1>3. QED
  BY <1>1, <1>2, TypeCorrect, PTL DEF Spec

\* Where neither timeout nor gzip has put a writer in the Context, a panic that
\* nothing was written before is answered with a readable 500
\* (RecoveryWithOptions, SetWriter).
THEOREM PanicsAreAnswered == Spec => []PanicAnswered
<1>1. TypeOK /\ Sized /\ PanicInv => PanicAnswered
  <2> SUFFICES ASSUME TypeOK, Sized, PanicInv, enabled \cap {"timeout", "gzip"} = {},
                      Ended, c.status = 500, written = <<>>,
                      direct = 0
               PROVE  sent.status = 500 /\ Whole /\ Decoded = <<500>>
    BY DEF PanicAnswered, PanicGets500
  <2>1. calls = <<>> /\ Progress(500, Near) /\ sent.encoded = FALSE
    BY DEF PanicInv, Ended
  <2>2. sent.status = 500 /\ body = Plain(500)
    <3>1. ~sent.length
      BY DEF Sized
    <3>2. QED
      BY <2>1, <3>1 DEF Progress
  <2>3. /\ Len(body) = 1 /\ body[1].as = "plain" /\ body[1].id = 500
    BY <2>2 DEF Plain
  <2>4. Whole
    BY <2>1, <2>3 DEF Whole, Coherent, Sized
  <2>5. Decoded = <<500>>
    BY <2>3 DEF Decoded
  <2>6. QED
    BY <2>2, <2>4, <2>5
<1>2. QED
  BY <1>1, SizedInvariant, PanicInvariant, PTL

\* What an orderly handler has under way to the writers ws: no flush, no write
\* of nothing, and no token that could be taken for the answer of the timeout
\* middleware.
CleanData == Seq({t \in Token : t.id # 503})
CleanCalls(ws) ==
    {x \in WriterCall : /\ x.to \in ws /\ x.op # "flush" /\ x.data \in CleanData
                        /\ x.op = "write" => x.data # <<>>}
Clean(ws) ==
    /\ calls \in Seq(CleanCalls(ws))
    /\ body \in CleanData /\ gw.buf \in CleanData /\ gw.pending \in CleanData

\* The timeout middleware has been left, in whatever way or by returning.
Over == mode # "down" /\ ~Past("timeout")
Left == Over /\ mode \in {"up", "end"} /\ panics = 0
TooLate == tw.timedOut /\ ~tw.wroteHeader

\* Until it returns, what it has not let through has not been sent at all; then
\* it answers itself or nobody does.
AloneInv ==
    Orderly =>
        /\ ~c.wrote /\ direct = 0 => written = <<>>
        /\ mode \in {"end", "panic", "aborted"} => calls = <<>>
        /\ "timeout" \notin enabled => Clean(Sink) /\ tw.timedOut = FALSE
        /\ "timeout" \in enabled /\ Over => Expired
        /\ "timeout" \in enabled /\ ~Left => Clean(Wrappers)
        /\ "timeout" \in enabled /\ ~Left /\ mode # "end" /\ ~tw.wroteHeader =>
              sent.status = 0 /\ body = <<>>
        /\ "timeout" \in enabled /\ Left /\ TooLate =>
              c.status = 503 /\ Progress(503, {"server"})
        /\ "timeout" \in enabled /\ Left /\ ~TooLate =>
              calls = <<>> /\ body \in CleanData

LEMMA PrependTo ==
    ASSUME NEW S, NEW x \in S, NEW s \in Seq(S)
    PROVE  <<x>> \in Seq(S) /\ <<x>> \o s \in Seq(S)
OBVIOUS

LEMMA NothingJoined ==
    ASSUME NEW s \in Data, NEW t \in Data, s \o t = <<>>
    PROVE  s = <<>> /\ t = <<>>
BY ConcatEqualIffEmpty DEF Data

LEMMA CleanTokens ==
    /\ CleanData \subseteq Data /\ <<>> \in CleanData
    /\ \A s, t \in CleanData : s \o t \in CleanData
    /\ \A s \in CleanData : Packed(s) \in CleanData
    /\ \A s \in CleanData : Packed(s) \o End \in CleanData
    /\ \A s \in CleanData : s # <<>> => Packed(s) # <<>>
    /\ \A s \in CleanData : Packed(s) \o End # <<>>
    /\ \A id \in 1 .. MaxWrites \cup {500} :
          Plain(id) \in CleanData /\ Plain(id) # <<>>
<1> DEFINE T == {t \in Token : t.id # 503}
<1>1. CleanData = Seq(T)
  BY DEF CleanData
<1>2. T \subseteq Token /\ \A t \in T : [t EXCEPT !.as = "packed"] \in T
  BY DEF Token
<1>3. /\ \A id \in 1 .. MaxWrites \cup {500} :
             [id |-> id, as |-> "plain"] \in T
      /\ [id |-> 0, as |-> "end"] \in T
  BY MaxWritesAssumption DEF Token
<1> HIDE DEF T
<1>4. CleanData \subseteq Data /\ <<>> \in CleanData
  BY <1>1, <1>2 DEF Data
<1>5. \A s, t \in CleanData : s \o t \in CleanData
  BY <1>1
<1>6. ASSUME NEW s \in CleanData
      PROVE  Packed(s) \in CleanData /\ (s # <<>> => Packed(s) # <<>>)
  <2>1. s \in Seq(T) /\ \A i \in 1 .. Len(s) : s[i] \in T
    BY <1>1
  <2>2. Len(s) \in Nat /\ DOMAIN s = 1 .. Len(s)
    BY <2>1, LenProperties
  <2>3. Packed(s) \in [1 .. Len(s) -> T]
    BY <1>2, <2>1, <2>2 DEF Packed
  <2>4. Packed(s) \in Seq(T)
    BY <2>2, <2>3
  <2>5. DOMAIN Packed(s) = DOMAIN s
    BY DEF Packed
  <2>6. s # <<>> => Packed(s) # <<>>
    BY <2>1, <2>4, <2>5, <2>2, LenProperties
  <2>7. QED
    BY <1>1, <2>4, <2>6
<1>7. /\ End \in CleanData /\ Len(End) = 1
      /\ \A id \in 1 .. MaxWrites \cup {500} :
             Plain(id) \in CleanData /\ Plain(id) # <<>>
  BY <1>1, <1>3 DEF End, Plain
<1>8. ASSUME NEW s \in CleanData
      PROVE  Packed(s) \o End \in CleanData /\ Packed(s) \o End # <<>>
  <2>1. Packed(s) \in CleanData /\ Packed(s) \o End \in CleanData
    BY <1>5, <1>6, <1>7
  <2>2. Packed(s) \in Seq(T) /\ End \in Seq(T)
    BY <1>1, <1>7, <2>1
  <2>3. Len(Packed(s) \o End) = Len(Packed(s)) + 1
    BY <1>7, <2>2, Lengthened
  <2>4. Len(Packed(s)) \in Nat /\ Len(<<>>) = 0
    BY <2>2, LenProperties
  <2>5. QED
    BY <2>1, <2>3, <2>4
<1>9. QED
  BY <1>4, <1>5, <1>6, <1>7, <1>8

LEMMA CleanCallTypes ==
    ASSUME NEW ws \in SUBSET Sink, NEW w \in ws
    PROVE  /\ \A code \in Codes \cup {0} : HeaderCall(w, code) \in CleanCalls(ws)
           /\ \A data \in CleanData :
                 data # <<>> => WriteCall(w, data) \in CleanCalls(ws)
           /\ CloseCall(w) \in CleanCalls(ws)
           /\ \A call \in WriterCall :
                 call \in CleanCalls(Sink)
                     => [call EXCEPT !.to = w] \in CleanCalls(ws)
<1>1. <<>> \in CleanData /\ <<>> \in Data /\ CleanData \subseteq Data /\ w \in Sink
  BY CleanTokens, NoData
<1>2. ASSUME NEW code \in Codes \cup {0}
      PROVE  HeaderCall(w, code) \in CleanCalls(ws)
  BY <1>1 DEF HeaderCall, CleanCalls, WriterCall
<1>3. ASSUME NEW data \in CleanData, data # <<>>
      PROVE  WriteCall(w, data) \in CleanCalls(ws)
  BY <1>1, <1>3 DEF WriteCall, CleanCalls, WriterCall
<1>4. CloseCall(w) \in CleanCalls(ws)
  BY <1>1 DEF CloseCall, CleanCalls, WriterCall
<1>5. ASSUME NEW call \in WriterCall, call \in CleanCalls(Sink)
      PROVE  [call EXCEPT !.to = w] \in CleanCalls(ws)
  <2>1. PICK z : z = [call EXCEPT !.to = w]
    OBVIOUS
  <2>2. z \in WriterCall
    BY <1>1, <2>1, CallTypes
  <2>3. z.to = w /\ z.op = call.op /\ z.data = call.data
    BY <2>1 DEF WriterCall
  <2>4. z \in CleanCalls(ws)
    BY <1>5, <2>2, <2>3 DEF CleanCalls
  <2>5. QED
    BY <2>1, <2>4
<1>6. QED
  BY <1>2, <1>3, <1>4, <1>5

CleanWriter ==
    {g \in GzipWriter : g.buf \in CleanData /\ g.pending \in CleanData}

LEMMA CleanGzip ==
    ASSUME NEW g \in CleanWriter, NEW data \in CleanData, NEW b \in BOOLEAN
    PROVE  /\ [g EXCEPT !.pending = data] \in CleanWriter
           /\ [g EXCEPT !.buf = data] \in CleanWriter
           /\ [g EXCEPT !.wroteHead = TRUE, !.started = b] \in CleanWriter
           /\ [g EXCEPT !.wroteHead = TRUE, !.started = TRUE, !.buf = <<>>,
                       !.pending = data] \in CleanWriter
<1>1. /\ g \in GzipWriter /\ data \in Data /\ <<>> \in CleanData
      /\ g.buf \in CleanData /\ g.pending \in CleanData
  BY CleanTokens DEF CleanWriter
<1>2. [g EXCEPT !.pending = data] \in CleanWriter
  <2>1. PICK n : n = [g EXCEPT !.pending = data]
    OBVIOUS
  <2>2. n \in GzipWriter
    BY <1>1, <2>1, GzipType
  <2>3. n.buf = g.buf /\ n.pending = data
    BY <1>1, <2>1, GzipUpdates
  <2>4. QED
    BY <1>1, <2>1, <2>2, <2>3 DEF CleanWriter
<1>3. [g EXCEPT !.buf = data] \in CleanWriter
  <2>1. PICK n : n = [g EXCEPT !.buf = data]
    OBVIOUS
  <2>2. n \in GzipWriter
    BY <1>1, <2>1, GzipType
  <2>3. n.buf = data /\ n.pending = g.pending
    BY <1>1, <2>1, GzipUpdates
  <2>4. QED
    BY <1>1, <2>1, <2>2, <2>3 DEF CleanWriter
<1>4. [g EXCEPT !.wroteHead = TRUE, !.started = b] \in CleanWriter
  <2>1. PICK n : n = [g EXCEPT !.wroteHead = TRUE, !.started = b]
    OBVIOUS
  <2>2. n \in GzipWriter
    BY <1>1, <2>1, GzipType
  <2>3. n.buf = g.buf /\ n.pending = g.pending
    BY <1>1, <2>1, GzipHeads
  <2>4. QED
    BY <1>1, <2>1, <2>2, <2>3 DEF CleanWriter
<1>5. [g EXCEPT !.wroteHead = TRUE, !.started = TRUE, !.buf = <<>>,
              !.pending = data] \in CleanWriter
  <2>1. PICK n : n = [g EXCEPT !.wroteHead = TRUE, !.started = TRUE, !.buf = <<>>,
                             !.pending = data]
    OBVIOUS
  <2>2. n \in GzipWriter
    BY <1>1, <2>1, GzipType
  <2>3. n.buf = <<>> /\ n.pending = data
    BY <1>1, <2>1, GzipStarts
  <2>4. QED
    BY <1>1, <2>1, <2>2, <2>3 DEF CleanWriter
<1>6. QED
  BY <1>2, <1>3, <1>4, <1>5

\* No writer spoils what is clean, as long as the writers below are among ws.
LEMMA CleanWriters ==
    ASSUME TypeOK, Writers, NEW ws \in SUBSET Sink, Clean(ws),
           Call.to = "access_log" => orig["access_log"] \in ws,
           Call.to = "gzip" => orig["gzip"] \in ws
    PROVE  Clean(ws)'
<1> USE DEF fixedVars, frameVars, writerVars, netVars, saidVars, recordVars
<1>1. calls # <<>> /\ calls \in Seq(CleanCalls(ws))
  BY DEF Writers, ToServer, ToAccessLog, ToTimeout, FlushTimeout, GzipHeader,
     GzipPass, GzipBuffer, GzipStart, GzipWrite, GzipFlush, GzipClose, Calling,
     Clean
<1>2. /\ Call \in CleanCalls(ws) /\ Tail(calls) \in Seq(CleanCalls(ws))
      /\ Head(calls) = Call
  <2>1. Head(calls) \in CleanCalls(ws) /\ Tail(calls) \in Seq(CleanCalls(ws))
    BY <1>1, HeadTailProperties
  <2>2. QED
    BY <2>1 DEF Call
<1>3. /\ Call \in WriterCall /\ Call \in CleanCalls(Sink)
      /\ Call.to \in ws /\ Call.op # "flush"
      /\ Call.data \in CleanData /\ (Call.op = "write" => Call.data # <<>>)
      /\ Call.code \in Codes \cup {0}
  BY <1>2 DEF CleanCalls, WriterCall
<1>4. /\ gw \in CleanWriter /\ Decided \in CleanWriter /\ Compressible \in BOOLEAN
      /\ gw.buf \in CleanData /\ gw.pending \in CleanData /\ body \in CleanData
      /\ Decided.buf = gw.buf /\ <<>> \in CleanData
  BY DecidedFields, DecidedType, CleanTokens DEF CleanWriter, Clean, TypeOK
<1>5. SUFFICES ASSUME TRUE
               PROVE  /\ calls' \in Seq(CleanCalls(ws))
                      /\ body' \in CleanData /\ gw' \in CleanWriter
  BY DEF Clean, CleanWriter
<1>6. \A x \in CleanCalls(ws) : <<x>> \o Tail(calls) \in Seq(CleanCalls(ws))
  BY <1>2, PrependTo
<1>7. CASE ToServer
  <2>1. body' = body \/ body' = body \o Call.data
    BY <1>7 DEF ToServer, Receive
  <2>2. body' \in CleanData
    BY <1>3, <1>4, <2>1, CleanTokens
  <2>3. QED
    BY <1>2, <1>4, <1>7, <2>2 DEF ToServer
<1>8. CASE ToAccessLog
  <2>1. orig["access_log"] \in ws
    BY <1>8 DEF ToAccessLog, Calling, Call
  <2>2. [Call EXCEPT !.to = orig["access_log"]] \in CleanCalls(ws)
    BY <1>3, <2>1, CleanCallTypes
  <2>3. calls' \in Seq(CleanCalls(ws))
    BY <1>6, <1>8, <2>2 DEF ToAccessLog
  <2>4. QED
    BY <1>4, <1>8, <2>3 DEF ToAccessLog
<1>9. CASE ToTimeout
  <2>1. body' = body \/ body' = body \o Call.data
    BY <1>9 DEF ToTimeout, Receive
  <2>2. body' \in CleanData
    BY <1>3, <1>4, <2>1, CleanTokens
  <2>3. QED
    BY <1>2, <1>4, <1>9, <2>2 DEF ToTimeout
<1>10. CASE FlushTimeout \/ GzipFlush
  BY <1>3, <1>10 DEF FlushTimeout, GzipFlush, Calling, Call
<1>11. ASSUME GzipHeader \/ GzipPass \/ GzipBuffer \/ GzipStart \/ GzipWrite
                  \/ GzipClose
       PROVE  orig["gzip"] \in ws /\ orig["gzip"] \in Sink /\ body' = body
  BY <1>11 DEF GzipHeader, GzipPass, GzipBuffer, GzipStart, GzipWrite,
     GzipClose, Calling, Call
<1>12. ASSUME NEW data \in CleanData, data # <<>>, orig["gzip"] \in ws
       PROVE  /\ WriteCall(orig["gzip"], data) \in CleanCalls(ws)
              /\ Packed(data) \in CleanData /\ Packed(data) # <<>>
              /\ Emit(data) = <<WriteCall(orig["gzip"], Packed(data))>>
              /\ WriteCall(orig["gzip"], Packed(data)) \in CleanCalls(ws)
  BY <1>12, CleanTokens, CleanCallTypes DEF Emit
<1>13. CASE GzipHeader
  <2>1. gw' \in CleanWriter
    BY ZenonT(60), <1>4, <1>13, CleanGzip DEF GzipHeader
  <2>2. HeaderCall(orig["gzip"], Call.code) \in CleanCalls(ws)
    BY <1>3, <1>11, <1>13, CleanCallTypes
  <2>3. calls' \in Seq(CleanCalls(ws))
    BY ZenonT(60), <1>2, <1>6, <1>13, <2>2 DEF GzipHeader
  <2>4. QED
    BY <1>4, <1>11, <1>13, <2>1, <2>3
<1>14. CASE GzipPass
  <2>1. Call.op = "write"
    BY <1>14 DEF GzipPass, Calling, Call
  <2>2. WriteCall(orig["gzip"], Call.data) \in CleanCalls(ws)
    BY <1>3, <1>11, <1>12, <1>14, <2>1
  <2>3. QED
    BY <1>4, <1>6, <1>11, <1>14, <2>2 DEF GzipPass
<1>15. CASE GzipBuffer
  <2>1. PICK all : all = gw.buf \o Call.data
    OBVIOUS
  <2>2. all \in CleanData
    BY <1>3, <1>4, <2>1, CleanTokens
  <2>3. gw' = [Decided EXCEPT !.buf = all]
    BY <1>4, <1>15, <2>1 DEF GzipBuffer
  <2>4. gw' \in CleanWriter
    BY <1>4, <2>2, <2>3, CleanGzip
  <2>5. QED
    BY <1>2, <1>4, <1>11, <1>15, <2>4 DEF GzipBuffer
<1>16. CASE GzipStart
  <2>1. PICK all : all = gw.buf \o Call.data
    OBVIOUS
  <2>2. Call.op = "write"
    BY <1>16 DEF GzipStart, Calling, Call
  <2>3. all \in CleanData /\ all # <<>>
    <3>1. gw.buf \in Data /\ Call.data \in Data /\ Call.data # <<>>
      BY <1>3, <1>4, <2>2, CleanTokens
    <3>2. all \in CleanData
      BY <1>3, <1>4, <2>1, CleanTokens
    <3>3. QED
      BY <2>1, <3>1, <3>2, NothingJoined
  <2>4. /\ \/ Start(all, <<>>) \/ Start(<<>>, Emit(all))
        /\ body' = body
    BY <1>16, <2>1 DEF GzipStart
  <2>5. HeaderCall(orig["gzip"], 200) \in CleanCalls(ws)
    BY <1>11, <1>16, CleanCallTypes DEF Codes
  <2>6. PICK h : h = HeaderCall(orig["gzip"], 200)
    OBVIOUS
  <2>7. PICK w : w = WriteCall(orig["gzip"], Packed(all))
    OBVIOUS
  <2>8. h \in CleanCalls(ws) /\ w \in CleanCalls(ws) /\ Emit(all) = <<w>>
    BY <1>11, <1>12, <1>16, <2>3, <2>5, <2>6, <2>7
  <2>9. /\ <<h>> \in Seq(CleanCalls(ws)) /\ <<w>> \in Seq(CleanCalls(ws))
        /\ <<>> \in Seq(CleanCalls(ws))
    BY <2>8
  <2>10. /\ <<h>> \o <<>> \o Tail(calls) \in Seq(CleanCalls(ws))
         /\ <<h>> \o <<w>> \o Tail(calls) \in Seq(CleanCalls(ws))
    BY <1>2, <2>9
  <2>11. calls' \in Seq(CleanCalls(ws))
    BY <2>4, <2>6, <2>8, <2>10 DEF Start
  <2>12. gw' \in CleanWriter
    <3>1. PICK data \in CleanData :
              gw' = [Decided EXCEPT !.wroteHead = TRUE, !.started = TRUE,
                                    !.buf = <<>>, !.pending = data]
      BY <1>4, <2>3, <2>4 DEF Start
    <3>2. QED
      BY <1>4, <3>1, CleanGzip
  <2>13. QED
    BY <1>4, <2>4, <2>11, <2>12
<1>17. CASE GzipWrite
  <2>1. PICK all : all = gw.pending \o Call.data
    OBVIOUS
  <2>2. Call.op = "write"
    BY <1>17 DEF GzipWrite, Calling, Call
  <2>3. all \in CleanData /\ all # <<>>
    <3>1. gw.pending \in Data /\ Call.data \in Data /\ Call.data # <<>>
      BY <1>3, <1>4, <2>2, CleanTokens
    <3>2. all \in CleanData
      BY <1>3, <1>4, <2>1, CleanTokens
    <3>3. QED
      BY <2>1, <3>1, <3>2, NothingJoined
  <2>4. \/ gw' = [gw EXCEPT !.pending = all] /\ calls' = Tail(calls)
        \/ gw' = [gw EXCEPT !.pending = <<>>] /\ calls' = Emit(all) \o Tail(calls)
    BY <1>17, <2>1 DEF GzipWrite
  <2>5. PICK w : w = WriteCall(orig["gzip"], Packed(all))
    OBVIOUS
  <2>6. w \in CleanCalls(ws) /\ Emit(all) = <<w>>
    BY <1>11, <1>12, <1>17, <2>3, <2>5
  <2>7. calls' \in Seq(CleanCalls(ws))
    BY <1>2, <1>6, <2>4, <2>6
  <2>8. gw' \in CleanWriter
    BY ZenonT(60), <1>4, <2>3, <2>4, CleanGzip
  <2>9. QED
    BY <1>4, <1>11, <1>17, <2>7, <2>8
<1>18. CASE GzipClose
  <2>1. PICK p : p = Packed(gw.pending) \o End
    OBVIOUS
  <2>2. p \in CleanData /\ p # <<>>
    BY <1>4, <2>1, CleanTokens
  <2>3. /\ WriteCall(orig["gzip"], p) \in CleanCalls(ws)
        /\ gw.buf # <<>> => WriteCall(orig["gzip"], gw.buf) \in CleanCalls(ws)
    BY <1>4, <1>11, <1>12, <1>18, <2>2
  <2>4. \/ gw' = gw /\ calls' = <<>>
        \/ gw' = [gw EXCEPT !.pending = <<>>] /\ calls' = <<WriteCall(orig["gzip"], p)>>
        \/ /\ gw' = [gw EXCEPT !.buf = <<>>] /\ gw.buf # <<>>
           /\ calls' = <<WriteCall(orig["gzip"], gw.buf)>>
    BY <1>18, <2>1 DEF GzipClose
  <2>5. /\ \A x \in CleanCalls(ws) : <<x>> \in Seq(CleanCalls(ws))
        /\ <<>> \in Seq(CleanCalls(ws))
    OBVIOUS
  <2>6. calls' \in Seq(CleanCalls(ws))
    BY <2>3, <2>4, <2>5, Zenon
  <2>7. gw' \in CleanWriter
    BY ZenonT(60), <1>4, <2>4, CleanGzip
  <2>8. QED
    BY <1>4, <1>11, <1>18, <2>6, <2>7
<1>19. QED
  BY <1>7, <1>8, <1>9, <1>10, <1>13, <1>14, <1>15, <1>16, <1>17, <1>18
     DEF Writers

\* Below the timeout middleware every writer leads to its own.
LEMMA Enclosed ==
    ASSUME TypeOK, DeafInv, "timeout" \in enabled, mode # "down" \/ at = "handler",
           Over => mode = "panic"
    PROVE  Inside /\ Guarded(writer) /\ writer \in Wrappers
<1>1. ~Before
  BY DEF Before
<1>2. ~After
  BY Positions DEF After, Over, Past
<1>3. Inside
  BY <1>1, <1>2 DEF DeafInv
<1>4. QED
  BY <1>3 DEF Inside, Guarded, Wrappers

LEMMA AloneHandler ==
    ASSUME TypeOK, DeafInv, AloneInv, Orderly, Handler
    PROVE  AloneInv'
<1> USE DEF fixedVars, frameVars, writerVars, netVars, saidVars, recordVars
<1>0. /\ writer \in Sink /\ written \in Seq(1 .. MaxWrites) /\ c.wrote \in BOOLEAN
      /\ 1 \in 1 .. MaxWrites /\ {200, 404} \subseteq Codes
  BY FirstWrite DEF TypeOK, Codes
<1>1. /\ at = "handler" /\ mode = "down" /\ calls = <<>>
      /\ UNCHANGED <<enabled, gw, tw, sent, body, deadline, panics>>
      /\ \/ mode' = "down" /\ at' = at
         \/ /\ mode' \in {"up", "panic"} /\ at' = Outer(at)
            /\ UNCHANGED <<calls, c, written, direct>>
  BY DEF Handler, Respond, SetStatus, DirectStatus, ServeContent, File,
     DirectFile, Write, Flush, Panic, Return, Handling, Entering
<1>2. ~Over /\ ~Left
  BY <1>1 DEF Over, Left
<1>3. "timeout" \in enabled => ~Over' /\ ~Left'
  <2>1. CASE mode' = "down"
    BY <2>1 DEF Over, Left
  <2>2. CASE mode' \in {"up", "panic"} /\ at' = Outer(at)
    <3>1. "timeout" \in enabled => (Past("timeout")' <=> Past("timeout"))
      BY <1>1, <2>2, LeavingPast
    <3>2. Past("timeout")
      BY <1>1, Positions DEF Past
    <3>3. QED
      BY <3>1, <3>2 DEF Over, Left
  <2>3. QED
    BY <1>1, <2>1, <2>2
<1>4. /\ "timeout" \notin enabled => Clean(Sink)
      /\ "timeout" \in enabled => Clean(Wrappers)
  BY <1>2 DEF AloneInv
<1>5. ASSUME NEW ws \in SUBSET Sink, writer \in ws
      PROVE  calls' \in Seq(CleanCalls(ws))
  <2>1. <<>> \in Seq(CleanCalls(ws))
    OBVIOUS
  <2>2. \A code \in Codes : HeaderCall(writer, code) \in CleanCalls(ws)
    BY <1>5, CleanCallTypes
  <2>3. \A id \in 1 .. MaxWrites : WriteCall(writer, Plain(id)) \in CleanCalls(ws)
    BY <1>5, CleanCallTypes, CleanTokens
  <2>4. /\ \A x \in CleanCalls(ws) : <<x>> \in Seq(CleanCalls(ws))
        /\ \A x, y \in CleanCalls(ws) : <<x, y>> \in Seq(CleanCalls(ws))
    OBVIOUS
  <2>5. ASSUME NEW code \in {200, 404}, Respond(code)
        PROVE  calls' \in Seq(CleanCalls(ws))
    <3>1. calls' = <<HeaderCall(writer, code), WriteCall(writer, Plain(1))>>
      BY <2>5 DEF Respond, Unanswered, Answer
    <3>2. QED
      BY <1>0, <2>2, <2>3, <2>4, <3>1
  <2>6. ASSUME NEW code \in {200, 404}, NEW type \in {"none", "text", "binary"},
               SetStatus(code, type)
        PROVE  calls' \in Seq(CleanCalls(ws))
    BY <1>0, <2>2, <2>4, <2>6 DEF SetStatus
  <2>7. ASSUME NEW type \in {"text", "binary"}, File(type) \/ DirectFile(type)
        PROVE  calls' \in Seq(CleanCalls(ws))
    <3>1. calls' = <<HeaderCall(writer, 200), WriteCall(writer, Plain(1))>>
      BY <2>7 DEF File, DirectFile, ServeContent
    <3>2. QED
      BY <1>0, <2>2, <2>3, <2>4, <3>1
  <2>8. CASE Write
    <3>1. PICK id \in 1 .. MaxWrites : id = Len(written) + 1
      BY MaxWritesAssumption, <1>0, <2>8 DEF Write
    <3>2. calls' = <<WriteCall(writer, Plain(id))>>
      BY <2>8, <3>1 DEF Write
    <3>3. QED
      BY <2>3, <2>4, <3>2
  <2>9. CASE Flush
    BY <2>9 DEF Flush, Orderly
  <2>10. CASE Panic \/ Return
    BY <1>1, <2>1, <2>10 DEF Panic, Return
  <2>11. ASSUME NEW code \in {200, 404}, NEW type \in {"none", "text", "binary"},
                DirectStatus(code, type)
         PROVE  calls' \in Seq(CleanCalls(ws))
    BY <1>0, <2>2, <2>4, <2>11 DEF DirectStatus
  <2>12. QED
    BY <2>5, <2>6, <2>7, <2>8, <2>9, <2>10, <2>11 DEF Handler
<1>6. "timeout" \notin enabled => Clean(Sink)'
  <2>1. "timeout" \notin enabled => calls' \in Seq(CleanCalls(Sink))
    BY <1>0, <1>5
  <2>2. QED
    BY <1>1, <1>4, <2>1 DEF Clean
<1>7. "timeout" \in enabled => Clean(Wrappers)'
  <2>1. "timeout" \in enabled => writer \in Wrappers
    BY <1>1, <1>2, Enclosed
  <2>2. "timeout" \in enabled => calls' \in Seq(CleanCalls(Wrappers))
    BY <1>5, <2>1 DEF Sink
  <2>3. QED
    BY <1>1, <1>4, <2>2 DEF Clean
<1>8. ~c'.wrote /\ direct' = 0 => written' = <<>>
  <2>1. CASE Write
    <3>1. (c.wrote \/ direct # 0 \/ written # <<>>) /\ c' = c /\ direct' = direct
      BY <2>1 DEF Write, Orderly, Unanswered
    <3>2. QED
      BY <3>1 DEF AloneInv
  <2>2. CASE Handler /\ ~Write
    <3>1. c'.wrote \/ direct' # 0 \/ UNCHANGED <<c, direct, written>>
      BY <2>2 DEF Handler, Respond, SetStatus, DirectStatus, File, DirectFile,
         Flush, Panic, Return
    <3>2. QED
      BY <3>1 DEF AloneInv
  <2>3. QED
    BY <2>1, <2>2
<1>9. mode' \in {"end", "panic", "aborted"} => calls' = <<>>
  BY <1>1
<1>10. QED
  BY <1>1, <1>2, <1>3, <1>6, <1>7, <1>8, <1>9 DEF AloneInv

LEMMA NoneLeft ==
    ASSUME NEW S, NEW s \in Seq(S), DOMAIN s = {}
    PROVE  s = <<>>
<1>1. Len(s) \in Nat /\ DOMAIN s = 1 .. Len(s)
  BY LenProperties
<1>2. Len(s) = 0
  BY <1>1
<1>3. QED
  BY <1>2, EmptySeq

\* Whoever writes in time has sent a header before.
LEMMA WriteHasHeader ==
    ASSUME TypeOK, CountInv, GoodInv, AloneInv, Orderly, "timeout" \in enabled,
           Clean(Wrappers),
           Calling("timeout", {"write"}), ~Expired
    PROVE  sent.status # 0
<1>1. calls # <<>> /\ Call.op = "write"
  BY DEF Calling, Call
<1>2. Good
  <2>1. mode \notin {"end", "panic", "aborted"} /\ ~Over
    BY <1>1 DEF AloneInv
  <2>2. panics # 0 => Over
    BY <2>1, Positions DEF CountInv, Over, Past
  <2>3. QED
    BY <2>1, <2>2 DEF Good, Expired
<1>3. /\ Shape /\ Status /\ Content
  BY <1>2 DEF GoodInv
<1>4. Made(calls) = {Call} /\ Flight(calls) = Call.data /\ Call \in WriterCall
  BY <1>1, <1>3, LoneCall
<1>5. ~HeaderOn
  BY <1>1, <1>4 DEF HeaderOn
<1>6. Call.data # <<>>
  <2>1. calls \in Seq(CleanCalls(Wrappers))
    BY DEF Clean
  <2>2. Head(calls) \in CleanCalls(Wrappers)
    BY <1>1, <2>1, HeadTailProperties
  <2>3. QED
    BY <1>1, <2>2 DEF CleanCalls, Call
<1>7. SUFFICES ASSUME sent.status = 0
               PROVE  FALSE
  OBVIOUS
<1>8. ~c.wrote /\ direct = 0 /\ ~gw.started
  BY <1>3, <1>5, <1>7 DEF Status, Answered
<1>9. written = <<>>
  BY <1>8 DEF AloneInv
<1>10. Ids(body) \o Ids(gw.buf) \o Ids(Call.data) = <<>>
  BY <1>3, <1>4, <1>8, <1>9 DEF Content, Misfit, Gathered
<1>11. /\ Ids(body) \in Seq(Nat) /\ Ids(gw.buf) \in Seq(Nat)
       /\ Ids(Call.data) \in Seq(Nat) /\ Call.data \in Data
  BY <1>4, GoodData, IdsType DEF WriterCall
<1>12. Ids(body) \o Ids(gw.buf) \in Seq(Nat)
  BY <1>11
<1>13. Ids(Call.data) = <<>>
  BY <1>10, <1>11, <1>12, ConcatEqualIffEmpty
<1>14. DOMAIN Ids(Call.data) = DOMAIN Call.data
  BY DEF Ids
<1>15. Call.data \in Seq(Token) /\ DOMAIN Call.data = {}
  BY <1>11, <1>13, <1>14 DEF Data
<1>16. QED
  BY <1>6, <1>15, NoneLeft

LEMMA AloneWriters ==
    ASSUME TypeOK, DeafInv, CountInv, GoodInv, AloneInv, Orderly, Writers
    PROVE  AloneInv'
<1> USE DEF fixedVars, frameVars, writerVars, netVars, saidVars, recordVars
<1>1. /\ calls # <<>>
      /\ UNCHANGED <<enabled, at, mode, writer, orig, deadline, c,
                     written, direct, panics>>
  BY DEF Writers, ToServer, ToAccessLog, ToTimeout, FlushTimeout, GzipHeader,
     GzipPass, GzipBuffer, GzipStart, GzipWrite, GzipFlush, GzipClose, Calling
<1>2. /\ Over' = Over /\ Left' = Left /\ mode \notin {"end", "panic", "aborted"}
      /\ Expired' = Expired
  BY <1>1 DEF Over, Left, Past, Expired, AloneInv
<1>3. /\ Call \in WriterCall /\ Call.to \in Sink /\ Head(calls) = Call
      /\ orig["gzip"] \in Sink /\ orig["access_log"] \in Sink
  BY <1>1, FirstCall DEF TypeOK, Wrappers
<1>4. CASE "timeout" \notin enabled
  <2>1. Clean(Sink)'
    BY <1>3, <1>4, CleanWriters DEF AloneInv
  <2>2. tw'.timedOut = FALSE
    <3>0. tw \in [timedOut : BOOLEAN, wroteHeader : BOOLEAN] /\ tw.timedOut = FALSE
      BY <1>4 DEF TypeOK, AloneInv
    <3>1. ~Expired
      BY <1>4 DEF DeafInv, Expired
    <3>2. CASE ToTimeout
      <4>1. PICK b : b = (tw.wroteHeader \/ Call.op = "header")
        OBVIOUS
      <4>2. tw' = [tw EXCEPT !.wroteHeader = b]
        BY <3>1, <3>2, <4>1 DEF ToTimeout
      <4>3. QED
        BY <3>0, <4>2
    <3>3. CASE Writers /\ ~ToTimeout
      <4>1. tw' = tw
        BY <3>3 DEF Writers, ToServer, ToAccessLog, FlushTimeout, GzipHeader,
           GzipPass, GzipBuffer, GzipStart, GzipWrite, GzipFlush, GzipClose
      <4>2. QED
        BY <3>0, <4>1
    <3>4. QED
      BY <3>2, <3>3
  <2>3. QED
    BY <1>1, <1>2, <1>4, <2>1, <2>2 DEF AloneInv
<1>5. CASE "timeout" \in enabled /\ Left
  <2>1. TooLate /\ c.status = 503 /\ Progress(503, {"server"})
    BY <1>1, <1>5 DEF AloneInv
  <2>2. Call.to = "server"
    <3>1. \A x, y : Head(<<x, y>>) = x /\ Head(<<x>>) = x
      OBVIOUS
    <3>2. QED
      BY <1>1, <2>1, <3>1 DEF Progress, Call
  <2>3. ToServer
    BY <1>3, <2>2 DEF Writers, ToAccessLog, ToTimeout, FlushTimeout, GzipHeader,
       GzipPass, GzipBuffer, GzipStart, GzipWrite, GzipFlush, GzipClose, Calling
  <2>4. Progress(503, {"server"})'
    <3>1. 503 \in Codes /\ {"server"} \in SUBSET Sink
      BY DEF Codes, Sink
    <3>2. QED
      BY <2>1, <2>3, <3>1, ProgressStep
  <2>5. TooLate' = TooLate
    BY <2>3 DEF ToServer, TooLate
  <2>6. QED
    BY <1>1, <1>2, <1>5, <2>1, <2>4, <2>5 DEF AloneInv
<1>6. CASE "timeout" \in enabled /\ ~Left
  <2>1. Clean(Wrappers) /\ Call.to \in Wrappers
    <3>1. Clean(Wrappers)
      BY <1>6 DEF AloneInv
    <3>2. Head(calls) \in CleanCalls(Wrappers)
      BY <1>1, <3>1, HeadTailProperties DEF Clean
    <3>3. QED
      BY <1>3, <3>1, <3>2 DEF CleanCalls
  <2>2. Inside
    <3>1. ~Before
      BY <1>1 DEF Before
    <3>2. After => Call.to = "server"
      <4>1. After => Head(calls) \in TimeoutCalls
        BY <1>1, HeadTailProperties DEF After
      <4>2. QED
        BY <1>3, <4>1 DEF TimeoutCalls
    <3>3. QED
      BY <1>6, <2>1, <3>1, <3>2 DEF DeafInv, Wrappers
  <2>3. Guarded(Call.to)
    <3>1. Head(calls) \in HarmlessCalls
      BY <1>1, <2>2, HeadTailProperties DEF Inside
    <3>2. QED
      BY <1>3, <2>1, <3>1 DEF HarmlessCalls, Wrappers
  <2>4. Clean(Wrappers)'
    <3>1. /\ Call.to = "access_log" => orig["access_log"] \in Wrappers
          /\ Call.to = "gzip" => orig["gzip"] \in Wrappers
      BY <2>3 DEF Guarded, Wrappers
    <3>2. QED
      BY <2>1, <3>1, CleanWriters DEF Sink
  <2>5. ~tw'.wroteHeader => sent'.status = 0 /\ body' = <<>>
    <3>1. CASE ToTimeout /\ Expired
      <4>1. /\ tw' = [tw EXCEPT !.timedOut = TRUE] /\ UNCHANGED <<sent, body>>
            /\ tw \in [timedOut : BOOLEAN, wroteHeader : BOOLEAN]
        BY <3>1 DEF ToTimeout, TypeOK
      <4>2. tw'.wroteHeader = tw.wroteHeader
        BY <4>1
      <4>3. QED
        BY <1>2, <1>6, <4>1, <4>2 DEF AloneInv
    <3>2. CASE ToTimeout /\ ~Expired
      <4>1. CASE Call.op = "header"
        <5>1. tw' = [tw EXCEPT !.wroteHeader = tw.wroteHeader \/ Call.op = "header"]
          BY <3>2 DEF ToTimeout
        <5>2. (tw.wroteHeader \/ Call.op = "header") = TRUE
          BY <4>1
        <5>3. tw \in [timedOut : BOOLEAN, wroteHeader : BOOLEAN]
          BY DEF TypeOK
        <5>4. tw' = [tw EXCEPT !.wroteHeader = TRUE]
          BY <5>1, <5>2
        <5>5. tw'.wroteHeader = TRUE
          BY <5>3, <5>4
        <5>6. QED
          BY <5>5
      <4>2. CASE Call.op # "header"
        <5>1. Calling("timeout", {"write"})
          BY <1>3, <3>2, <4>2 DEF ToTimeout, Calling
        <5>2. sent.status # 0
          BY <1>6, <2>1, <3>2, <5>1, WriteHasHeader
        <5>3. tw.wroteHeader /\ tw \in [timedOut : BOOLEAN, wroteHeader : BOOLEAN]
          BY <1>2, <1>6, <5>2 DEF AloneInv, TypeOK
        <5>4. tw' = [tw EXCEPT !.wroteHeader = tw.wroteHeader \/ Call.op = "header"]
          BY <3>2 DEF ToTimeout
        <5>5. (tw.wroteHeader \/ Call.op = "header") = TRUE
          BY <5>3
        <5>6. tw' = [tw EXCEPT !.wroteHeader = TRUE]
          BY <5>4, <5>5
        <5>7. tw'.wroteHeader = TRUE
          BY <5>3, <5>6
        <5>8. QED
          BY <5>7
      <4>3. QED
        BY <4>1, <4>2
    <3>3. CASE Writers /\ ~ToTimeout
      <4>1. ~ToServer
        BY <2>1 DEF ToServer, Calling, Call, Wrappers
      <4>2. UNCHANGED <<tw, sent, body>>
        BY <3>3, <4>1 DEF Writers, ToAccessLog, FlushTimeout, GzipHeader,
           GzipPass, GzipBuffer, GzipStart, GzipWrite, GzipFlush, GzipClose
      <4>3. QED
        BY <1>2, <1>6, <4>2 DEF AloneInv
    <3>4. QED
      BY <3>1, <3>2, <3>3
  <2>6. QED
    BY <1>1, <1>2, <1>6, <2>4, <2>5 DEF AloneInv
<1>7. QED
  BY <1>4, <1>5, <1>6

LEMMA AloneMiddleware ==
    ASSUME TypeOK, DeafInv, CountInv, AloneInv, Orderly, Middleware
    PROVE  AloneInv'
<1> USE DEF fixedVars, frameVars, writerVars, netVars, saidVars, recordVars
<1>1. /\ calls = <<>>
      /\ UNCHANGED <<enabled, gw, tw, body, written, direct>>
      /\ deadline' = deadline \/ at = "timeout"
  BY DEF Middleware, PassOn, EnterTimeout, EnterGzip,
     EnterMetrics, EnterAccessLog, LeaveAccessLog, LeaveMetrics,
     UnwindMetrics, CloseGzip, LeaveGzip, UnwindWriter, LeaveTimeout,
     UnwindTimeout, LeaveRecovery, Recover, Finish, Abort,
     Entering, Leaving, Unwinding
<1>2. \A ws : <<>> \in Seq(CleanCalls(ws))
  OBVIOUS
<1>3. CASE PassOn \/ EnterTimeout \/ EnterGzip \/ EnterMetrics \/ EnterAccessLog
  <2>1. mode = "down" /\ mode' = "down" /\ UNCHANGED <<calls, c, sent>>
    BY <1>3 DEF PassOn, EnterTimeout, EnterGzip, EnterMetrics,
       EnterAccessLog, Entering
  <2>2. ~Over /\ ~Over' /\ ~Left /\ ~Left'
    BY <2>1 DEF Over, Left
  <2>3. Clean(Sink)' = Clean(Sink) /\ Clean(Wrappers)' = Clean(Wrappers)
    BY <1>1, <2>1 DEF Clean
  <2>4. QED
    BY <1>1, <2>1, <2>2, <2>3 DEF AloneInv
<1>4. CASE LeaveTimeout \/ UnwindTimeout
  <2>1. /\ at = "timeout" /\ at' = Outer("timeout") /\ "timeout" \in enabled
        /\ \/ mode = "up" /\ mode' = "up"
           \/ mode = "panic" /\ mode' = "panic"
        /\ panics' = panics /\ sent' = sent
    BY <1>4 DEF LeaveTimeout, UnwindTimeout, Leaving, Unwinding, TypeOK, Frames
  <2>2. panics = 0
    BY <2>1 DEF CountInv
  <2>3. ~Over /\ ~Left
    BY <2>1 DEF Over, Past, Left
  <2>4. Over' /\ (Left' <=> mode' = "up")
    <3>1. ~Past("timeout")'
      BY <1>1, <2>1, LeavingPast
    <3>2. QED
      BY <2>1, <2>2, <3>1 DEF Over, Left
  <2>5. Expired'
    <3>1. deadline # "none"
      BY <2>1 DEF DeafInv, Before
    <3>2. deadline' = IF deadline = "live" THEN "cancelled" ELSE deadline
      BY <1>4 DEF LeaveTimeout, UnwindTimeout, Cancel
    <3>3. QED
      BY <3>1, <3>2 DEF Expired, TypeOK
  <2>6. Clean(Wrappers) /\ body \in CleanData
    BY <2>1, <2>3 DEF AloneInv, Clean
  <2>7. CASE UnwindTimeout
    <3>1. UNCHANGED <<calls, c>> /\ mode' = "panic"
      BY <2>7 DEF UnwindTimeout, Unwinding
    <3>2. Clean(Wrappers)'
      BY <1>1, <2>6, <3>1 DEF Clean
    <3>3. ~tw.wroteHeader => sent.status = 0 /\ body = <<>>
      BY <2>1, <2>3 DEF AloneInv
    <3>4. ~c.wrote /\ direct = 0 => written = <<>>
      BY DEF AloneInv
    <3>5. QED
      BY <1>1, <2>1, <2>4, <2>5, <3>1, <3>2, <3>3, <3>4 DEF AloneInv
  <2>8. CASE LeaveTimeout /\ TooLate
    <3>1. /\ c' = [wrote |-> TRUE, status |-> 503] /\ mode' = "up"
          /\ calls' = Answer(orig["timeout"], FALSE, 503, 503)
      BY <2>8 DEF LeaveTimeout, TooLate, Leaving
    <3>2. orig["timeout"] = "server"
      BY <2>1 DEF DeafInv, Before
    <3>3. calls' = <<HeaderCall("server", 503), WriteCall("server", Plain(503))>>
      BY <3>1, <3>2 DEF Answer
    <3>4. sent'.status = 0 /\ body' = <<>>
      BY <1>1, <2>1, <2>3, <2>8 DEF AloneInv, TooLate
    <3>5. PICK ws \in SUBSET Sink : ws = {"server"}
      BY DEF Sink
    <3>6. Progress(503, ws)'
      BY <3>3, <3>4, <3>5, ProgressBegins
    <3>7. Progress(503, {"server"})'
      BY <3>5, <3>6
    <3>8. TooLate'
      BY <1>1, <2>8 DEF TooLate
    <3>9. c'.wrote /\ c'.status = 503
      BY <3>1
    <3>10. QED
      BY <1>1, <2>1, <2>4, <2>5, <3>1, <3>7, <3>8, <3>9 DEF AloneInv
  <2>9. CASE LeaveTimeout /\ ~TooLate
    <3>1. UNCHANGED <<calls, c>> /\ mode' = "up"
      BY <2>9 DEF LeaveTimeout, TooLate, Leaving
    <3>2. ~TooLate'
      BY <1>1, <2>9 DEF TooLate
    <3>3. ~c.wrote /\ direct = 0 => written = <<>>
      BY DEF AloneInv
    <3>4. QED
      BY <1>1, <2>1, <2>4, <2>5, <2>6, <3>1, <3>2, <3>3 DEF AloneInv
  <2>10. QED
    BY <1>4, <2>7, <2>8, <2>9
<1>5. ASSUME at # "timeout", mode # "down", mode' # "down",
             at' = at \/ (at' = Outer(at) /\ at # "server")
      PROVE  "timeout" \in enabled => Over' = Over
  <2>1. CASE at' = at
    BY <1>5, <2>1 DEF Over, Past
  <2>2. CASE at' = Outer(at) /\ at # "server"
    <3>1. "timeout" \in enabled => (Past("timeout")' <=> Past("timeout"))
      BY <1>1, <1>5, <2>2, LeavingPast
    <3>2. QED
      BY <1>5, <3>1 DEF Over
  <2>3. QED
    BY <1>5, <2>1, <2>2
<1>6. CASE LeaveAccessLog \/ LeaveMetrics \/ UnwindMetrics \/ LeaveGzip
               \/ UnwindWriter \/ LeaveRecovery
  <2>1. /\ at \notin {"timeout", "server"} /\ at' = Outer(at)
        /\ \/ mode = "up" /\ mode' = "up"
           \/ mode = "panic" /\ mode' = "panic"
           \/ mode = "closing" /\ mode' = "up" /\ at = "gzip"
        /\ UNCHANGED <<calls, c, sent, panics, deadline>>
    BY <1>6 DEF LeaveAccessLog, LeaveMetrics, UnwindMetrics, LeaveGzip,
       UnwindWriter, LeaveRecovery, Leaving, Unwinding
  <2>2. "timeout" \in enabled => Over' = Over
    BY <1>5, <2>1
  <2>3. "timeout" \in enabled => Left' = Left
    <3>1. mode = "closing" => ~Over
      BY <2>1, Positions DEF Over, Past
    <3>2. QED
      BY <2>1, <2>2, <3>1 DEF Left
  <2>4. Expired' = Expired /\ TooLate' = TooLate
    BY <1>1, <2>1 DEF Expired, TooLate
  <2>5. Clean(Sink)' = Clean(Sink) /\ Clean(Wrappers)' = Clean(Wrappers)
    BY <1>1, <2>1 DEF Clean
  <2>6. Progress(503, {"server"})' = Progress(503, {"server"})
    BY <1>1, <2>1 DEF Progress
  <2>7. QED
    BY <1>1, <2>1, <2>2, <2>3, <2>4, <2>5, <2>6 DEF AloneInv
<1>7. CASE CloseGzip
  <2>1. /\ at = "gzip" /\ mode = "up" /\ mode' = "closing" /\ at' = at
        /\ UNCHANGED <<c, sent, panics, deadline>>
        /\ calls' = <<CloseCall("gzip")>>
    BY <1>7 DEF CloseGzip, Leaving
  <2>2. ~Over /\ ~Over' /\ ~Left /\ ~Left'
    BY <2>1, Positions DEF Over, Left, Past
  <2>3. ASSUME NEW ws \in SUBSET Sink, "gzip" \in ws, Clean(ws)
        PROVE  Clean(ws)'
    <3>1. CloseCall("gzip") \in CleanCalls(ws)
      BY <2>3, CleanCallTypes
    <3>2. calls' \in Seq(CleanCalls(ws))
      BY <2>1, <3>1
    <3>3. QED
      BY <1>1, <2>3, <3>2 DEF Clean
  <2>4. /\ Clean(Sink) => Clean(Sink)'
        /\ Clean(Wrappers) => Clean(Wrappers)'
    BY <2>3 DEF Sink, Wrappers
  <2>5. QED
    BY <1>1, <2>1, <2>2, <2>4 DEF AloneInv
<1>8. CASE Recover
  <2>1. /\ at = "recovery" /\ mode = "panic" /\ mode' = "up"
        /\ at' = Outer("recovery") /\ panics' = panics + 1
        /\ calls' = Answer(writer, c.wrote, 500, 500)
        /\ UNCHANGED <<sent, deadline>> /\ c'.wrote = TRUE
    BY <1>8 DEF Recover, Unwinding
  <2>2. /\ "timeout" \in enabled => Over' = Over
        /\ ~Left /\ ~Left'
    <3>1. panics' # 0
      BY <2>1 DEF TypeOK
    <3>2. QED
      BY <1>5, <2>1, <3>1 DEF Left
  <2>3. ASSUME NEW ws \in SUBSET Sink, writer \in ws, Clean(ws)
        PROVE  Clean(ws)'
    <3>1. PICK x, y : x = HeaderCall(writer, 500) /\ y = WriteCall(writer, Plain(500))
      OBVIOUS
    <3>2. Plain(500) \in CleanData /\ Plain(500) # <<>> /\ 500 \in Codes
      BY CleanTokens DEF Codes
    <3>3. x \in CleanCalls(ws) /\ y \in CleanCalls(ws)
      BY <2>3, <3>1, <3>2, CleanCallTypes
    <3>4. <<y>> \in Seq(CleanCalls(ws)) /\ <<x, y>> \in Seq(CleanCalls(ws))
      BY <3>3
    <3>5. calls' = <<y>> \/ calls' = <<x, y>>
      BY <2>1, <3>1 DEF Answer
    <3>6. calls' \in Seq(CleanCalls(ws))
      BY <3>4, <3>5
    <3>7. QED
      BY <1>1, <2>3, <3>6 DEF Clean
  <2>4. /\ writer \in Sink
        /\ "timeout" \in enabled => writer \in Wrappers
    BY <2>1, Enclosed DEF TypeOK
  <2>5. /\ "timeout" \notin enabled => Clean(Sink)'
        /\ "timeout" \in enabled => Clean(Wrappers)'
    BY <2>2, <2>3, <2>4 DEF AloneInv, Sink
  <2>6. Expired' = Expired
    BY <2>1 DEF Expired
  <2>7. QED
    BY <1>1, <2>1, <2>2, <2>5, <2>6 DEF AloneInv
<1>9. CASE Finish \/ Abort
  <2>1. /\ at = "server" /\ at' = at
        /\ \/ mode = "up" /\ mode' = "end"
           \/ mode = "panic" /\ mode' = "aborted"
        /\ UNCHANGED <<calls, c, panics, deadline>>
        /\ sent' = sent \/ (sent.status = 0 /\ mode' = "end")
    BY <1>9 DEF Finish, Abort, Leaving, Unwinding, Commit
  <2>2. "timeout" \in enabled => Over' = Over
    BY <1>5, <2>1
  <2>3. "timeout" \in enabled => Left' = Left
    BY <2>1, <2>2 DEF Left
  <2>4. Expired' = Expired /\ TooLate' = TooLate
    BY <1>1, <2>1 DEF Expired, TooLate
  <2>5. Clean(Sink)' = Clean(Sink) /\ Clean(Wrappers)' = Clean(Wrappers)
    BY <1>1, <2>1 DEF Clean
  <2>6. Progress(503, {"server"}) => Progress(503, {"server"})'
    <3>1. ASSUME Progress(503, {"server"})
          PROVE  /\ sent.status = 503
                 /\ body = Plain(503) \/ (body = <<>> /\ sent.length)
      BY <1>1, <3>1 DEF Progress
    <3>2. QED
      BY <1>1, <2>1, <3>1 DEF Progress
  <2>7. QED
    BY <1>1, <2>1, <2>2, <2>3, <2>4, <2>5, <2>6 DEF AloneInv
<1>10. QED
  BY <1>3, <1>4, <1>6, <1>7, <1>8, <1>9 DEF Middleware

LEMMA AloneInvariant ==
    Spec => [](TypeOK /\ DeafInv /\ CountInv /\ GoodInv /\ AloneInv)
<1> USE DEF fixedVars, frameVars, writerVars, netVars, saidVars, recordVars
<1>1. Init => AloneInv
  <2> SUFFICES ASSUME Init
               PROVE  AloneInv
    OBVIOUS
  <2>1. /\ calls = <<>> /\ body = <<>> /\ gw.buf = <<>> /\ gw.pending = <<>>
        /\ written = <<>> /\ direct = 0 /\ mode = "down" /\ tw.timedOut = FALSE
        /\ sent.status = 0
    BY DEF Init
  <2>2. ~Over /\ ~Left
    BY <2>1 DEF Over, Left
  <2>3. \A ws : Clean(ws)
    BY <2>1, CleanTokens DEF Clean
  <2>4. QED
    BY <2>1, <2>2, <2>3 DEF AloneInv
<1>2. /\ TypeOK /\ DeafInv /\ CountInv /\ GoodInv /\ AloneInv
      /\ [Next]_vars
      => AloneInv'
  <2> SUFFICES ASSUME TypeOK, DeafInv, CountInv, GoodInv, AloneInv, [Next]_vars
               PROVE  AloneInv'
    OBVIOUS
  <2>1. ops' = ops
    BY DEF Next, Expire, vars, Handler, Respond, SetStatus, DirectStatus,
       ServeContent, File, DirectFile, Write, Flush, Panic, Return, Writers,
       ToServer, ToAccessLog, ToTimeout, FlushTimeout, GzipHeader, GzipPass,
       GzipBuffer, GzipStart, GzipWrite, GzipFlush, GzipClose, Middleware,
       PassOn, EnterTimeout, EnterGzip, EnterMetrics, EnterAccessLog,
       LeaveAccessLog, LeaveMetrics, UnwindMetrics, CloseGzip, LeaveGzip,
       UnwindWriter, LeaveTimeout, UnwindTimeout, LeaveRecovery, Recover,
       Finish, Abort
  <2>2. CASE ~Orderly
    BY <2>1, <2>2 DEF AloneInv, Orderly
  <2>3. CASE Orderly
    <3>1. CASE Expire \/ UNCHANGED vars
      <4>1. /\ UNCHANGED <<enabled, at, mode, calls, c, tw, gw, sent, body,
                           written, direct, panics>>
            /\ Expired => Expired'
        BY <3>1 DEF Expire, vars, Expired
      <4>2. /\ Over' = Over /\ Left' = Left /\ TooLate' = TooLate
            /\ Clean(Sink)' = Clean(Sink) /\ Clean(Wrappers)' = Clean(Wrappers)
            /\ Progress(503, {"server"})' = Progress(503, {"server"})
        BY <4>1 DEF Over, Left, Past, TooLate, Clean, Progress
      <4>3. QED
        BY <2>3, <4>1, <4>2 DEF AloneInv
    <3>2. QED
      BY <2>3, <3>1, AloneHandler, AloneWriters, AloneMiddleware DEF Next
  <2>4. QED
    BY <2>2, <2>3
<1>3. QED
  BY <1>1, <1>2, CountInvariant, GoodInvariant, PTL DEF Spec

\* The 503 of the timeout middleware is the whole body or no part of it; a handler
\* that begins too late gets a 503, and the client can read it if the answer it
\* replaces left neither an encoding nor a length behind (timeoutWriter,
\* TimeoutWithOptions).
THEOREM TimeoutIsAlone == Spec => []TimeoutAnswersAlone
<1>1. TypeOK /\ CountInv /\ AloneInv => TimeoutAnswersAlone
  <2> SUFFICES ASSUME TypeOK, CountInv, AloneInv, Orderly
               PROVE  /\ \A i \in DOMAIN body : body[i].id = 503 =>
                             Len(body) = 1 /\ sent.status = 503
                      /\ Late => /\ sent.status = 503 /\ StatusCode = 503
                                 /\ ~sent.encoded /\ ~sent.length =>
                                       Whole /\ Decoded = << 503 >>
    BY DEF TimeoutAnswersAlone, Late
  <2>1. \/ body \in CleanData
        \/ "timeout" \in enabled /\ Left /\ TooLate /\ Progress(503, {"server"})
    BY DEF AloneInv, Clean
  <2>2. ASSUME NEW i \in DOMAIN body, body[i].id = 503
        PROVE  Len(body) = 1 /\ sent.status = 503
    <3>1. body \notin CleanData
      BY <2>2 DEF CleanData
    <3>2. body # <<>>
      BY <2>2
    <3>3. body = Plain(503) /\ sent.status = 503
      BY <2>1, <3>1, <3>2 DEF Progress
    <3>4. QED
      BY <3>3 DEF Plain
  <2>3. ASSUME Late
        PROVE  /\ sent.status = 503 /\ StatusCode = 503
               /\ ~sent.encoded /\ ~sent.length => Whole /\ Decoded = << 503 >>
    <3>1. "timeout" \in enabled
      BY <2>3 DEF AloneInv, Late
    <3>2. Left
      BY <2>3, Positions DEF CountInv, Ended, Left, Over, Past, Late
    <3>3. c.status = 503 /\ Progress(503, {"server"}) /\ calls = <<>>
      BY <2>3, <3>1, <3>2 DEF AloneInv, TooLate, Ended, Late
    <3>4. sent.status = 503 /\ (~sent.length => body = Plain(503))
      BY <3>3 DEF Progress
    <3>5. ASSUME ~sent.encoded, ~sent.length
          PROVE  Whole /\ Decoded = << 503 >>
      <4>1. Len(body) = 1 /\ body[1].as = "plain" /\ body[1].id = 503
        BY <3>4, <3>5 DEF Plain
      <4>2. Coherent
        BY <3>5, <4>1 DEF Coherent
      <4>3. Decoded = << 503 >>
        BY <4>1 DEF Decoded
      <4>4. QED
        BY <3>5, <4>2, <4>3 DEF Whole
    <3>6. QED
      BY <3>3, <3>4, <3>5 DEF StatusCode
  <2>4. QED
    BY <2>2, <2>3
<1>2. QED
  BY <1>1, AloneInvariant, PTL

=============================================================================
