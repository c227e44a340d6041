---------------------------- MODULE ResponsePath ----------------------------
(***************************************************************************)
(* One request on its way through the middleware that touches the answer:  *)
(* recovery, timeout, gzip, metrics and access log (middleware/*.go, in    *)
(* the order of Server.registerBuiltinMiddleware), the handler, and the    *)
(* response half of Context (internal/core).  Each of timeout, gzip and    *)
(* access log puts a writer of its own in the Context and restores the one *)
(* it found, unless a panic unwinds it.                                    *)
(*                                                                         *)
(* One action is one call of a writer, or one entry or exit of a           *)
(* middleware, because the deadline may pass between any two of them.      *)
(* What is written is a sequence of tokens: which write it came from, and  *)
(* whether it went through the compressor.  Statuses are 200, 404 for any  *)
(* other a handler sends, and those of the middleware.  Limits, CORS and   *)
(* the router are left out: what they answer a handler may answer, through *)
(* the Context (429, 413, a preflight, the default 404) or past it (the    *)
(* router's 301 and 204, static files).                                    *)
(***************************************************************************)
EXTENDS Integers, Sequences

CONSTANTS
    LayerSets,  \* the combinations of middleware an application may install
    OpSets,     \* the habits of its handlers: sets of HandlerOps
    MaxWrites,  \* bound on the writes of a handler
    MinSize     \* GzipOptions.MinSize, in writes

Layers == {"recovery", "timeout", "gzip", "metrics", "access_log"}
Wrappers == {"timeout", "gzip", "access_log"}
HandlerOps == {"respond", "status", "file", "direct", "write", "raw", "flush",
               "panic"}

ASSUME LayerSetsAssumption == LayerSets \subseteq SUBSET Layers
ASSUME OpSetsAssumption == OpSets \subseteq SUBSET HandlerOps
ASSUME MaxWritesAssumption == MaxWrites \in 1 .. 499
ASSUME MinSizeAssumption == MinSize \in Nat \ {0}

VARIABLES
    enabled,   \* the middleware installed (gzip: and accepted by the client)
    ops,       \* what the handler of this request does
    at, mode,  \* the frame that runs, and whether it is entered or left
    calls,     \* the writer calls it has still to make
    writer,    \* Context.writer
    orig,      \* the local variable orig (origWriter) of each wrapper
    c,         \* Context.wrote and status
    deadline,  \* the context the timeout middleware makes
    tw, gw,    \* the fields of timeoutWriter and gzipWriter
    header,    \* the response headers that matter, shared by all writers
    sent,      \* what net/http has committed: status and headers
    body,      \* the tokens it has accepted
    written,   \* what the handler wrote
    direct,    \* the status it gave past the Context (0: none)
    panics,    \* Metrics.panics
    m,         \* the other counters of Metrics this request touches
    logged     \* the statuses access log has recorded

fixedVars  == <<enabled, ops>>
saidVars   == <<written, direct>>
frameVars  == <<fixedVars, at, mode>>
writerVars == <<writer, orig, tw, gw, deadline>>
netVars    == <<sent, body>>
recordVars == <<panics, m, logged>>
vars == <<frameVars, calls, writerVars, c, header, netVars, saidVars,
          recordVars>>

-----------------------------------------------------------------------------
Position == [server |-> 0, recovery |-> 1, timeout |-> 2, gzip |-> 3,
             metrics |-> 4, access_log |-> 5, handler |-> 6]

Frames == enabled \cup {"server", "handler"}

Inner(l) == CHOOSE f \in Frames :
    /\ Position[f] > Position[l]
    /\ \A g \in Frames : Position[g] > Position[l] => Position[f] <= Position[g]

Outer(l) == CHOOSE f \in Frames :
    /\ Position[f] < Position[l]
    /\ \A g \in Frames : Position[g] < Position[l] => Position[g] <= Position[f]

\* Tokens: the write they come from (an answer of a middleware: its status),
\* and what became of it; the last token of a compressed stream is End.
Plain(id) == <<[id |-> id, as |-> "plain"]>>
Packed(data) == [i \in DOMAIN data |-> [data[i] EXCEPT !.as = "packed"]]
End == <<[id |-> 0, as |-> "end"]>>

HeaderCall(w, code) == [to |-> w, op |-> "header", code |-> code, data |-> <<>>]
WriteCall(w, data)  == [to |-> w, op |-> "write", code |-> 0, data |-> data]
FlushCall(w)        == [to |-> w, op |-> "flush", code |-> 0, data |-> <<>>]
CloseCall(w)        == [to |-> w, op |-> "close", code |-> 0, data |-> <<>>]

StatusCode == IF c.status = 0 THEN 200 ELSE c.status

\* The status the handler asked for, which the Context may not know.
Asked == IF direct # 0 THEN direct ELSE StatusCode

\* Context.JSONResponse and String: the header once, and the body.
Answer(w, wrote, code, id) ==
    IF wrote THEN <<WriteCall(w, Plain(id))>>
    ELSE <<HeaderCall(w, code), WriteCall(w, Plain(id))>>

Init ==
    /\ enabled \in LayerSets /\ ops \in OpSets
    /\ at = "server" /\ mode = "down" /\ calls = <<>>
    /\ writer = "server" /\ orig = [w \in Wrappers |-> "server"]
    /\ c = [wrote |-> FALSE, status |-> 0]
    /\ deadline = "none"
    /\ tw = [timedOut |-> FALSE, wroteHeader |-> FALSE]
    /\ gw = [wroteHead |-> FALSE, started |-> FALSE, decided |-> FALSE,
             compress |-> FALSE, buf |-> <<>>, pending |-> <<>>]
    /\ header = [type |-> "none", encoded |-> FALSE, length |-> FALSE]
    /\ sent = [status |-> 0, encoded |-> FALSE, length |-> FALSE, over |-> FALSE]
    /\ body = <<>> /\ written = <<>> /\ direct = 0
    /\ panics = 0 /\ m = [requests |-> 0, inFlight |-> 0, statuses |-> <<>>]
    /\ logged = <<>>

-----------------------------------------------------------------------------
(* Plausible bugs: variants of actions below with one mistake each, used by *)
(* no specification (README, Mutants).                                     *)

\* timeoutWriter.Write without the look at the context.
ToTimeoutUnchecked ==
    LET call == Head(calls) IN
    /\ calls # <<>> /\ call.to = "timeout" /\ call.op \in {"header", "write"}
    /\ IF deadline \in {"passed", "cancelled"} /\ call.op = "header"
       THEN /\ tw' = [tw EXCEPT !.timedOut = TRUE]
            /\ calls' = Tail(calls)
       ELSE /\ tw' = [tw EXCEPT !.wroteHeader = @ \/ call.op = "header"]
            /\ calls' = <<[call EXCEPT !.to = "server"]>> \o Tail(calls)
    /\ UNCHANGED <<frameVars, writer, orig, gw, deadline, c, header, netVars,
                   saidVars, recordVars>>

\* gzipWriter.Close that forgets the small answer it has kept.
GzipCloseForgets ==
    /\ calls # <<>> /\ Head(calls).to = "gzip" /\ Head(calls).op = "close"
    /\ calls' = IF gw.started
                THEN <<WriteCall(orig["gzip"], Packed(gw.pending) \o End)>>
                ELSE <<>>
    /\ gw' = [gw EXCEPT !.pending = <<>>]
    /\ UNCHANGED <<frameVars, writer, orig, tw, deadline, c, header, netVars,
                   saidVars, recordVars>>

\* The class is chosen by the status field, which is 0 for an implicit 200.
LeaveMetricsRaw ==
    /\ at = "metrics" /\ mode = "up" /\ calls = <<>>
    /\ m' = [m EXCEPT !.inFlight = @ - 1, !.statuses = Append(@, c.status)]
    /\ at' = Outer("metrics")
    /\ UNCHANGED <<fixedVars, mode, calls, writerVars, c, header, netVars,
                   saidVars, panics, logged>>

\* Counting after ServeHTTP and not in a deferred function.
UnwindMetricsForgets ==
    /\ at = "metrics" /\ mode = "panic" /\ calls = <<>>
    /\ at' = Outer("metrics")
    /\ UNCHANGED <<fixedVars, mode, calls, writerVars, c, header, netVars,
                   saidVars, recordVars>>

\* ResetWriteState forgotten: the Context believes its header is sent.
LeaveTimeoutNoReset ==
    /\ at = "timeout" /\ mode = "up" /\ calls = <<>>
    /\ writer' = orig["timeout"]
    /\ IF tw.timedOut /\ ~tw.wroteHeader
       THEN calls' = Answer(orig["timeout"], c.wrote, 503, 503)
       ELSE UNCHANGED calls
    /\ deadline' = IF deadline = "live" THEN "cancelled" ELSE deadline
    /\ at' = Outer("timeout")
    /\ UNCHANGED <<fixedVars, mode, orig, tw, gw, c, header, netVars, saidVars,
                   recordVars>>

\* The body of the answer without its status.
RecoverNoStatus ==
    /\ at = "recovery" /\ mode = "panic" /\ calls = <<>>
    /\ panics' = panics + 1
    /\ header' = [header EXCEPT !.type = "text"]
    /\ c' = [wrote |-> TRUE, status |-> IF c.wrote THEN c.status ELSE 500]
    /\ calls' = <<WriteCall(writer, Plain(500))>>
    /\ at' = Outer("recovery") /\ mode' = "up"
    /\ UNCHANGED <<fixedVars, writerVars, netVars, saidVars, m, logged>>

-----------------------------------------------------------------------------
(* On the way in.                                                          *)

Entering(l) == at = l /\ mode = "down" /\ calls = <<>>

\* injectContext and recovery only call on.
PassOn ==
    /\ Entering("server") \/ Entering("recovery")
    /\ at' = Inner(at)
    /\ UNCHANGED <<fixedVars, mode, calls, writerVars, c, header, netVars,
                   saidVars, recordVars>>

Install(w) == orig' = [orig EXCEPT ![w] = writer] /\ writer' = w

EnterTimeout ==
    /\ Entering("timeout")
    /\ Install("timeout")
    /\ deadline' = "live"
    /\ at' = Inner("timeout")
    /\ UNCHANGED <<fixedVars, mode, calls, tw, gw, c, header, netVars, saidVars,
                   recordVars>>

EnterGzip ==
    /\ Entering("gzip")
    /\ Install("gzip")
    /\ at' = Inner("gzip")
    /\ UNCHANGED <<fixedVars, mode, calls, tw, gw, deadline, c, header, netVars,
                   saidVars, recordVars>>

EnterMetrics ==
    /\ Entering("metrics")
    /\ m' = [m EXCEPT !.requests = @ + 1, !.inFlight = @ + 1]
    /\ at' = Inner("metrics")
    /\ UNCHANGED <<fixedVars, mode, calls, writerVars, c, header, netVars,
                   saidVars, panics, logged>>

EnterAccessLog ==
    /\ Entering("access_log")
    /\ Install("access_log")
    /\ at' = Inner("access_log")
    /\ UNCHANGED <<fixedVars, mode, calls, tw, gw, deadline, c, header, netVars,
                   saidVars, recordVars>>

\* The deadline may pass at any moment.
Expire ==
    /\ deadline = "live"
    /\ deadline' = "passed"
    /\ UNCHANGED <<frameVars, calls, writer, orig, tw, gw, c, header, netVars,
                   saidVars, recordVars>>

Expired == deadline \in {"passed", "cancelled"}

-----------------------------------------------------------------------------
(* The handler.  It answers once: it sets a status or a file only when it  *)
(* has written nothing, and writes nothing to a file, as net/http asks of  *)
(* it.  Past the Context answer static files, the router itself, and every *)
(* http.Handler that is wrapped.                                           *)

Handling == Entering("handler")
Unanswered == ~c.wrote /\ written = <<>> /\ direct = 0

\* Context.JSON, String, Success, JSONResponse, Redirect.
Respond(code) ==
    /\ Handling /\ "respond" \in ops /\ Unanswered
    /\ header' = [header EXCEPT !.type = "text"]
    /\ c' = [wrote |-> TRUE, status |-> code]
    /\ calls' = Answer(writer, c.wrote, code, 1)
    /\ written' = <<1>>
    /\ UNCHANGED <<frameVars, writerVars, netVars, direct, recordVars>>

\* Context.Status, with or without a content type set before it.
SetStatus(code, type) ==
    /\ Handling /\ "status" \in ops /\ Unanswered
    /\ header' = [header EXCEPT !.type = type]
    /\ c' = [wrote |-> TRUE, status |-> code]
    /\ calls' = <<HeaderCall(writer, code)>>
    /\ UNCHANGED <<frameVars, writerVars, netVars, saidVars, recordVars>>

\* http.ServeContent sets Content-Length, for nothing says yet that the content
\* is encoded.
ServeContent(type) ==
    /\ header' = [header EXCEPT !.type = type, !.length = ~header.encoded]
    /\ calls' = <<HeaderCall(writer, 200), WriteCall(writer, Plain(1))>>
    /\ written' = <<1>>
    /\ UNCHANGED <<frameVars, writerVars, netVars, recordVars>>

\* Context.File of a file that is there.
File(type) ==
    /\ Handling /\ "file" \in ops /\ Unanswered
    /\ ServeContent(type)
    /\ c' = [wrote |-> TRUE, status |-> 200]
    /\ UNCHANGED direct

\* A static file, or a wrapped handler that serves one.
DirectFile(type) ==
    /\ Handling /\ "direct" \in ops /\ Unanswered
    /\ ServeContent(type)
    /\ direct' = 200
    /\ UNCHANGED c

\* WriteHeader of the writer itself: the router's 301 and 204, the 404, 301 and
\* 304 of a static file, a wrapped handler.
DirectStatus(code, type) ==
    /\ Handling /\ "direct" \in ops /\ Unanswered
    /\ header' = [header EXCEPT !.type = type]
    /\ direct' = code
    /\ calls' = <<HeaderCall(writer, code)>>
    /\ UNCHANGED <<frameVars, writerVars, c, netVars, written, recordVars>>

\* Context.Writer().Write, after a status or without one.
Write ==
    /\ Handling /\ Len(written) < MaxWrites /\ ~header.length
    /\ "raw" \in ops \/ ("write" \in ops /\ ~Unanswered)
    /\ LET id == Len(written) + 1 IN
       /\ calls' = <<WriteCall(writer, Plain(id))>>
       /\ written' = Append(written, id)
    /\ UNCHANGED <<frameVars, writerVars, c, header, netVars, direct, recordVars>>

\* http.ResponseController.Flush on Context.Writer().
Flush ==
    /\ Handling /\ "flush" \in ops /\ ~Unanswered
    /\ calls' = <<FlushCall(writer)>>
    /\ UNCHANGED <<frameVars, writerVars, c, header, netVars, saidVars,
                   recordVars>>

Panic ==
    /\ Handling /\ "panic" \in ops
    /\ mode' = "panic" /\ at' = Outer("handler")
    /\ UNCHANGED <<fixedVars, calls, writerVars, c, header, netVars, saidVars,
                   recordVars>>

Return ==
    /\ Handling
    /\ mode' = "up" /\ at' = Outer("handler")
    /\ UNCHANGED <<fixedVars, calls, writerVars, c, header, netVars, saidVars,
                   recordVars>>

-----------------------------------------------------------------------------
(* The writers.                                                            *)

Calling(w, kinds) ==
    calls # <<>> /\ Head(calls).to = w /\ Head(calls).op \in kinds
Call == Head(calls)

\* net/http: the first header is committed, also by a write or a flush.
Commit(code) ==
    IF sent.status # 0 THEN sent
    ELSE [status |-> code, encoded |-> header.encoded, length |-> header.length,
          over |-> FALSE]

\* The file that a Content-Length was taken from is as long as it says, anything
\* else shorter or longer.
Fits == Call.data = <<>> \/ (body = <<>> /\ Call.data = Plain(1))

\* net/http refuses a write beyond the Content-Length, and all that follow.
Receive ==
    LET first == Commit(IF Call.op = "header" THEN Call.code ELSE 200) IN
    \/ /\ first.length => Fits \/ (~first.over /\ body # Plain(1))
       /\ sent' = first
       /\ body' = body \o Call.data
    \/ /\ first.length /\ ~Fits
       /\ sent' = [first EXCEPT !.over = TRUE]
       /\ UNCHANGED body

ToServer ==
    /\ Calling("server", {"header", "write", "flush"})
    /\ Receive
    /\ calls' = Tail(calls)
    /\ UNCHANGED <<frameVars, writerVars, c, header, saidVars, recordVars>>

\* countingWriter passes everything on (Flush by Unwrap).
ToAccessLog ==
    /\ Calling("access_log", {"header", "write", "flush"})
    /\ calls' = <<[Call EXCEPT !.to = orig["access_log"]]>> \o Tail(calls)
    /\ UNCHANGED <<frameVars, writerVars, c, header, netVars, saidVars,
                   recordVars>>

\* timeoutWriter.WriteHeader and Write: dropped when the context is done.
ToTimeout ==
    /\ Calling("timeout", {"header", "write"})
    /\ IF Expired
       THEN /\ tw' = [tw EXCEPT !.timedOut = TRUE]
            /\ UNCHANGED netVars
       ELSE /\ tw' = [tw EXCEPT !.wroteHeader = @ \/ Call.op = "header"]
            /\ Receive
    /\ calls' = Tail(calls)
    /\ UNCHANGED <<frameVars, writer, orig, gw, deadline, c, header, saidVars,
                   recordVars>>

\* timeoutWriter has no Flush: ResponseController unwraps it.
FlushTimeout ==
    /\ Calling("timeout", {"flush"})
    /\ calls' = <<FlushCall(orig["timeout"])>> \o Tail(calls)
    /\ UNCHANGED <<frameVars, writerVars, c, header, netVars, saidVars,
                   recordVars>>

\* gzipWriter.compressible: decided once, by the content type.
Compressible == IF gw.decided THEN gw.compress ELSE header.type # "binary"

Decided == [gw EXCEPT !.decided = TRUE, !.compress = Compressible]

\* gzipWriter.WriteHeader.
GzipHeader ==
    /\ Calling("gzip", {"header"})
    /\ IF gw.wroteHead
       THEN calls' = Tail(calls) /\ UNCHANGED <<gw, header>>
       ELSE /\ gw' = [Decided EXCEPT !.wroteHead = TRUE,
                                     !.started = Compressible]
            /\ header' = [header EXCEPT !.encoded = Compressible]
            /\ calls' = <<HeaderCall(orig["gzip"], Call.code)>> \o Tail(calls)
    /\ UNCHANGED <<frameVars, writer, orig, tw, deadline, c, netVars, saidVars,
                   recordVars>>

\* gzipWriter.Write of what is not worth compressing.
GzipPass ==
    /\ Calling("gzip", {"write"}) /\ ~Compressible
    /\ gw' = Decided
    /\ calls' = <<WriteCall(orig["gzip"], Call.data)>> \o Tail(calls)
    /\ UNCHANGED <<frameVars, writer, orig, tw, deadline, c, header, netVars,
                   saidVars, recordVars>>

\* gzipWriter.Write before the compressor is started: small answers wait.
GzipBuffer ==
    /\ Calling("gzip", {"write"}) /\ Compressible /\ ~gw.started
    /\ Len(gw.buf \o Call.data) < MinSize \/ gw.wroteHead
    /\ gw' = [Decided EXCEPT !.buf = @ \o Call.data]
    /\ calls' = Tail(calls)
    /\ UNCHANGED <<frameVars, writer, orig, tw, deadline, c, header, netVars,
                   saidVars, recordVars>>

\* gzipWriter.startGzip with the data collected so far.
Start(data, more) ==
    /\ header' = [header EXCEPT !.encoded = TRUE]
    /\ calls' = <<HeaderCall(orig["gzip"], 200)>> \o more \o Tail(calls)
    /\ gw' = [Decided EXCEPT !.wroteHead = TRUE, !.started = TRUE,
                             !.buf = <<>>, !.pending = data]

\* gzip.Writer passes on compressed data when it chooses to.
Emit(data) == <<WriteCall(orig["gzip"], Packed(data))>>

\* gzipWriter.Write that reaches MinSize.
GzipStart ==
    /\ Calling("gzip", {"write"}) /\ Compressible /\ ~gw.started
    /\ Len(gw.buf \o Call.data) >= MinSize /\ ~gw.wroteHead
    /\ LET all == gw.buf \o Call.data IN
       Start(all, <<>>) \/ Start(<<>>, Emit(all))
    /\ UNCHANGED <<frameVars, writer, orig, tw, deadline, c, netVars, saidVars,
                   recordVars>>

\* gzipWriter.Write to a compressor that is started.
GzipWrite ==
    /\ Calling("gzip", {"write"}) /\ Compressible /\ gw.started
    /\ LET all == gw.pending \o Call.data IN
       \/ /\ gw' = [gw EXCEPT !.pending = all]
          /\ calls' = Tail(calls)
       \/ /\ gw' = [gw EXCEPT !.pending = <<>>]
          /\ calls' = Emit(all) \o Tail(calls)
    /\ UNCHANGED <<frameVars, writer, orig, tw, deadline, c, header, netVars,
                   saidVars, recordVars>>

\* gzipWriter.Flush: the compressor is flushed, the writer below is not.
GzipFlush ==
    /\ Calling("gzip", {"flush"})
    /\ \/ /\ ~gw.started /\ gw.buf # <<>> /\ ~gw.wroteHead
          /\ Start(<<>>, Emit(gw.buf))
       \/ /\ gw.started
          /\ gw' = [gw EXCEPT !.pending = <<>>]
          /\ calls' = Emit(gw.pending) \o Tail(calls)
          /\ UNCHANGED header
       \/ /\ ~gw.started /\ (gw.buf = <<>> \/ gw.wroteHead)
          /\ calls' = Tail(calls)
          /\ UNCHANGED <<gw, header>>
    /\ UNCHANGED <<frameVars, writer, orig, tw, deadline, c, netVars, saidVars,
                   recordVars>>

\* gzipWriter.Close: the end of the stream, or the small answer as it is.
GzipClose ==
    /\ Calling("gzip", {"close"})
    /\ \/ /\ gw.started
          /\ gw' = [gw EXCEPT !.pending = <<>>]
          /\ calls' = <<WriteCall(orig["gzip"], Packed(gw.pending) \o End)>>
          /\ UNCHANGED header
       \/ /\ ~gw.started /\ gw.buf # <<>>
          /\ gw' = [gw EXCEPT !.buf = <<>>]
          /\ calls' = <<WriteCall(orig["gzip"], gw.buf)>>
          /\ header' = [header EXCEPT !.encoded = FALSE]
       \/ /\ ~gw.started /\ gw.buf = <<>>
          /\ calls' = <<>>
          /\ UNCHANGED <<gw, header>>
    /\ UNCHANGED <<frameVars, writer, orig, tw, deadline, c, netVars, saidVars,
                   recordVars>>

-----------------------------------------------------------------------------
(* On the way out.                                                         *)

Leaving(l) == at = l /\ mode = "up" /\ calls = <<>>
Unwinding(l) == at = l /\ mode = "panic" /\ calls = <<>>

LeaveAccessLog ==
    /\ Leaving("access_log")
    /\ writer' = orig["access_log"]
    /\ logged' = Append(logged, StatusCode)
    /\ at' = Outer("access_log")
    /\ UNCHANGED <<fixedVars, mode, calls, orig, tw, gw, deadline, c, header,
                   netVars, saidVars, panics, m>>

LeaveMetrics ==
    /\ Leaving("metrics")
    /\ m' = [m EXCEPT !.inFlight = @ - 1, !.statuses = Append(@, StatusCode)]
    /\ at' = Outer("metrics")
    /\ UNCHANGED <<fixedVars, mode, calls, writerVars, c, header, netVars,
                   saidVars, panics, logged>>

\* The deferred function of MetricsHandler counts a 500 and panics again.
UnwindMetrics ==
    /\ Unwinding("metrics")
    /\ m' = [m EXCEPT !.inFlight = @ - 1, !.statuses = Append(@, 500)]
    /\ at' = Outer("metrics")
    /\ UNCHANGED <<fixedVars, mode, calls, writerVars, c, header, netVars,
                   saidVars, panics, logged>>

CloseGzip ==
    /\ Leaving("gzip")
    /\ calls' = <<CloseCall("gzip")>>
    /\ mode' = "closing"
    /\ UNCHANGED <<fixedVars, at, writerVars, c, header, netVars, saidVars,
                   recordVars>>

LeaveGzip ==
    /\ at = "gzip" /\ mode = "closing" /\ calls = <<>>
    /\ writer' = orig["gzip"]
    /\ at' = Outer("gzip") /\ mode' = "up"
    /\ UNCHANGED <<fixedVars, calls, orig, tw, gw, deadline, c, header, netVars,
                   saidVars, recordVars>>

\* Neither access log nor gzip defers anything.
UnwindWriter ==
    /\ Unwinding("access_log") \/ Unwinding("gzip")
    /\ at' = Outer(at)
    /\ UNCHANGED <<fixedVars, mode, calls, writerVars, c, header, netVars,
                   saidVars, recordVars>>

\* cancel is deferred.
Cancel == deadline' = IF deadline = "live" THEN "cancelled" ELSE deadline

\* A handler that wrote too late, and nothing in time, is answered with 503.
LeaveTimeout ==
    /\ Leaving("timeout")
    /\ writer' = orig["timeout"]
    /\ IF tw.timedOut /\ ~tw.wroteHeader
       THEN /\ header' = [header EXCEPT !.type = "text"]
            /\ c' = [wrote |-> TRUE, status |-> 503]
            /\ calls' = Answer(orig["timeout"], FALSE, 503, 503)
       ELSE UNCHANGED <<header, c, calls>>
    /\ Cancel
    /\ at' = Outer("timeout")
    /\ UNCHANGED <<fixedVars, mode, orig, tw, gw, netVars, saidVars, recordVars>>

UnwindTimeout ==
    /\ Unwinding("timeout")
    /\ Cancel
    /\ at' = Outer("timeout")
    /\ UNCHANGED <<fixedVars, mode, calls, writer, orig, tw, gw, c, header,
                   netVars, saidVars, recordVars>>

LeaveRecovery ==
    /\ Leaving("recovery")
    /\ at' = Outer("recovery")
    /\ UNCHANGED <<fixedVars, mode, calls, writerVars, c, header, netVars,
                   saidVars, recordVars>>

\* The answer to a panic goes through the writer the Context holds by then.
Recover ==
    /\ Unwinding("recovery")
    /\ panics' = panics + 1
    /\ header' = [header EXCEPT !.type = "text"]
    /\ c' = [wrote |-> TRUE, status |-> IF c.wrote THEN c.status ELSE 500]
    /\ calls' = Answer(writer, c.wrote, 500, 500)
    /\ at' = Outer("recovery") /\ mode' = "up"
    /\ UNCHANGED <<fixedVars, writerVars, netVars, saidVars, m, logged>>

\* net/http ends the response, with 200 if nobody has said anything.
Finish ==
    /\ Leaving("server")
    /\ mode' = "end"
    /\ sent' = Commit(200)
    /\ UNCHANGED <<fixedVars, at, calls, writerVars, c, header, body,
                   saidVars, recordVars>>

\* Without recovery net/http closes the connection.
Abort ==
    /\ Unwinding("server")
    /\ mode' = "aborted"
    /\ UNCHANGED <<fixedVars, at, calls, writerVars, c, header, netVars, saidVars,
                   recordVars>>

Handler ==
    \/ \E code \in {200, 404} :
          \/ Respond(code)
          \/ \E type \in {"none", "text", "binary"} :
                SetStatus(code, type) \/ DirectStatus(code, type)
    \/ \E type \in {"text", "binary"} : File(type) \/ DirectFile(type)
    \/ Write \/ Flush \/ Panic \/ Return

Writers ==
    \/ ToServer \/ ToAccessLog \/ ToTimeout \/ FlushTimeout
    \/ GzipHeader \/ GzipPass \/ GzipBuffer \/ GzipStart \/ GzipWrite
    \/ GzipFlush \/ GzipClose

Middleware ==
    \/ PassOn \/ EnterTimeout \/ EnterGzip \/ EnterMetrics \/ EnterAccessLog
    \/ LeaveAccessLog \/ LeaveMetrics \/ UnwindMetrics \/ CloseGzip
    \/ LeaveGzip \/ UnwindWriter \/ LeaveTimeout \/ UnwindTimeout
    \/ LeaveRecovery \/ Recover \/ Finish \/ Abort

Next == Expire \/ Handler \/ Writers \/ Middleware

Spec == Init /\ [][Next]_vars

-----------------------------------------------------------------------------
(* Properties.                                                             *)

Codes == {200, 404, 500, 503}
Token == [id : 0 .. MaxWrites \cup {500, 503}, as : {"plain", "packed", "end"}]
Data == Seq(Token)
Sink == Wrappers \cup {"server"}
WriterCall == [to : Sink, op : {"header", "write", "flush", "close"},
               code : Codes \cup {0}, data : Data]

Header == [type : {"none", "text", "binary"}, encoded : BOOLEAN,
           length : BOOLEAN]
Sent == [status : Codes \cup {0}, encoded : BOOLEAN, length : BOOLEAN,
         over : BOOLEAN]
GzipWriter == [wroteHead : BOOLEAN, started : BOOLEAN, decided : BOOLEAN,
               compress : BOOLEAN, buf : Data, pending : Data]

TypeOK ==
    /\ enabled \in SUBSET Layers /\ ops \in SUBSET HandlerOps
    /\ at \in Frames
    /\ mode \in {"down", "up", "closing", "panic", "end", "aborted"}
    /\ calls \in Seq(WriterCall)
    /\ writer \in Sink /\ orig \in [Wrappers -> Sink]
    /\ c \in [wrote : BOOLEAN, status : Codes \cup {0}]
    /\ deadline \in {"none", "live", "passed", "cancelled"}
    /\ tw \in [timedOut : BOOLEAN, wroteHeader : BOOLEAN]
    /\ gw \in GzipWriter
    /\ header \in Header
    /\ sent \in Sent
    /\ body \in Data
    /\ written \in Seq(1 .. MaxWrites) /\ direct \in Codes \cup {0}
    /\ panics \in Nat
    /\ m \in [requests : Nat, inFlight : Int, statuses : Seq(Codes)]
    /\ logged \in Seq(Codes)

Ended == mode = "end"

\* What the client reads: the tokens but the end of a compressed stream.
Decoded ==
    LET n == Len(body)
        content == IF n > 0 /\ body[n].as = "end" THEN n - 1 ELSE n
    IN  [i \in 1 .. content |-> body[i].id]

\* The body is what the Content-Encoding that was sent says, to its end,
Coherent ==
    LET n == Len(body) IN
    IF sent.encoded
    THEN n > 0 /\ body[n].as = "end"
               /\ \A i \in 1 .. n - 1 : body[i].as = "packed"
    ELSE \A i \in 1 .. n : body[i].as = "plain"

\* and as long as the Content-Length says.
Whole == Coherent /\ (sent.length => body = Plain(1))

\* The compressor works on what ServeContent has declared the length of.
Misfit == header.length /\ gw.started

\* A request that ends without a panic and before its deadline is answered
\* with the status its handler gave and with what it wrote, in that order, each
\* write once, in the encoding and of the length the headers name, whatever
\* middleware is installed and however the handler writes (gzipWriter,
\* timeoutWriter, countingWriter).  Of a file that gzip compresses the status
\* alone is promised: gzipWriter leaves the Content-Length of the file where it
\* is, so that the body is cut or falls short (README, Findings).
AnswerIsWhatWasWritten ==
    Ended /\ panics = 0 /\ deadline # "passed" =>
        /\ sent.status = Asked
        /\ ~Misfit => Whole /\ Decoded = written

\* Metrics and the access log record the status that was sent if the handler
\* sent it through the Context, its deadline did not pass and it did not panic
\* (Context.StatusCode).  They are wrong about an answer past the Context, which
\* they take for a 200, and about one that the timeout middleware replaces after
\* them (README, Findings).  However a request ends, metrics have counted it once,
\* in one class, and no longer count it as active; one that panicked is counted as
\* a 500 (the deferred function of MetricsHandler, and recovery).
RecordsAreHonest ==
    /\ Ended /\ panics = 0 /\ deadline # "passed" /\ direct = 0 =>
          /\ "metrics" \in enabled => m.statuses = <<sent.status>>
          /\ "access_log" \in enabled => logged = <<sent.status>>
    /\ mode \in {"end", "aborted"} /\ "metrics" \in enabled =>
          /\ m.requests = 1 /\ m.inFlight = 0 /\ Len(m.statuses) = 1
          /\ panics > 0 \/ mode = "aborted" => m.statuses = <<500>>

\* Once the deadline has passed, or the context is cancelled, no byte of the
\* handler reaches the client any more, however it writes, flushes, returns or
\* panics: only the 503 of the timeout middleware does (timeoutWriter).
DeafAfterDeadline ==
    [][Expired => body' \in {body, body \o Plain(503)}]_vars

\* The handler sends a status before it writes, and does not flush.
Orderly == ops \cap {"raw", "flush"} = {}

\* An orderly handler that began to write after its deadline, and nothing before.
Late == Orderly /\ Ended /\ tw.timedOut /\ ~tw.wroteHeader /\ panics = 0

\* An orderly handler never shares an answer with the timeout middleware: the
\* 503 is the whole body or no part of it; and one that begins to write after its
\* deadline is answered for: the client gets a 503, and the Context knows it
\* (timeoutWriter.wroteHeader, ResetWriteState).  The client can read it if the
\* answer it replaces left neither Content-Encoding nor Content-Length behind;
\* neither is reset, so that after a gzip stream or a file it cannot (README,
\* Findings).
TimeoutAnswersAlone ==
    /\ Orderly => \A i \in DOMAIN body :
          body[i].id = 503 => Len(body) = 1 /\ sent.status = 503
    /\ Late =>
          /\ sent.status = 503 /\ StatusCode = 503
          /\ ~sent.encoded /\ ~sent.length => Whole /\ Decoded = <<503>>

\* A panic that nothing was written before is answered with a readable 500,
\* however deep in the middleware it happens (RecoveryWithOptions): what the tests
\* say and the code does not do (README, Findings).
PanicGets500 ==
    Ended /\ c.status = 500 /\ written = <<>> /\ direct = 0 =>
        sent.status = 500 /\ Whole /\ Decoded = <<500>>

\* So it is where no middleware has left a writer with a will of its own in
\* the Context; the counting writer of the access log may stay (SetWriter).
PanicAnswered == enabled \cap {"timeout", "gzip"} = {} => PanicGets500

=============================================================================
