----------------------------- MODULE Integrations -----------------------------
(***************************************************************************)
(* The wrappers that record what runs through them: the ASGI middleware    *)
(* (integrations/fastapi.py), the wrappers of LangChain, PyTorch, Keras    *)
(* and Transformers, and the recorder below all of them                    *)
(* (integrations/_common.py).                                              *)
(*                                                                         *)
(* External: the application between the middleware and the client, the    *)
(* wrapped callables, and the sink, which may be asynchronous or raise.    *)
(*                                                                         *)
(* Abstracted: a body is the numbers of its bytes; headers, metadata and   *)
(* times; the hash is its canonical JSON, of values without nesting.       *)
(***************************************************************************)
EXTENDS Integers, Sequences, SequencesExt, FiniteSets

CONSTANTS
  MaxBody,      \* bound on the bytes of a response, and of a request
  MaxCapture,   \* max_capture_bytes
  Tellers,      \* coroutines or threads that share one wrapped callable
  Values,       \* arguments: atoms, bytes, lists, tuples, sets, mappings
  Unset

WrappedCall == [way : {"invoke", "ainvoke", "forward"}, input : Values,
                at : {"calls", "awaits", "returned", "raised"}, failed : BOOLEAN]

ASSUME IntegrationAssumption ==
  MaxBody \in Nat /\ MaxCapture \in Nat /\ Unset \notin WrappedCall

VARIABLES
  web,          \* one request and its response
  sink,         \* none, sync or async
  envelopes,    \* what the sink got
  call,         \* what each teller is about
  lastVerified  \* last_verification of the wrapper

integrationVars == <<web, sink, envelopes, call, lastVerified>>
recorderVars == <<envelopes, call, lastVerified>>

\* _normalize_for_hash() and the JSON of it: lists and tuples, and bytes and a
\* mapping that says so, are alike; so are keys that print alike.
Normalize(v) ==
  CASE v.kind = "atom"              -> [json |-> "atom", of |-> <<v.of>>]
    [] v.kind = "bytes"             -> [json |-> "map", of |-> <<"__bytes__", v.of>>]
    [] v.kind \in {"list", "tuple"} -> [json |-> "list", of |-> v.of]
    [] v.kind = "set"               -> [json |-> "list", of |-> SetToSortSeq(v.of, <)]
    [] v.kind = "map"               -> [json |-> "map", of |-> v.of]

\* Whether a scope is processed: of HTTP, included if there is a list, and not excluded.
ShouldProcess ==
  {http /\ (hasIncludes => included) /\ ~excluded :
     http, hasIncludes, included, excluded \in BOOLEAN}

IntegrationInit ==
  /\ \E processed \in ShouldProcess :
       web = [processed |-> processed,
              read |-> 0, captured |-> 0, requestTruncated |-> FALSE,
              sent |-> <<>>, start |-> "none", buffered |-> <<>>, streamed |-> FALSE,
              emitted |-> Unset, ended |-> FALSE,
              client |-> [started |-> FALSE, bytes |-> <<>>, ended |-> FALSE]]
  /\ sink \in {"none", "sync", "async"}
  /\ envelopes = {} /\ lastVerified = Unset
  /\ call = [t \in Tellers |-> Unset]
-----------------------------------------------------------------------------
(* The middleware.  The client is told of a start, of bytes, and of the end. *)

\* wrapped_receive(): a chunk of n bytes of the request.
AppReceives(n) ==
  LET remaining == MaxCapture - web.captured IN
  /\ web.processed /\ ~web.ended /\ web.read + n <= MaxBody
  /\ web' = [web EXCEPT
       !.read = @ + n,
       !.captured = IF web.requestTruncated THEN @
                    ELSE @ + IF n < remaining THEN n ELSE remaining,
       !.requestTruncated = @ \/ n > remaining]
  /\ UNCHANGED <<sink, recorderVars>>

AppStarts ==
  /\ web.processed /\ ~web.ended /\ web.start = "none" /\ web.sent = <<>>
  /\ web' = [web EXCEPT !.start = "held"]
  /\ UNCHANGED <<sink, recorderVars>>

Chunk(n) == [i \in 1..n |-> Len(web.sent) + i]
Finished(w) == [w EXCEPT !.ended = TRUE]
\* The start waits for the record, perhaps behind messages that did not wait.
Withheld(w) == w.start \in {"held", "overtaken"}
\* What arecord() and then flush_start_with_headers() leave when the sink does not raise.
Emitted(w, output, truncated) ==
  [w EXCEPT !.emitted = [output |-> output, truncated |-> truncated,
                         input |-> w.captured, inputTruncated |-> w.requestTruncated],
            !.start = "sent", !.client.started = TRUE]

\* wrapped_send() of what is not a body: trailers, hints, a file instead of a body.
AppSendsOther ==
  /\ web.processed /\ ~web.ended /\ web.start = "held"
  /\ web' = [web EXCEPT !.start = "overtaken"]
  /\ UNCHANGED <<sink, recorderVars>>

\* wrapped_send() of a body, while it all fits.  If the sink raises, so does this send(),
\* whose chunk is in the buffer: the application may give up, go on or send it again.
AppBuffers(n, more) ==
  LET w == [web EXCEPT !.sent = @ \o Chunk(n), !.buffered = @ \o Chunk(n)] IN
  /\ web.processed /\ ~web.ended /\ Withheld(web) /\ ~web.streamed
  /\ Len(web.sent) + n <= MaxBody /\ Len(web.buffered) + n <= MaxCapture
  /\ \/ (more \/ sink # "none") /\ web' = w
     \/ ~more /\ web' = [Emitted(w, w.buffered, FALSE) EXCEPT
                           !.client.bytes = w.buffered, !.client.ended = TRUE, !.buffered = <<>>]
  /\ UNCHANGED <<sink, recorderVars>>

\* Mutant: the chunk that does not fit goes ahead of those that did.
AppStreamsFirst(n, more) ==
  LET w == [web EXCEPT !.sent = @ \o Chunk(n), !.streamed = TRUE] IN
  /\ web.processed /\ ~web.ended /\ Withheld(web) /\ ~web.streamed
  /\ Len(web.sent) + n <= MaxBody /\ Len(web.buffered) + n > MaxCapture
  /\ \/ web' = [Emitted(w, web.buffered, TRUE) EXCEPT
                  !.client.bytes = Chunk(n) \o web.buffered, !.client.ended = ~more,
                  !.buffered = <<>>]
     \/ sink # "none" /\ web' = w
  /\ UNCHANGED <<sink, recorderVars>>

\* The first chunk that does not fit: the record is of what did, and all goes out.  If
\* the sink raises, the response is streamed from here on, although its start and what
\* is in the buffer are still held.
AppStreams(n, more) ==
  LET w == [web EXCEPT !.sent = @ \o Chunk(n), !.streamed = TRUE] IN
  /\ web.processed /\ ~web.ended /\ Withheld(web) /\ ~web.streamed
  /\ Len(web.sent) + n <= MaxBody /\ Len(web.buffered) + n > MaxCapture
  /\ \/ web' = [Emitted(w, web.buffered, TRUE) EXCEPT
                  !.client.bytes = web.buffered \o Chunk(n), !.client.ended = ~more,
                  !.buffered = <<>>]
     \/ sink # "none" /\ web' = w
  /\ UNCHANGED <<sink, recorderVars>>

\* Later chunks, and all of a response that is not processed, pass.
AppPasses(n, more) ==
  /\ ~web.ended /\ (web.streamed \/ ~web.processed) /\ ~web.client.ended
  /\ Len(web.sent) + n <= MaxBody
  /\ web' = [web EXCEPT !.sent = @ \o Chunk(n), !.client.started = @ \/ ~web.processed,
               !.client.bytes = @ \o Chunk(n), !.client.ended = ~more]
  /\ UNCHANGED <<sink, recorderVars>>

\* The application returns.  If the start is still held, it goes out with an empty body,
\* whatever is in the buffer and has gone ahead.
AppReturns ==
  /\ ~web.ended
  /\ \/ ~Withheld(web) /\ web' = Finished(web)
     \/ Withheld(web) /\ web' = Finished([Emitted(web, <<>>, FALSE) EXCEPT !.client.ended = TRUE])
     \/ Withheld(web) /\ sink # "none" /\ web' = Finished(web)
  /\ UNCHANGED <<sink, recorderVars>>

AppRaises ==
  /\ ~web.ended /\ web' = Finished(web)
  /\ UNCHANGED <<sink, recorderVars>>

MiddlewareNext ==
  \/ \E n \in 0..MaxBody, more \in BOOLEAN :
       AppBuffers(n, more) \/ AppStreams(n, more) \/ AppPasses(n, more)
  \/ \E n \in 1..MaxBody : AppReceives(n)
  \/ AppStarts \/ AppSendsOther \/ AppReturns \/ AppRaises
-----------------------------------------------------------------------------
(* The recorder and the wrapped callables. *)

Envelope(t, output) ==
  [of |-> t, input |-> Normalize(call[t].input), output |-> output]
\* What record() has given to the sink, whether the sink then raises or not: an
\* asynchronous one is called, but refused before it has run.
Handed(t, output) == IF sink = "sync" THEN envelopes \cup {Envelope(t, output)} ELSE envelopes

\* invoke(), batch(), forward() and pipelines record at once, their asynchronous
\* forms suspend in the callable and in the sink.
CallWrapped(t, way, input) ==
  /\ call[t] = Unset
  /\ call' = [call EXCEPT ![t] = [way |-> way, input |-> input, at |-> "calls", failed |-> FALSE]]
  /\ UNCHANGED <<web, sink, envelopes, lastVerified>>

\* Only the PyTorch wrapper records that its model raised; the sink may raise as well.
WrappedRaises(t) ==
  /\ call[t] # Unset /\ call[t].at = "calls"
  /\ call' = [call EXCEPT ![t].at = "raised", ![t].failed = TRUE]
  /\ IF call[t].way = "forward"
     THEN /\ envelopes' = Handed(t, "error")
          /\ \/ sink # "async" /\ lastVerified' = Envelope(t, "error")
             \/ sink # "none" /\ UNCHANGED lastVerified
     ELSE UNCHANGED <<envelopes, lastVerified>>
  /\ UNCHANGED <<web, sink>>

\* record(): when the sink raises, or is asynchronous and refused, the output is lost.
Record(t) ==
  /\ call[t] # Unset /\ call[t].at = "calls" /\ call[t].way # "ainvoke"
  /\ envelopes' = Handed(t, "output")
  /\ \/ /\ sink # "async" /\ call' = [call EXCEPT ![t].at = "returned"]
        /\ lastVerified' = Envelope(t, "output")
     \/ /\ sink # "none" /\ call' = [call EXCEPT ![t].at = "raised"]
        /\ UNCHANGED lastVerified
  /\ UNCHANGED <<web, sink>>

\* arecord(): the sink has the envelope, and may suspend before the call goes on.
Arecord(t) ==
  /\ call[t] # Unset /\ call[t].at = "calls" /\ call[t].way = "ainvoke"
  /\ call' = [call EXCEPT ![t].at = "awaits"]
  /\ envelopes' = IF sink # "none" THEN envelopes \cup {Envelope(t, "output")} ELSE envelopes
  /\ UNCHANGED <<web, sink, lastVerified>>

AwaitedRecord(t) ==
  /\ call[t] # Unset /\ call[t].at = "awaits"
  /\ \/ /\ call' = [call EXCEPT ![t].at = "returned"]
        /\ lastVerified' = Envelope(t, "output")
     \/ /\ sink # "none" /\ call' = [call EXCEPT ![t].at = "raised"]
        /\ UNCHANGED lastVerified
  /\ UNCHANGED <<web, sink, envelopes>>

WrapperNext ==
  \E t \in Tellers :
    \/ \E way \in {"invoke", "ainvoke", "forward"}, input \in Values : CallWrapped(t, way, input)
    \/ WrappedRaises(t) \/ Record(t) \/ Arecord(t) \/ AwaitedRecord(t)

IntegrationNext == MiddlewareNext \/ WrapperNext
IntegrationSpec == IntegrationInit /\ [][IntegrationNext]_integrationVars
-----------------------------------------------------------------------------
IntegrationTypeOK ==
  /\ web.read \in 0..MaxBody /\ web.captured \in 0..MaxCapture
  /\ Len(web.sent) <= MaxBody /\ Len(web.buffered) <= MaxCapture
  /\ web.start \in {"none", "held", "overtaken", "sent"}
  /\ web.requestTruncated <=> web.read > MaxCapture
  /\ \A t \in Tellers : call[t] # Unset => call[t] \in WrappedCall

\* A response is streamed, but the sink raised when that was to be recorded.
Refused(w) == w.streamed /\ (w.emitted # Unset => ~w.emitted.truncated)

(* The middleware does not change a response, while every record of a response that is
   to be streamed is taken: what the client has and what is in the buffer is what was
   given to send(), in this order and once, the chunks of calls that raised included;
   bytes follow the start; a response that was ended has reached the client whole, and
   only an application that returns without ending it, or whose end was refused, loses
   what was buffered; what is recorded is the beginning of what the client gets, all of
   it unless the record says otherwise.  Once such a record is refused, the client gets
   a rest of the response, in order but perhaps without a start before it: what was in
   the buffer, and the chunk that was refused, never arrive. *)
BodyForwarded ==
  IF Refused(web)
  THEN \E lost \in Len(web.buffered)..Len(web.sent) :
         web.client.bytes = SubSeq(web.sent, lost + 1, Len(web.sent))
  ELSE
  /\ web.client.bytes \o web.buffered = web.sent
  /\ web.client.ended => web.client.started /\ (web.buffered # <<>> => web.ended)
  /\ web.client.bytes # <<>> => web.client.started
  /\ web.emitted # Unset =>
       /\ IsPrefix(web.emitted.output, web.client.bytes)
       /\ ~web.emitted.truncated /\ web.client.ended => web.emitted.output = web.client.bytes

(* Whoever got the output of a wrapped call, its envelope has gone to the sink, with
   its own arguments, whatever calls run beside it; and the envelope remembered as
   the last one is of a call that is over. *)
CallsRecorded ==
  /\ \A t \in Tellers : call[t] # Unset /\ call[t].at = "returned" /\ sink # "none" =>
       Envelope(t, "output") \in envelopes
  /\ lastVerified # Unset => call[lastVerified.of].at \in {"returned", "raised"}

(* Neither kind of wrapper changes, loses or mixes up what it records. *)
WrappersFaithful == BodyForwarded /\ CallsRecorded
=============================================================================
