---------------------------- MODULE ResponseStream ----------------------------
(***************************************************************************)
(* How the proxy sends the answers of the apiserver to the controller: the *)
(* reverse proxy (util/http/reverse_proxy.go) copies the body of a         *)
(* response, a list is decoded, filtered and encoded as a whole before     *)
(* (listHandler), a watch is decoded, filtered and encoded event by event  *)
(* by the reader that the copy reads from (watchHandler), and the buffers  *)
(* of all of them come from one pool (util/pool).  Whether a namespace     *)
(* passes is the business of SpecManager; here an event is passed, denied  *)
(* (it becomes a BOOKMARK) or not an object at all.                        *)
(*                                                                         *)
(* Sizes are in units of half a pool buffer (16 KB).  What a buffer holds  *)
(* is the event that was last written to it and the form it was in.        *)
(***************************************************************************)
EXTENDS Integers, Sequences, FiniteSets, SequencesExt

CONSTANTS Lists, Watches,   \* the requests
          Frames,           \* for each request the events of the response, or
                            \* the one body of a list: [size, kind]
          BaseWidth,        \* size of a pool buffer
          MaxBufferBytes,   \* how far readStreaming means to let one grow
          PoolSize,         \* capacity of the pool's channel
          MaxBuffers,       \* bound on the buffers ever allocated
          NoBuf             \* the nil slice

Streams == Lists \cup Watches
Buffers == 1..MaxBuffers

VARIABLES pool,      \* the channel of bytesPool
          allocated, \* how many buffers exist
          width,     \* the capacity of each
          content,   \* what each holds: [stream, event, form]
          at,        \* where the goroutine of each request is
          event,     \* how many events its decoder has read
          buf,       \* the buffer of its responseSerializer
          copyBuf,   \* the buffer of its copyResponse
          decode,    \* the goroutine in DecodeWatch: [state, base, rest]
          remaining, \* what of the encoded event Read has not returned, in
                     \* units
          got,       \* the piece Read has returned: content and units
          sent,      \* the pieces written to the client
          result,    \* how the request ended
          cancelled, \* the context of the request is done
          spoilt,    \* a stray decoder wrote to a buffer of the request
          flush      \* the maxLatencyWriter: [unflushed, flushPending, timer]

bufferVars == <<pool, allocated, width, content>>
streamVars == <<bufferVars, at, event, buf, copyBuf, decode, remaining, got,
                sent, result, cancelled, spoilt, flush>>

(***************************************************************************)
(* Buffers                                                                 *)
(***************************************************************************)

\* bytesPool.Get: a buffer of the channel, or a new one.  b is the buffer.
Get(b) ==
  IF pool # <<>>
  THEN /\ b = Head(pool)
       /\ pool' = Tail(pool)
       /\ UNCHANGED <<allocated, width>>
  ELSE /\ b = allocated + 1
       /\ b \in Buffers
       /\ allocated' = b
       /\ width' = [width EXCEPT ![b] = BaseWidth]
       /\ UNCHANGED pool

\* bytesPool.Put of the buffers of bs, one after the other: too small ones
\* are dropped, and all when the channel is full.
Put(bs) ==
  LET fit == SelectSeq(bs, LAMBDA b : b # NoBuf /\ width[b] >= BaseWidth)
      room == PoolSize - Len(pool) IN
  pool' = pool \o (IF Len(fit) <= room THEN fit ELSE SubSeq(fit, 1, room))

\* bytes.Buffer.Grow on a buffer that holds nothing: a new array only when
\* the capacity is less than n.
Grow(cap, n) == IF n <= cap THEN cap ELSE 2 * cap + n

EncodedSize(frame) == IF frame.kind = "denied" THEN frame.size + 1
                      ELSE frame.size

\* What is in buffer b after the units from .. from + n - 1 of the given
\* form of an event of r were written to it.
Piece(r, i, form, from, n) ==
  [stream |-> r, event |-> i, form |-> form, from |-> from, units |-> n]

StreamInit ==
  /\ pool = <<>>
  /\ allocated = 0
  /\ width = [b \in Buffers |-> 0]
  /\ content = [b \in Buffers |-> Piece(NoBuf, 0, "empty", 0, 0)]
  /\ at = [r \in Streams |-> "roundTrip"]
  /\ event = [r \in Streams |-> 0]
  /\ buf = [r \in Streams |-> NoBuf]
  /\ copyBuf = [r \in Streams |-> NoBuf]
  /\ decode = [w \in Watches |-> [state |-> "none", base |-> 0, rest |-> 0]]
  /\ remaining = [r \in Streams |-> 0]
  /\ got = [r \in Streams |-> 0]
  /\ sent = [r \in Streams |-> <<>>]
  /\ result = [r \in Streams |-> "none"]
  /\ cancelled = [r \in Streams |-> FALSE]
  /\ spoilt = [r \in Streams |-> FALSE]
  /\ flush = [r \in Streams |-> [unflushed |-> FALSE, pending |-> FALSE,
                                 timer |-> "off"]]

Frame(r) == Frames[r][event[r]]

\* The request ends with outcome o, and the buffers of bs go to the pool.
EndStream(r, o, bs) ==
  /\ at' = [at EXCEPT ![r] = "ended"]
  /\ result' = [result EXCEPT ![r] = o]
  /\ Put(bs)

(***************************************************************************)
(* The request up to the copy of the body                                  *)
(***************************************************************************)

\* newResponseSerializer finds a decoder and an encoder for the media type of
\* the response: for protobuf only when the resource is a built-in one, and
\* there is none for a stream of YAML documents.
newResponseSerializer(mediaType, builtIn, isStreaming) ==
  \/ mediaType = "json"
  \/ mediaType = "yaml" /\ ~isStreaming
  \/ mediaType = "protobuf" /\ builtIn

\* What the hooks of the router make of a response: handle of listHandler and
\* of watchHandler.  An answer that is no success is copied as it is, and so
\* is a watch without a serializer; a list without one is an error.
Hook(r, success, mediaType, builtIn) ==
  IF ~success THEN "asItIs"
  ELSE IF newResponseSerializer(mediaType, builtIn, r \in Watches)
       THEN "filter"
       ELSE IF r \in Lists THEN "badGateway" ELSE "asItIs"

\* ReverseProxy.ServeHTTP sends the request and gets no answer, or one for
\* the hooks.
RoundTrip(r) ==
  /\ at[r] = "roundTrip"
  /\ \/ EndStream(r, "badGateway", <<>>)
     \/ \E success, builtIn \in BOOLEAN,
           mediaType \in {"json", "yaml", "protobuf", "other"} :
          LET hook == Hook(r, success, mediaType, builtIn) IN
          IF hook # "filter" THEN EndStream(r, hook, <<>>)
          ELSE /\ at' = [at EXCEPT ![r] = IF r \in Lists THEN "readOnce"
                                          ELSE "copy"]
               /\ UNCHANGED <<result, pool>>
  /\ UNCHANGED <<allocated, width, content, event, buf, copyBuf, decode,
                 remaining, got, sent, cancelled, spoilt, flush>>

\* DecodeList reads the whole body into an array of its own, which becomes
\* the buffer of the serializer.
DecodeList(l) ==
  /\ at[l] = "readOnce"
  /\ \/ /\ EndStream(l, "badGateway", <<>>)
        /\ UNCHANGED <<allocated, width, content, event, buf>>
     \/ /\ allocated < MaxBuffers
        /\ LET b == allocated + 1
               size == Frames[l][1].size IN
            /\ allocated' = b
            /\ width' = [width EXCEPT ![b] = size]
            /\ content' = [content EXCEPT ![b] = Piece(l, 1, "raw", 0, size)]
            /\ buf' = [buf EXCEPT ![l] = b]
        /\ event' = [event EXCEPT ![l] = 1]
        /\ at' = [at EXCEPT ![l] = "encodeList"]
        /\ UNCHANGED <<result, pool>>
  /\ UNCHANGED <<copyBuf, decode, remaining, got, sent, cancelled, spoilt,
                 flush>>

\* The items are filtered and encoded into the same array; when decoding or
\* encoding fails the serializer is released, and the answer is an error.
EncodeList(l) ==
  /\ at[l] = "encodeList"
  /\ \/ /\ EndStream(l, "badGateway", <<buf[l]>>)
        /\ UNCHANGED <<content, remaining>>
     \/ /\ content' = [content EXCEPT ![buf[l]] =
                          Piece(l, 1, "encoded", 0, Frame(l).size)]
        /\ remaining' = [remaining EXCEPT ![l] = Frame(l).size]
        /\ at' = [at EXCEPT ![l] = "copy"]
        /\ UNCHANGED <<result, pool>>
  /\ UNCHANGED <<allocated, width, event, buf, copyBuf, decode, got, sent,
                 cancelled, spoilt, flush>>

\* copyResponse: a maxLatencyWriter with its timer started, so that the
\* headers are flushed, and a buffer of the pool.
CopyResponse(r) ==
  /\ at[r] = "copy"
  /\ \E b \in Buffers : /\ Get(b)
                        /\ copyBuf' = [copyBuf EXCEPT ![r] = b]
  /\ flush' = [flush EXCEPT ![r] = [unflushed |-> TRUE, pending |-> TRUE,
                                    timer |-> "armed"]]
  /\ at' = [at EXCEPT ![r] = "read"]
  /\ UNCHANGED <<content, event, buf, decode, remaining, got, sent, result,
                 cancelled, spoilt>>

(***************************************************************************)
(* The loop of copyBuffer: Read, Write, until Read or Write fails.         *)
(***************************************************************************)
Least(m, n) == IF m <= n THEN m ELSE n

\* As EndCopy, but the reader of a watch is closed, which releases its
\* serializer, before the copy returns.
EndCopyClosesWatch(r, o, released) ==
  /\ EndStream(r, o, (IF released THEN <<buf[r]>> ELSE <<>>) \o <<buf[r]>>
                     \o <<copyBuf[r]>>)
  /\ flush' = [flush EXCEPT ![r].pending = FALSE,
                            ![r].timer = IF @ = "armed" THEN "off" ELSE @]

\* copyResponse returns with outcome o: its deferred calls give the copy
\* buffer back and stop the writer, and ServeHTTP closes the body.  For a list
\* this releases the serializer when all was read; before, slicing the rest
\* of the buffer to its whole capacity panics, and the buffer is lost.  A
\* watch releases its serializer in Read, and only there.
EndCopy(r, o, released) ==
  /\ EndStream(r, o, (IF released THEN <<buf[r]>> ELSE <<>>) \o <<copyBuf[r]>>
                     \o (IF r \in Lists /\ o = "ok" THEN <<buf[r]>> ELSE <<>>))
  /\ flush' = [flush EXCEPT ![r].pending = FALSE,
                            ![r].timer = IF @ = "armed" THEN "off" ELSE @]

\* Read copies the next n units of the serializer's buffer, from the given
\* one on, to the copy buffer.
Copy(r, from, n) ==
  content' = [content EXCEPT ![copyBuf[r]] =
                [content[buf[r]] EXCEPT !.from = from, !.units = n]]

\* Read, when some of the encoded body or event is left.
ReadRemaining(r) ==
  /\ at[r] = "read"
  /\ remaining[r] > 0
  /\ LET n == Least(remaining[r], width[copyBuf[r]])
         size == IF r \in Lists THEN Frame(r).size ELSE EncodedSize(Frame(r))
     IN /\ Copy(r, size - remaining[r], n)
        /\ got' = [got EXCEPT ![r] = n]
        /\ remaining' = [remaining EXCEPT ![r] = @ - n]
  /\ at' = [at EXCEPT ![r] = "write"]
  /\ UNCHANGED <<pool, allocated, width, event, buf, copyBuf, decode, sent,
                 result, cancelled, spoilt, flush>>

\* Read, when all of a list has been read.
EndOfList(l) ==
  /\ at[l] = "read"
  /\ remaining[l] = 0
  /\ EndCopy(l, "ok", FALSE)
  /\ UNCHANGED <<allocated, width, content, event, buf, copyBuf, decode,
                 remaining, got, sent, cancelled, spoilt>>

\* As StartDecode, without looking for what is left of the last event.
StartDecodeEarly(w) ==
  /\ at[w] = "read"
  /\ decode' = [decode EXCEPT ![w] = [state |-> "reset", base |-> 0,
                                      rest |-> 0]]
  /\ at' = [at EXCEPT ![w] = "select"]
  /\ UNCHANGED <<bufferVars, event, buf, copyBuf, remaining, got, sent, result,
                 cancelled, spoilt, flush>>

\* Read, when nothing is left of the last event: read starts a goroutine that
\* decodes the next one, and waits for it or for the end of the request.
StartDecode(w) ==
  /\ at[w] = "read"
  /\ remaining[w] = 0
  /\ decode' = [decode EXCEPT ![w] = [state |-> "reset", base |-> 0,
                                      rest |-> 0]]
  /\ at' = [at EXCEPT ![w] = "select"]
  /\ UNCHANGED <<bufferVars, event, buf, copyBuf, remaining, got, sent, result,
                 cancelled, spoilt, flush>>

\* The goroutine takes a buffer when the serializer has none (resetBuf).
ResetBuf(w) ==
  /\ decode[w].state = "reset"
  /\ IF buf[w] = NoBuf
     THEN \E b \in Buffers : Get(b) /\ buf' = [buf EXCEPT ![w] = b]
     ELSE UNCHANGED <<pool, allocated, width, buf>>
  /\ decode' = [decode EXCEPT
       ![w] = [state |-> "read", base |-> 0,
               rest |-> IF event[w] < Len(Frames[w])
                        THEN Frames[w][event[w] + 1].size ELSE 0]]
  /\ UNCHANGED <<content, at, event, copyBuf, remaining, got, sent, result,
                 cancelled, spoilt, flush>>

\* The requests that use a buffer now.
Users(b) == {r \in Streams : /\ at[r] # "ended"
                             /\ b # NoBuf
                             /\ b = buf[r] \/ b = copyBuf[r]}

\* readStreaming, one Read of the frame: it gives the rest of the frame or as
\* much as fits.  A short read makes the buffer grow, unless nothing fitted
\* or the buffer is at its largest.
ReadStreaming(w) ==
  /\ decode[w].state = "read"
  /\ decode[w].rest > 0
  /\ LET b == buf[w]
         n == Least(decode[w].rest, width[b] - decode[w].base)
         short == n < decode[w].rest
         failed == short /\ (n = 0 \/ width[b] >= MaxBufferBytes) IN
       /\ decode' = [decode EXCEPT
            ![w] = [state |-> IF failed THEN "tooLarge"
                              ELSE IF short THEN "read" ELSE "decoded",
                    base |-> @.base + n, rest |-> @.rest - n]]
       /\ width' = IF short /\ ~failed
                   THEN [width EXCEPT ![b] = Grow(@, @)] ELSE width
       /\ event' = IF short THEN event ELSE [event EXCEPT ![w] = @ + 1]
       /\ content' = [content EXCEPT ![b] =
                        Piece(w, event[w] + 1, "raw", 0, decode[w].base + n)]
       /\ spoilt' = [r \in Streams |-> spoilt[r] \/ r \in Users(b) \ {w}]
  /\ UNCHANGED <<pool, allocated, at, buf, copyBuf, remaining, got, sent,
                 result, cancelled, flush>>

\* The read of the frame fails: the apiserver ended the watch after its last
\* event, or the request is over and its body closed.
ReadFails(w) ==
  /\ decode[w].state = "read"
  /\ \/ decode[w].rest = 0
     \/ cancelled[w] \/ at[w] = "ended"
  /\ decode' = [decode EXCEPT ![w].state =
                   IF cancelled[w] \/ at[w] = "ended" THEN "readError"
                   ELSE "eof"]
  /\ UNCHANGED <<bufferVars, at, event, buf, copyBuf, remaining, got, sent,
                 result, cancelled, spoilt, flush>>

\* read has the event: it is filtered and encoded into the serializer's
\* buffer, in a larger array if it does not fit, and Read returns the first
\* piece.  When one of these fails, Read fails.
EncodeWatch(w) ==
  /\ at[w] = "select"
  /\ decode[w].state = "decoded"
  /\ \/ /\ EndCopy(w, "encodeError", TRUE)
        /\ UNCHANGED <<allocated, width, content, buf, got, remaining>>
     \/ LET size == EncodedSize(Frame(w))
            fits == size <= width[buf[w]]
            b == IF fits THEN buf[w] ELSE allocated + 1
            n == Least(size, width[copyBuf[w]]) IN
        /\ b \in Buffers
        /\ buf' = [buf EXCEPT ![w] = b]
        /\ allocated' = IF fits THEN allocated ELSE b
        /\ width' = [width EXCEPT ![b] = Grow(width[buf[w]], size)]
        /\ content' = [content EXCEPT
             ![b] = Piece(w, event[w], "encoded", 0, size),
             ![copyBuf[w]] = Piece(w, event[w], "encoded", 0, n)]
        /\ got' = [got EXCEPT ![w] = n]
        /\ remaining' = [remaining EXCEPT ![w] = size - n]
        /\ at' = [at EXCEPT ![w] = "write"]
        /\ UNCHANGED <<pool, result, flush>>
  /\ decode' = [decode EXCEPT ![w].state = "none"]
  /\ UNCHANGED <<event, copyBuf, sent, cancelled, spoilt>>

\* read returns the error of the decoder, or that the request is cancelled,
\* whatever the goroutine is doing; Read releases the serializer.  The end of
\* the body is no error for copyBuffer.
ReadReturns(w) ==
  /\ at[w] = "select"
  /\ \/ decode[w].state \in {"eof", "readError", "tooLarge"}
     \/ cancelled[w]
  /\ EndCopy(w, IF decode[w].state \in {"eof", "tooLarge"} THEN decode[w].state
                ELSE "aborted", TRUE)
  /\ UNCHANGED <<allocated, width, content, event, buf, copyBuf, decode,
                 remaining, got, sent, cancelled, spoilt>>

\* The piece of the copy buffer is written to the client, and the writer's
\* timer started unless it is already; or the client is gone.
WriteClient(r) ==
  /\ at[r] = "write"
  /\ \/ /\ sent' = [sent EXCEPT ![r] = Append(@, content[copyBuf[r]])]
        /\ flush' = [flush EXCEPT ![r] =
             [unflushed |-> TRUE, pending |-> TRUE,
              timer |-> IF @.pending THEN @.timer ELSE "armed"]]
        /\ at' = [at EXCEPT ![r] = "read"]
        /\ UNCHANGED <<pool, result>>
     \/ /\ cancelled[r]
        /\ EndCopy(r, "aborted", FALSE)
        /\ UNCHANGED sent
  /\ UNCHANGED <<allocated, width, content, event, buf, copyBuf, decode,
                 remaining, got, cancelled, spoilt>>

\* The controller closes the connection, or the proxy is shut down.
CancelRequest(r) ==
  /\ at[r] # "ended"
  /\ ~cancelled[r]
  /\ cancelled' = [cancelled EXCEPT ![r] = TRUE]
  /\ UNCHANGED <<bufferVars, at, event, buf, copyBuf, decode, remaining, got,
                 sent, result, spoilt, flush>>

TimerFires(r) ==
  /\ flush[r].timer = "armed"
  /\ flush' = [flush EXCEPT ![r].timer = "fired"]
  /\ UNCHANGED <<bufferVars, at, event, buf, copyBuf, decode, remaining, got,
                 sent, result, cancelled, spoilt>>

\* As DelayedFlush, but the writer still takes the timer for started.
DelayedFlushPending(r) ==
  /\ flush[r].timer = "fired"
  /\ flush' = [flush EXCEPT ![r] =
       [unflushed |-> @.unflushed /\ ~@.pending, pending |-> @.pending,
        timer |-> "off"]]
  /\ UNCHANGED <<bufferVars, at, event, buf, copyBuf, decode, remaining, got,
                 sent, result, cancelled, spoilt>>

\* The function of the timer gets the lock of the writer; the writer may have
\* been stopped in between.
DelayedFlush(r) ==
  /\ flush[r].timer = "fired"
  /\ flush' = [flush EXCEPT ![r] =
       [unflushed |-> @.unflushed /\ ~@.pending, pending |-> FALSE,
        timer |-> "off"]]
  /\ UNCHANGED <<bufferVars, at, event, buf, copyBuf, decode, remaining, got,
                 sent, result, cancelled, spoilt>>

\* The steps of the handler's goroutine.
Serve(r) ==
  \/ RoundTrip(r) \/ CopyResponse(r) \/ ReadRemaining(r) \/ WriteClient(r)
  \/ r \in Lists /\ (DecodeList(r) \/ EncodeList(r) \/ EndOfList(r))
  \/ r \in Watches /\ (StartDecode(r) \/ EncodeWatch(r) \/ ReadReturns(r))

Flush(r) == TimerFires(r) \/ DelayedFlush(r)

StreamNext ==
  \/ \E r \in Streams : Serve(r) \/ Flush(r) \/ CancelRequest(r)
  \/ \E w \in Watches : ResetBuf(w) \/ ReadStreaming(w) \/ ReadFails(w)

StreamSpec == StreamInit /\ [][StreamNext]_streamVars

\* Timers fire and their goroutines run.
StreamFairSpec ==
  StreamSpec /\ \A r \in Streams : WF_streamVars(Flush(r))

(***************************************************************************)
(* Properties                                                              *)
(***************************************************************************)

\* Where a buffer may be: the place in the pool, the serializer of a request
\* and the copy of a request, while the request runs.
Owners(b) ==
  {<<"pool", i>> : i \in {i \in DOMAIN pool : pool[i] = b}}
    \cup {<<"buf", r>> : r \in {r \in Streams : at[r] # "ended" /\ buf[r] = b}}
    \cup {<<"copy", r>> :
             r \in {r \in Streams : at[r] # "ended" /\ copyBuf[r] = b}}

\* A buffer goes back to the pool once: no two requests, and no two uses in
\* one request, share it, whichever of the error paths of listHandler,
\* watchHandler and copyResponse released it.
BuffersOwnedOnce == \A b \in Buffers : Cardinality(Owners(b)) <= 1

\* What the client of r gets when nothing goes wrong, in units.
Body(r, i) ==
  LET size == IF r \in Lists THEN Frames[r][i].size
              ELSE EncodedSize(Frames[r][i])
  IN [k \in 1..size |-> <<r, i, "encoded", k - 1>>]

Units(piece) ==
  [k \in 1..piece.units |->
     <<piece.stream, piece.event, piece.form, piece.from + k - 1>>]

\* The client gets the filtered events, whole, in order and only those of its
\* own request, although pieces of an event are kept over several calls of
\* Read in a buffer that the next event overwrites (watchHandler.Read).  The
\* exception is a request into whose buffer the decoder of a cancelled
\* watch still writes, which read has left running.
StreamIntact ==
  \A r \in Streams : ~spoilt[r] =>
     IsPrefix(FlattenSeq([i \in DOMAIN sent[r] |-> Units(sent[r][i])]),
              FlattenSeq([i \in DOMAIN Frames[r] |-> Body(r, i)]))

\* "double the buffer size up to maxBytes" (reader.go:68): a watch fails for
\* the size of an event only if the event is larger than maxBufferBytes.
OnlyTooLargeFails ==
  \A w \in Watches : result[w] = "tooLarge" =>
     \E i \in DOMAIN Frames[w] : Frames[w][i].size > MaxBufferBytes

Unflushed == {r \in Streams : flush[r].unflushed /\ at[r] # "ended"}

\* What was written for the client leaves the proxy's buffer while the
\* request is still running, as often as the timer has to be started again
\* (maxLatencyWriter): an event of a watch is not held back until the next.
EventuallyFlushed == Unflushed # {} ~> Unflushed = {}
===============================================================================
