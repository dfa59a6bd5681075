# A TLA+ model of suzu

suzu is an audio streaming gateway: a client (Sora) POSTs a stream of Opus
packets over HTTP/2, suzu forwards it as an Ogg stream to Amazon Transcribe or
Google Speech-to-Text and streams the transcription back in the response. This
directory holds TLA+ modules of its core, TLC configurations that check them on
small instances, and TLAPS proofs of the invariants that matter most.

Paths such as `handler.go:180` are relative to the repository's root.

## 1. The system

### Components, their state and operations

| component | code | state | operations |
|---|---|---|---|
| Request handler | `handler.go` `createSpeechHandler` | where it is in its loop, retry count, committed status, bytes written | admit, call `Handle`, wait for a retry, read results, report, reconnect, return |
| Opus channel | `handler.go` `newOpusChannel`, `readPacket`, `closeOnDone`; `options.go` | one goroutine per stage, unbuffered channels between them | read a chunk, pass it on, insert silence, stop |
| Deframer | `options.go` `optionReadPacketWithHeader` | buffered bytes | receive a chunk, emit frames, refuse a length |
| Ogg conversion | `handler.go` `opus2ogg`, `receiveFirstAudioData` | an `io.Pipe`, whether headers have been written | take a packet, write pages, close with an error |
| Service clients | `amazon_transcribe_v2.go`, `speech_to_text.go` `Start` | the service's stream | first audio, connect, send first audio, sender goroutine |
| Service handlers | `amazon_transcribe_v2_handler.go`, `speech_to_text_handler.go` | `RetryCount`, result pipe | `Handle`, receiver goroutine, classify errors |
| Test and dump handlers | `test_handler.go`, `packet_dump_handler.go` | result pipe, dump file | echo the size or the content of what arrives |
| Languages, registry, errors | `languages.go`, `service_handler.go`, `errors.go` | a map of constructors | look up, match `retry_targets` |
| Ogg writer | `oggwriter.go`, `oggwriter_ext.go` | page index, granule position, last payload size, the Ogg file of the request | headers, packet, close |
| Result filters | `amazon_transcribe_v2_handler.go` `buildMessageV2`, the receiver loops | none | pass over partial results, drop items by duration and confidence, add optional fields |
| Servers, main | `server.go`, `cmd/suzu/main.go` | two HTTP servers in an errgroup | start, shut down |
| Configuration, logger, health check | `config.go`, `logger.go`, `healthcheck_handler.go` | ini values | load, log, answer |

### How they interact

For one request:

    client --body--> readPacket -> [deframer] -> [silent] -> opusCh
    opusCh -> opus2ogg --pipe--> sender of Start --> service
    service -> receiver of Handle --pipe--> createSpeechHandler --> client

`createSpeechHandler` runs `Handle` once per attempt. Everything between
`opusCh` and the result pipe exists once per attempt and is stopped by
cancelling the attempt's context; `opusCh` is shared by all attempts. Channels
are unbuffered, pipes are `io.Pipe`s, so every hand-over needs both sides.

### What is hard

* Goroutines of an attempt that was given up wind down while the next attempt
  already reads the same `opusCh`.
* Each goroutine can be blocked on a partner that has gone: a converter without
  a reader, a receiver without a reader, a reader of a silent client. Only
  `closeOnDone`, `reader.Close` and the deferred calls get them out.
* The response has one status, committed by the first write or flush; failures
  come before and after that moment, and again after reconnections.
* The byte stream is cut anywhere, and silence is inserted from another
  goroutine.
* With `enable_ogg_file_output` all attempts of a request write one file, each at
  its own offset, and `Close` reads back and rewrites its end.
* Two servers fail in either order while clients stream; each failure cancels the
  other server and decides how `Shutdown` waits.
* Error values travel through two pipes and mean different things to different
  readers (`io.EOF`, `context.Canceled`, `ErrServerDisconnected`).

PROJECT.json lists these under `hazards`, each at its line and with the
properties that would catch it.

### What makes each component correct

* Request handler: status and body tell the truth about what happened; retries
  in a row are bounded as configured; answers of different attempts do not mix; a
  retryable failure does not cost the client its connection.
* Opus channel and deframer: packets arrive exactly as framed by the client, in
  order, none withheld or lost; cancellation ends every goroutine; the end of
  the stream reaches the consumer.
* Session: each service stream is one well-formed Ogg stream; no packet is sent
  twice; every goroutine of an attempt ends; the request ends when its client
  does; the goroutines together do what the request handler assumes of `Handle`.
* Ogg writer: each service gets one readable Ogg Opus stream with consecutive
  page numbers and true granule positions; the file holds what was received.
* Test and dump: every packet is answered (and recorded) once and in order, until a
  write to the file fails; a broken input is reported; all goroutines end.
* Result filters: the client gets exactly the words the configuration asks for.
* Servers: a failure of one ends the process, with that failure as its reason.

## 2. Modules

| module | models | actions correspond to |
|---|---|---|
| `SpeechHandler` | `createSpeechHandler` for the services aws, awsv2, gcp, test, dump | one action per outcome of the admission, of `Handle`, of the retry wait and of `reader.Read` |
| `PacketHeader` | the deframer, byte by byte | one action per `select` case |
| `OpusChannel` | the chain of goroutines up to `opusCh` | loop top, Read, hand-over between neighbours, `ctx.Done`, closed channel, timer |
| `TranscribeSession` | one aws or gcp request with its goroutines per attempt | converter, closer, sender, receiver and handler, one action per channel, pipe or service operation |
| `EchoSession` | one test or dump request with its goroutines | pump, closer, echo goroutine and handler, one action per channel or pipe operation |
| `OggWriter` | the converters of a request as Ogg writers, their pipes and the shared file | one action per page written, per outcome of the `select`, and per step of `Close` |
| `Results` | the receiver loops of aws and gcp, `buildMessageV2` and the filters | a result arrives, an alternative is looked at, `Encode` fails, the end |
| `SuzuServer` | `main`, `Start`, `StartExporter`, their listeners | one action per return of a listener, `select` case, return of `Shutdown`, exit |
| `SpeechHandlerProofs`, `PacketHeaderProofs`, `OpusChannelProofs`, `TranscribeSessionProofs`, `EchoSessionProofs`, `OggWriterProofs`, `ResultsProofs`, `SuzuServerProofs` | theorems about the module of that name | |
| `MC...` | instances for TLC; `MCOggWriter` also has `RecordingKeepsAudio`, which the code violates | |

`TranscribeSession` and `EchoSession` compose `SpeechHandler` with the goroutines
of the services and refine it; `OpusChannel` refines `PacketHeader`. A definition
named after another with a suffix (`Write_granuleLate`) is that definition with a
plausible mistake; it is used only to see that a property notices the mistake.

### SpeechHandler

`conf` is the server's configuration (service of the route, `max_retry`),
chosen once. `pc` is the place in the code: `start` (before the loop), `handle`
(inside `Handle`), `retryWait` (the labelled `select`), `read` (the inner loop),
`done`. `status` is 0 until a header is committed; `Commit` says that the first
one wins, which is how echo and net/http behave: `NoContent` or an error
returned after a write or a flush no longer changes the status. (echo's own error
handler may still append a `{"message": ...}` object when nothing but a flush has
happened; it is not one of suzu's typed messages and is left out.) `body` records for each message whether
it is a result or a `type:error` and the attempt it came from. `streamOver` is
the only trace of the audio: the client left, ended its body or broke the
framing. `cause` records the branch by which the handler returned.

What `Handle` and its reader may produce is the union over the service handlers;
`TranscribeSession` shows that the real goroutines stay inside it. Two external
behaviours are modelled from how the code uses them: gRPC's `Send` returning
`io.EOF` on an ended stream (`HandleSendEOF`), and Recover turning the panic of
`reader.Close()` on a nil reader into a 500 (`RetryTimerFires`).

### PacketHeader and OpusChannel

`PacketHeader` keeps the client's whole stream in `wire`, so that what is sent on
(`out`) can be compared with it; `starts` is a history variable with the offsets
of the frames. `Clients` are streams together with the frames their client put into
them and where (`Framed`), which is what `DeliversClientFrames` compares with. The code has two copies of the length test, one for the first
frame of a chunk and one for the following ones; both are `NextWith`.

In `OpusChannel` the goroutines are numbered in the order of the channel
(`Stages`). `Hand(k)` is the rendezvous on an unbuffered channel between stage
`k` and the next one, or whoever takes from `opusCh`. A stage is `done` once it
has returned and closed its channel. `DeframerImplemented` says that the second
stage, seen alone, is a `PacketHeader` (with `INSTANCE ... WITH`).

### TranscribeSession

`att[a]` holds the state of attempt `a`'s goroutines and pipes. Pages are
numbers: -1 and 0 for the two header pages, `i` for packet `i` of the request.
`sent` is the history of what the service got. The variables of `SpeechHandler`
are part of the state and `Handler == INSTANCE SpeechHandler`, so most handler
steps are steps of that module with more detail; those that are not literally
(`FirstPageFails`, `SendFirstFails`, `RetryClosed`, `ReadMessage`, `ReadEOF`)
are shown to be by `HandlerImplemented`. The sender's deferred calls differ:
aws closes the stream, gcp closes the sending side and then the client, after
which `Recv` fails; this is why a gcp request normally ends with an error
message from the receiver.

### EchoSession

The variables of `SpeechHandler` are part of the state, as in
`TranscribeSession`; there is one attempt only, for neither service is retried.
`inW` and `outW` are the write ends of the two pipes, open or with the error they
were closed with. `/test` reports a broken input as a message before it closes its
pipe with the same error; `/dump` closes its pipe plainly. Nobody closes the
reading end of the first pipe, so a pump that writes what echo no longer reads is
freed by `closeOnDone` alone. Empty packets pass through the pump and are not
answered. The dump file may refuse to be opened (`OpenDump`) or to take an entry
(`DumpFails`); either closes the second pipe with the error, and the handler reports
it. `EncodeFails` is the other half of the `MultiWriter`: the response is gone.
`broken` is a history variable: the client broke the framing or its body failed,
which `input` no longer shows once the pump has taken the error item.

### OggWriter

`w[a]` holds the converter and the writer of attempt `a`, with the source's field
names (`pageIndex`, `previousGranulePosition`, `lastPayloadSize`). A page is a
record of what its header says; `piped` is the history of what went through the
pipe to the service. The file is a sequence of labelled bytes, so that a write in
the middle of another attempt's page, a gap after a truncation, and the rewrite of
`Close` are what they are on disk. `Close` has three steps because another attempt
may truncate or write the file between them. `WriteToStream` has the order of
`io.MultiWriter`: the file, then the pipe. By the time of `Close` the pipe is
always closed, so the rewritten page reaches only the file and `Close` returns
before it closes the descriptor. `NewWriter` has the initial values of
`NewWithoutHeader`, which `patch/oggwriter.go.patch` adds to the file.

### Results

A text is a sequence of words and an item of an alternative has a type, a duration,
a score and its content. `BuildMessage` is `buildMessageV2` with its loop as a
recursive function (`Collected`). `details` switches the optional fields on; one of them
(`id`) stands for `channel_id`, `result_id` and `stability`.

### SuzuServer

`listener[s]` is the goroutine that serves, `fn[s]` the function under the
errgroup. `ErrServerClosed` is dropped by the API's goroutine and sent by the
exporter's. What `Shutdown` waits for (`Busy`) is external: it does not know the
connections h2c has hijacked, so only streams over TLS count, and it stops waiting
when its context, the group's, is done.

## 3. Runs

Runs finish within a minute with two workers, `opus` within about two.

| run | configuration | checks | result |
|---|---|---|---|
| `speech` | `Speech.cfg` | `TypeOK`, `HonestStatus`, `RetryBudget`, `BodyOrder`, `ErrorEndsAwsStream`, `OnlyReconnectsFailSilently` | hold |
| `packet_header` | `PacketHeader.cfg` | `TypeOK`, `FramesExact`, `NothingWithheld`, `LimitEnforced`, `DeliversClientFrames` | hold |
| `opus` | `Opus.cfg` | `AudioIntact`, `NothingLost`, `NoAudioAfterError`, `DeframerImplemented`, `CancelStopsAll`, `EndReachesConsumer` | hold |
| `session` | `Session.cfg` | `AudioOnce`, `CallAfterPacket`, `HandlerImplemented` | hold |
| `session_live` | `SessionLive.cfg` | `AttemptsStop`, `RequestEnds` | hold |
| `echo` | `Echo.cfg` | `EchoInOrder`, `TestReportsBrokenInput`, `HandlerImplemented`, `EchoStops` | hold |
| `ogg` | `Ogg.cfg` | `TypeOK`, `ServiceStream`, `PagesReadable`, `SoleRecording` | hold |
| `results` | `Results.cfg` | `SentAsConfigured`, `WeakWordsHidden` | hold |
| `server` | `Server.cfg` | `ExitNamesFailure`, `ExporterFailureExits`, `APIFailureExits`, `BlockedListenerEnds` | hold |
| `speech_retry_panic` | `SpeechRetryPanic.cfg` | `RetryKeepsClient` | violated |
| `speech_lost_failure` | `SpeechLostFailure.cfg` | `FailureIsReported` | violated |
| `ogg_recording` | `OggRecording.cfg` | `RecordingKeepsAudio` | violated |

### What the passing runs show

* `speech`: for every service with `max_retry` 0, and aws and gcp with 2, the
  header is only sent after a connection. A request that never connects is answered
  200 only if its client ended the stream, or the body has the message of a
  `SuzuConfError` (4 below), or gcp ended its stream before the first
  audio (5 below). The retry count stays within `max_retry` and is 0 whenever
  results are read, so `max_retry` limits retries in a row that do not connect,
  not those of a request (7 below). Messages of attempts do not
  interleave. A client that is still there learns of every failure but one of `Handle`
  on a reconnection (`speech_lost_failure`) and that early end of gcp.
* `packet_header`: whatever the cut into chunks, frames come out exactly.
* `opus`: the same for the whole chain with silence inserted anywhere, and
  nothing is lost between the goroutines when the client ends its body.
  `AudioIntact` and `NothingLost` compare with the packets the client framed. After
  the error item silence may come, but no audio. After a cancellation every
  goroutine of the chain returns even if nobody takes from `opusCh`. This rests on `closeOnDone` closing the body and
  on each stage closing its channel: the silent goroutine has no `ctx.Done` case
  while it waits (`options.go:49`).
* `session`: the goroutines implement the request handler's view of `Handle`;
  each service stream starts with the two header pages and continues with
  packets in order; no packet goes to two attempts. An attempt calls the service
  only once its converter has had a packet. A packet may be lost at a
  reconnection: the converter of the old attempt may take one more from
  `opusCh`. Nothing in the repository promises otherwise.
* `session_live`: no goroutine of a cancelled attempt stays blocked, and a
  request whose client has ended ends. A receiver may have more results when nobody
  reads its pipe any more, because the handler has returned or reconnected: only the
  failing `Encode` gets it out. It takes results enough for one to be read and one to
  be stuck.
* `echo`: the goroutines of `/test` and `/dump` also implement the request
  handler's view. The dump file has every packet in order, but the last one if its
  write fails, and is at most two ahead of the response, and that only after the
  handler has returned. A broken input of `/test` leaves an error message in
  the response unless the request context is cancelled first.
* `ogg`: the service's stream is well formed wherever the converter is stopped; the
  segment table is right at multiples of 255 too and wraps only from 65025 bytes
  on. The file is complete as long as a single attempt has it open; `Close` marks the
  last page when its packet fits in one segment, and leaves the pages before it
  alone whatever its size (for larger ones see 8 below).
* `results`: the loop with its two filters and their exceptions sends exactly the
  messages that the reference definition, written from the configuration's
  description, promises. A word below the minimum score still reaches the client in
  partial results; with `final_result_only` it does not.
* `server`: the process exits after any failure and logs that failure. When the API
  fails first, its `Shutdown` waits for open streams over TLS with a live context,
  so the exit may take as long as a client streams. The exporter's goroutine blocks
  for good on its channel when the API failed first, and ends with the process.

### Where code and comments disagree

The first three are runs, one for each way in which a client loses something it was
promised: its request, the news of a failure, its recording. The other five are
properties with a configuration of their own, outside the list of runs; TLC shows
every one of the eight violated (`tlc -config SpeechConfError.cfg MCSpeechHandler`).

1. `speech_retry_panic`, `handler.go:180`: after a retryable `SuzuError` (429) the
   reader is nil; `reader.Close()` panics when the retry timer fires. The comment at
   `handler.go:169` says the client's connection is kept.
2. `speech_lost_failure`, `handler.go:211`: a `SuzuError` on a reconnection ends a
   committed 200 without a message; `CHANGES.md:347` says errors after the
   connection are sent as `type:error`.
3. `ogg_recording`, `handler.go:402`: a reconnection truncates the recording of the
   request; `CHANGES.md:239` and `config_example.ini:87` say that the received audio
   is saved.
4. `ConfErrorIs500` in `SpeechConfError.cfg`, `handler.go:229`: for a `SuzuConfError` the message is
   written first, which commits 200; the comment at `handler.go:240` says 500.
5. `EmptyAnswerIsTheClients` in `SpeechSendEOF.cfg`, `speech_to_text.go:90`: an `io.EOF` of gRPC's `Send` reaches the
   handler, which takes it for the end of the client (`handler.go:148`): a client that
   still streams gets an empty 200.
6. `RetryAfterClientAudio` in `SessionSilence.cfg`, `handler.go:598`: with silent packets enabled, the default, a
   retry connects on silence; `CHANGES.md:171` says that a retry waits for audio of the
   client. With `disable_silent_packet` it does (`CallAfterPacket`).
7. `RetriesWithinLimit` in `SpeechEndlessRetry.cfg`, `handler.go:298`: every connection resets the count, so a
   service that accepts and disconnects is retried without end and the branch for an
   exhausted budget is dead. `CHANGES.md:338`, `handler.go:334` and
   `config_example.ini:77` speak of a number of retries after which the request ends
   with an error. The documents disagree among themselves: `README.md:33` of the
   repository advertises endless retries, and `CHANGES.md:283` introduced the reset.
8. `CloseUpdatesLastPage` in `OggClose.cfg`, `oggwriter.go:230`: `Close` goes back over one segment only; after a last
   packet of 255 bytes or more the first bytes of the old page header stay in front of
   the rewritten page. The comments at `oggwriter.go:229` and `:245` say that it goes back
   one page and updates the last page.

### Bounds

| bound | value | why it is enough |
|---|---|---|
| `MaxAttempts` | 4 in `speech`, 2 in `session` | more attempts than `max_retry`, so that a budget could run out; two suffice for an attempt to overlap its successor, and attempts are alike |
| `MaxBody` | 4 | messages of three attempts and a report; in `session` never reached |
| `Configs` | every service with `max_retry` 0; aws and gcp with 2 (1 instead of 2 in `session` and `session_live`) | below 1, and a budget of several |
| `AwsCodes` | 0, 400, 429, 500 | no response, not retryable, retryable, invalid code replaced by 500 |
| `HeaderLength`, `MaxPayloadLength` | 5, 3 in `packet_header`, 4, 2 in `opus` | the code reads only the last four of its 20 bytes; lengths below, at and above the limit occur |
| `Clients` | streams of up to three frames, with empty, partial and oversized ones | frames spanning chunks, several frames per chunk, each error |
| `MaxSilent` | 1 | silence at any position |
| `Packets`, `MaxResults` | 2, 1 in `session`; 1, 2 in `session_live` | one packet for each attempt, or both for one; a result that is read and one that is stuck |
| `DisableSilentPacket` | TRUE in `session` and `session_live`, FALSE in `SessionSilence.cfg` | silence moves the converter as a packet does and differs only in the history `heard`, on which `CallAfterPacket` puts the condition; the theorems are for both values |
| `Packets` in `echo` | 3, and any number of empty ones | one in each goroutine |
| Ogg sizes | page header 2 (27), segment 2 (255), segment counts 4 (256), page numbers 16 (2^32), Opus headers 1 (19, 21) | packets of 1, 2 and 6 bytes have one segment, a full one with its terminator, and a count that wraps; the theorems hold for the real sizes |
| `MaxAttempts`, `MaxPackets` in `ogg` | 2, 3 | an attempt overlaps its successor, and one of them has two packets |
| `ServiceResults`, `MaxResults` in `results` | 35 results, 2 | items that are good, short, weak, unrated, punctuation or empty, alone and together; the fields of a result must not stick to the next |
| `MaxStreams` | 2 | none, one, several |

Deadlock is not checked: a request that has ended, and a process that has
exited, is a state without successor.

### Fairness

`opus`, `session_live`, `echo` and `server` assume weak fairness of goroutine steps that stay
possible: the Go scheduler runs every runnable goroutine, and a rendezvous of two
waiting goroutines happens. Nothing is assumed of the client (it may stay
connected and silent) or of the timers: in a retry wait the handler is only assumed to
take the error item or the closed channel once the client's stream is over. Of the service only that its calls
return: `Connect`, `SendFirst` and their failures are part of the handler's
fairness; it need never send a result or end its stream. `EndReachesConsumer` is
conditional on a consumer that keeps taking (`Consumed`). `MaxSilent` also keeps
the silent goroutine from preferring its timer for ever; in the code `select`
chooses at random among ready cases. In `echo` nothing is assumed of packets
arriving. In `server` listeners need not fail and streams need not end; only
that a listener returns once its server is shut down, that `Shutdown` returns when
it has nothing to wait for or its context is done, and that `main` goes on.

## 4. Proofs

For every value of the constants satisfying the assumptions
(`SpeechHandlerAssumption`: limits are integers and no failed call is answered
200; `PacketHeaderAssumption`: the header has at least four bytes, streams
consist of bytes and are `Framed`, which leaves none out (`AnyStreamFramed`);
`OggAssumption`: sizes are positive, a packet has a TOC byte and,
with code 3, its count byte, and a request has fewer packets than there are page
numbers; `SuzuServerAssumption`: the bound is a number; `SessionAssumption`: there
is at least one attempt; `SessionBounds` and `EchoSessionAssumption`: the module's
services are the ones it models, the assumptions of `SpeechHandler` hold of the
configuration, and the bound on the body leaves room for the messages the other
bounds allow, so that it never keeps the goroutines from a step;
`OpusChannelAssumption`: the options are booleans and the deframer's constants are
as in `PacketHeaderAssumption`; `ResultsAssumption`: the service is aws or gcp,
thresholds are integers, and a result has a sequence of alternatives, each with a
transcript and a sequence of items):

| theorem | states |
|---|---|
| `SpeechHandlerProofs!TypeCorrect` | `Spec => []TypeOK` |
| `SpeechHandlerProofs!StatusIsHonest` | `Spec => []HonestStatus` |
| `SpeechHandlerProofs!RetriesBounded` | `Spec => []RetryBudget` |
| `SpeechHandlerProofs!BodyOrdered` | `Spec => []BodyOrder` |
| `SpeechHandlerProofs!FailuresReported` | `Spec => []OnlyReconnectsFailSilently` |
| `SpeechHandlerProofs!AwsErrorIsLast` | `Spec => []ErrorEndsAwsStream` |
| `PacketHeaderProofs!TypeCorrect` | `Spec => []TypeOK` |
| `PacketHeaderProofs!DeframingExact` | `Spec => []FramesExact` |
| `PacketHeaderProofs!DeframingPrompt` | `Spec => []NothingWithheld` |
| `PacketHeaderProofs!LimitHolds` | `Spec => []LimitEnforced` |
| `PacketHeaderProofs!ClientFramesDelivered` | `Spec => []DeliversClientFrames` |
| `PacketHeaderProofs!AnyStreamFramed` | every sequence of bytes is the stream of some client |
| `OpusChannelProofs!NoAudioFollowsError` | `Spec => []NoAudioAfterError` |
| `OpusChannelProofs!ChannelDeframes` | with headers: `Spec => DeframerImplemented` |
| `OpusChannelProofs!ChannelFramesExact` | with headers: `FramesExact`, `NothingWithheld` and `LimitEnforced` of the deframer in the channel |
| `OpusChannelProofs!ChannelAudioIntact` | with headers: `Spec => []AudioIntact` |
| `OpusChannelProofs!ChannelNothingLost` | with headers: `Spec => []NothingLost` |
| `EchoSessionProofs!EchoesInOrder` | `Spec => []EchoInOrder` |
| `EchoSessionProofs!BrokenInputReported` | `Spec => []TestReportsBrokenInput` |
| `EchoSessionProofs!EchoImplementsHandler` | `Spec => HandlerImplemented` |
| `EchoSessionProofs!EchoKeepsPromises` | `HonestStatus`, `RetryBudget`, `BodyOrder`, `OnlyReconnectsFailSilently` of `SpeechHandler` |
| `TranscribeSessionProofs!SessionImplementsHandler` | `Spec => HandlerImplemented` |
| `TranscribeSessionProofs!SessionKeepsPromises` | the same four, and `ErrorEndsAwsStream` |
| `TranscribeSessionProofs!AudioGoesOnce` | `Spec => []AudioOnce` |
| `TranscribeSessionProofs!CallsFollowAudio` | `Spec => []CallAfterPacket` |
| `OggWriterProofs!TypeCorrect` | `Spec => []TypeOK` |
| `OggWriterProofs!StreamCorrect` | `Spec => []ServiceStream` |
| `OggWriterProofs!TablesCorrect` | `Spec => []PagesReadable` |
| `OggWriterProofs!RecordingCorrect` | `Spec => []SoleRecording` |
| `ResultsProofs!SendsAsConfigured` | `Spec => []SentAsConfigured` |
| `ResultsProofs!HidesWeakWords` | `Spec => []WeakWordsHidden` |
| `SuzuServerProofs!ExitCorrect` | `Spec => []ExitNamesFailure` |

*Induction over data.* Four of the arguments below need it. The library's induction
theorems have an operator as a parameter and cannot be used here, but that a
nonempty set of numbers has a least element (`WFMin` with `NatLessThanWellFounded`)
is a statement about a set. Lemma `SetInduction` draws induction from it: a set with 0
and with the successor of each of its numbers has all numbers. With it, `Recursion` shows
that a loop over `1..n` has values (`IsLoop`), so a recursive function over `0..n`
is what its definition says.

*SpeechHandler.* None of the invariants is inductive alone. `IInv` adds `Phase`,
which ties the place in the code to the numbers of attempts and connections and
says that while `Handle` runs no message carries the current attempt, and
`OnlyRemoteCounts`, without which a connection of the test handler (which does
not reset the count) could leave a positive count. Most actions return without
touching the body; they share the lemma `ReturnStep`. Those that report share
`ReportStep`, and `MessageStep` uses that a service handler writes nothing after
its own error message. `FailuresReported` then follows from `IInv` of both states
of a step: a failure of `Handle` leaves `attempt = connects + 1`, and by
`HonestStatus` it is only answered 200, without a message, when an earlier attempt had
connected or gRPC's `io.EOF` was taken for the client's.
`AwsErrorIsLast` needs that the configuration never changes and that only the
handler's own report, with which it returns, writes an error for aws (`AwsStep`).

*PacketHeader.* The invariant relates the buffer to the stream: what is buffered
is `wire` from the start of the next frame to what has been received. The lemmas
about `SubSeq` say that this is kept when a chunk is appended and when a frame is
cut off, and that a length read from the buffer is the one in the stream. The
program counter is always `NextWith` of the buffer, which gives
`NothingWithheld` and `LimitEnforced`. `ClientFramesDelivered` compares the offsets the
goroutine found, in `starts`, with those of the client: by induction on the number
of frames they agree (`Agree`), since either one announces the length that leads to
the next. At the end of the stream no frame is left, because a further one would be in
the buffer (`NothingWithheld`) or within the limit (`LimitEnforced`).
`AnyStreamFramed` cuts frames off until none is left; each takes at least a header's
length, so this ends.

*OpusChannel.* `NoAudioAfterError` speaks of what the consumer has taken, so the
invariant adds what can still come: once the error has been taken, the goroutine
that sends to `opusCh` has returned, or it is the silent one, the goroutine before
it has returned and it holds no audio (`Exhausted`). That needs `ErrorFollowsReturn`:
while the silent goroutine passes on the error, the one before it has returned. This
holds for each of the four chains the two options make.

With headers the second goroutine is shown to be a `PacketHeader`. That a chunk it
receives is the continuation of the stream is known only to the reader, so `ReadInv`
says that `readPacket` is at most one chunk ahead and that this chunk, the one it is
sending, is the stretch of `wire` from `recvd` to `pos`. Then `Hand(1)` is `Receive` or
`ReceiveErr`, `Hand(2)` is `Send` or `SendErr`, and the steps of the others leave the
deframer's variables alone. `ChannelFramesExact` carries the theorems of
`PacketHeaderProofs` over: the module is instantiated with the same mapping, its
assumption follows from `OpusChannelAssumption`, and what it proves of its
specification holds of the channel's. `Delivery` follows the payloads further. `Counts`
says that those the deframer has sent on are those taken and the one the silent
goroutine holds, `Matched` that they are the same ones in the same order. `Ends`
says why goroutines return: with a live context each was told by the one before it, and
the first by a Read that had nothing more. A closed `opusCh` and a live context then
leave only the way by which everything went through (lemma `WholeStreamDelivered`).
`ChannelAudioIntact` and `ChannelNothingLost` join these to `ClientFramesDelivered` of
the deframer in the channel: the payloads taken are the first ones the deframer has sent on,
and those are the client's frames.

*TranscribeSession.* `AudioOnce` speaks of what the service has got; `AudioInv` adds
what is on its way. `SentOK` and `PagesOK` follow one attempt: the page that the
handler or the sender holds, and the pages the converter still has to write, are the
continuation of what has been sent, as long as somebody reads the pipe (`Live`; once
nobody does, the pages left behind say nothing). `Owned` follows the packets across
attempts: all numbers held anywhere are at most `fed`, and a packet is in the hands
of one attempt only, which is why a converter that goes on taking packets after its
attempt has been given up loses them but never has them sent twice. `StartOK` says
that the handler has sent nothing for an attempt it is still starting. `HeardOK` ties
the call of the service to the converter's first packet. Most actions move no audio
(`Quiet`, lemma `QuietStep`); for those that do (a new attempt, `ConvTake`, the two
reads and the two sends) `MoveStep` reduces the goal to the attempt that moves. No
bound on packets, results or attempts is used.

*TranscribeSession as SpeechHandler.* The variables of `SpeechHandler` are variables of
`TranscribeSession`, so the mapping is the identity and the question is whether each
outcome the goroutines produce is one `SpeechHandler` allows at that moment.
`HandlerInv` says what must be known of the goroutines for that: a converter's pipe
ends without an error only when the client's stream or the attempt is over
(`AttemptOK`), so an `io.EOF` that `Handle` returns does mean the end of the client;
a receiver writes no report before it returns, and a gcp receiver that closes
its pipe without an error has written one unless the client left (`Reading`), so that
`ReadMessage` and `ReadEOF` are steps of `SpeechHandler`; messages number no
more than the results received and one report per attempt, so the bound on the body is
never what stops the goroutines (`BodyBound`). Steps of goroutines, those of attempts
given up included, leave the handler's variables alone and keep the invariant
(`Goroutine`). `SessionKeepsPromises` instantiates `SpeechHandlerProofs` and
carries its theorems over.

*EchoSession.* `InFlight` counts the packet between pump and echo, `Answered` the answer
echo owes and the one a returned handler no longer took, `Recorded` the entry the file
refused. `TestReportsBrokenInput` starts at the input and ends at the response, so
`Passed` follows the broken input on its way, as long as the context lives: it is in
`opusCh`, then in the first pipe, then in echo's hands. It rests on `Upstream` (before
a cancellation only the pump closes that pipe), `Reported` (the pipe of `/test` is closed with an error only after the error
message) and `Closing` (a pipe closes only after the client's stream or the
handler has ended). The refinement and `EchoKeepsPromises` are as for
`TranscribeSession`.

*OggWriter.* `ServiceStream` is not inductive: what the next page will carry is in
the writer's fields. `StreamInv` adds `HasPacket` (the packet being written has been
taken) and `Position`, which ties `pageIndex`, `previousGranulePosition` and the
place in the code to the pages already in the pipe: until the goroutine goes on to
`Close`, the index is their number and the granule position that of the last one.
After a write that the pipe refused this no longer holds, but then nothing is piped
any more.
`RecordInv` adds what `SoleRecording` needs while a single attempt has the file open.
`Packed`: the counters describe the last page, and the page number cannot have wrapped.
`OnFile`: the file is the bytes of the pages written (`Concat`), the descriptor is
at its end while the goroutine writes and where `Close` seeks after that, and what
`Close` reads back is the last payload. `Follows`: an attempt alone with the file came
after those that have returned, and these do not write (`Apart`). Pages appended are
`ConcatAppend` and `WriteAtEnd`; the three steps of `Close` are `SeekBack`, `ReadBack`
and `WriteOver`: the file is then the earlier pages, as many bytes of the old page header
as the page has segments beyond the first, and the page again as the end of the stream.
`Closed` follows, and with one segment nothing is in between.
`GoodStream` compares granule positions with RFC 6716's table, by arithmetic on the
configuration number, not with the `switch` of the code. `TablesCorrect` is integer
division for an arbitrary segment size.

*Results.* `SentAsConfigured` says that there is an order-preserving matching between the
alternatives that are to be shown (`Promised`) and the messages sent, and what each
message carries. `IInv` adds that the alternatives still to be looked at are the end of the
last result's (`Rest`), so that a new message belongs after all earlier ones. The loop of
`buildMessageV2` is compared with the reference in three steps: it appends the
contents of the items it keeps (`LoopJoins`, by induction), it keeps those that
the configuration asks for (`KeptWanted`), and it notes whether one of
them is more than punctuation (`LoopSpoken`); `MessageCorrect` sums up. `WeakWordsHidden`
follows: a word of a message is a word of an item that was kept (`WordOfItem`).

*SuzuServer.* `GroupInv` says that a function's result is a failure only if its
listener has failed, that a cancellation is a result only once the group has an
error, and hence that the group's first error is never a cancellation.

Each of these invariants was also checked by TLC on the instance of the module's run.

Every safety property of the passing runs is a theorem. Those of `OpusChannel` that
compare with the deframer or with a client's frames are proved, and checked, with
`AudioStreamingHeader`: without it there is no deframer. Left to TLC: liveness under fairness (`CancelStopsAll`,
`EndReachesConsumer`, `AttemptsStop`, `RequestEnds`, `EchoStops`,
`ExporterFailureExits`, `APIFailureExits`, `BlockedListenerEnds`), which is beyond the
provers used.

## 5. Not modelled

* `config.go` (reads an ini file once, fills defaults and validates), `logger.go`,
  `healthcheck_handler.go`, metrics: no state that another part changes or waits for.
* Parameters of the service requests, credentials, TLS. `OnResultFunc` is nil on
  every route (`server.go:113-115`).
* Of the Ogg writer: `New`, `NewWith` and `WriteRTP`, which suzu never calls;
  checksums; failing writes to the disk; the descriptor that `Close` leaves open
  because the pipe refuses its page (`oggwriter.go:241`); code 3 packets of one byte
  (`oggwriter_ext.go:18`).
* Packets larger than `FrameSize`, which a reader of the echo pipe gets in parts.
* Words of an alternative are joined without a space (`buildMessageV2`): wording.
* `readPacket` drops bytes returned together with an error (`handler.go:532`);
  HTTP/2 bodies of net/http return data and error separately.
* Memory: deferred calls pile up with each reconnection (`handler.go:144`), and the
  error returns after `NewClient` do not close the gRPC client
  (`speech_to_text.go:59`).

## 6. Plan

Done: all components with state of their own are modelled and checked; the safety
properties are proved, and so are the refinements (`OpusChannel` of `PacketHeader`,
`EchoSession` and `TranscribeSession` of `SpeechHandler`), with the theorems of the
abstract modules carried over to the detailed ones. What could be added:

1. `OpusChannel` without headers: what the consumer takes, silence aside, are the
   chunks the reader has read, in order and without a gap.
2. `TranscribeSession`: a packet the consumer of the channel takes is either sent,
   held, or was in the hands of an attempt given up.
