# A verification of the ngi-p voice SDK

`ngi-p` is the client library of a cloud speech-recognition service, written in
C++/C for Android and Windows. An application opens a session, posts PCM audio
in chunks, and asks for the recognised text; the library compresses the audio,
uploads it from a thread of its own, and answers. This directory holds TLA+
models of it, the TLC configurations that check them, and theorems checked by
the TLA+ proof system (TLAPS).

About 4,000 lines of the repository are the SDK's own. With them it carries the
sources of a POSIX threads library for Windows (`src/pthread/pthreads.2`) and
of the SILK speech codec (`src/silk`), both of which the SDK is built on and
both of which have protocols of their own; they are modelled too. Of libcurl
and the JSON parser only headers and binaries are there: they are external.

- [The system](#the-system): components, state, operations, interactions
- [What is hard](#what-is-hard)
- [Modules](#modules): what models what, and how it corresponds to the code
- [Runs](#runs): instances, properties, bounds, fairness
- [What is proved](#what-is-proved)
- [Divergences found](#divergences-found)
- [Not modelled](#not-modelled)
- [Plan](#plan)

`PROJECT.json` is the index: components, runs, the source lines behind every
definition, hazards, mutants and theorems.

## The system

### Session interface: `VcyberVoiceSDK.cpp`

State: the process globals `g_configs` (configuration), `p_Timelog` (log),
`curl` (the easy handle of the session exchange), `session_id` (the cookie) and
`seq_lock` (the one mutex); and for every session a `SessionParam` (counters,
parameters, codec handles) with a `dataBuf` (queue `q_buf`, `m_result`, the flags
`b_start`, `b_run`, `b_last` and libcurl's `c_code`).

| call | what it does |
|---|---|
| `CloudVDInit` | parses the configuration, opens the log, may resolve the server's name |
| `CloudVDStartSession` | makes a `SessionParam`, performs SessionBegin on a new easy handle, stores the cookie and the address it reached, creates the upload thread and waits for `b_start` |
| `CloudVDPostData` | encodes the chunk (`tsilk_in`); with less than `SILKSIZE` bytes and not the last chunk it returns; else builds a PutAudio packet and pushes it under `seq_lock` |
| `CloudVDGetResult` | in a `vinput` session before the last chunk: the partial result at once; else polls `b_last` and `c_code`; returns a pointer to `m_result` |
| `CloudVDEndSession` | clears `b_run`, waits for `b_start` to clear, performs SessionEnd, deletes the session, cleans up the easy handle |
| `CloudVDFini` | cleans up, deletes the log |

Correct if: the queue is never popped when empty, the mutex excludes, no session
is deleted under its thread, the service receives the audio in order and
without gaps under the session's own cookie, `GetResult` tells what became of
the upload and gives the result of all the audio, and the waiting calls return.

### Upload thread: `ThreadPostData`, `PostData`, `CurlInit`

One per session. While `b_run`: if the queue is not empty (read without the
lock) and `c_code` is good, pop under `seq_lock`, upload with one retry, write
the text and `error_code` of the reply into `m_result`, then `c_code`, then
`b_last` if the packet was the last. Otherwise sleep 1 ms. It shares `dataBuf`
with the application's threads and the globals with every session.

### Session parameters: `Configs.cpp`, `get_data` and `GetUserInfo` in `SdkLib.cpp`

`Configs::Init` reads the SDK's configuration, the constructor of `SessionParam`
a session's parameter string on top of it; it makes the two `tsilk` codecs from
format and quality, and may return early at several places. The destructor frees
the codecs, SessionBegin tells the service the rest. Correct if the encoder
works as the service is told, no part of a codec leaks when another part fails,
and every member of the string reaches the service.

### Encoder and buffering: `VDPostData`, `tsilk.c` (edc 1)

`tsilk_in` puts together 960-byte frames from what the last chunk left over
(`ptk->in`) and this chunk, encodes each, and appends the encoded bytes behind
a two-byte length to `ptk->out`, which grows in blocks of 8192. `tsilk_out`
empties it. Correct if no byte is lost, repeated or reordered, the buffers are
large enough, and the lag behind the microphone is bounded.

### Decoder: `tsilk.c` (edc 2)

The reverse: length-prefixed frames from chunks cut anywhere. Every session
owns a decoder; the SDK never feeds it. Correct if each frame reaches the codec
whole, in order, as soon as it is complete, and inside the buffers.

### Resolver race: `Parsing_IP`, `Get_IP_pod`, `Get_IP_normal` in `DNS.cpp`

Two detached threads ask an HTTP name service and `getaddrinfo`, and write
status and address into the globals `pod_ip` and `normal_ip`; the caller polls
both, takes the first good answer, and sends SIGUSR1 to the threads still
alive, whose handler calls `pthread_exit`. At this commit `CloudVDInit` calls
the sequential `DNS_pod` (`src/VcyberVoiceSDK.cpp:327`) and the call of
`Parsing_IP` on the next line is commented out; the code is complete and is
modelled as it stands. Correct if an address is published before its status,
the call gives up only after the name service has, and it returns.

### Threads library: `src/pthread/pthreads.2`

POSIX threads made of Win32 semaphores, events, critical sections and
interlocked exchanges. Each primitive is a struct that static initialisers,
first uses, timeouts, cancellations and destructions race for:

| primitive | state | promise |
|---|---|---|
| semaphore | value, negative while threads wait, under a mutex; a Win32 semaphore of wake-ups | a counting semaphore; a timeout that races with a post takes it or leaves it to another |
| mutex | `lock_idx` 0, 1 or -1, one event, owner and depth | one thread inside, no waiter left asleep |
| queue (MCS) lock | a tail and two flags per node | one inside, in order of arrival |
| barrier | heights, a step, two semaphores | nobody leaves early, one is told it is the serial thread |
| `pthread_once` | `done`, a queue lock | run once to its end, whoever is cancelled |
| spin lock | an interlocked word, or a mutex on one processor | one inside, made once |
| read-write lock | two mutexes, a condition variable, counts of readers that came and went | one writer or readers; a waiting writer gets in |
| condition variable | gate, queue, unblocking mutex, counts of blocked, gone and to be unblocked | no lost and no stolen wake-up |
| thread | `ptw32_thread_t` that is reused, reuse counter, state, detach flags | freed once, joined or detached; cancelled only if asked |
| key | two chains of associations with two locks | destructors run, nothing dangles, no deadlock |

### SILK library: `src/silk`

- *Range coder*: an interval narrowed by each symbol, carries that run back
  through written bytes, a flush of as few bits as will do, a decoder that
  reads four bytes ahead. Correct if the symbols come back, whatever is in
  memory behind the payload.
- *Excitation*: sums of blocks halved until they can be coded, split down a
  tree, dropped bits and signs. Correct if the decoder asks for the symbols the
  encoder wrote.
- *Quantiser*: several paths of decisions followed at a time, a sample settled
  only later; the decoder knows one seed and the settled pulses. Correct if what
  it plays is what the encoder predicted from.
- *Packets*: frames gathered into packets, a redundant second coding of the
  last ones, suppressed silence, changes of rate and length between and inside
  packets, full coders; at the other end loss, damage, and the search for the
  second coding. Correct if a frame is decoded in the context it was coded in.
- *Internal rate*: a ladder of four rates that follows the bit rate through
  silences, under a filter that closes and opens over seconds. Correct if the
  audible band never jumps of the encoder's own accord.
- *Gains*: a packet's first gain coded for itself, the others as differences; the
  encoder, its second coding and the decoder keep a last index each. Correct if
  the decoder plays with the gains the signal was quantised with.
- *Filters*: vectors of frequencies that must keep least distances, or the filter
  made of them is not stable. Correct if the stabiliser makes them so.
- *Resamplers*: between the callers' rate and the internal one, either of which may
  change at a call; a ratio in fixed point says how many samples are written, which
  the callers count on without being told. Correct if it is the number they count on.
- *Signal processing*: see [Not modelled](#not-modelled).

### The rest

`crypt.cpp` and `base64.hpp` (conversions), `TimeLog.cpp` (log), the JNI
wrapper, and `VcyberSpeex.cpp` and `Common.cpp`, which nothing calls.

### Interactions

```
 application threads --CloudVD*--> SessionParam / dataBuf <--flags, queue, result-- upload thread
        |                               |                                              |
        |                     tsilk encoder, tsilk decoder                       PostData: libcurl
        |                               |                                              |
        |                           libsilk: resampler, rate, gains, filters,          |
        |                           quantiser, excitation, range coder, packets        |
        '------ SessionBegin/End ---- curl, session_id, m_server_addr  ---- read by every upload
   everything above, on Windows: threads, mutexes, semaphores of pthreads.2
```

## What is hard

`PROJECT.json` lists every hazard with its line. In short:

- the queue's emptiness is tested outside the mutex; flags and results pass
  between threads without one;
- the life time of a session hangs on one flag the thread clears *before* its
  last accesses;
- uploads read the cookie and the address from globals that belong to no session;
- a lost reply is retried, into the buffer of the first attempt;
- "the last packet was handled" and "the upload failed" are two flags, tested in
  an order;
- fields of a session that an early return leaves as the memory was;
- frames, lengths and residues straddle chunks, and buffers grow in blocks;
- detached threads and signals outlive the call that started them;
- a timeout or a cancellation comes between a wake-up and the one it was for;
- an object is destroyed, freed or reused while others are on their way out of it;
- two locks are taken in opposite orders; a count reaches `INT_MAX`;
- a codec whose two ends share no state but the payload: a carry, a halving, a
  decision settled late, a lost packet or a change of rate in the middle of a
  packet puts them out of step for good;
- a buffer filled by a resampler that is not told how much to write.

Without a property: the call through a null log pointer after a failed
`pthread_create` (`src/VcyberVoiceSDK.cpp:468`: nothing after it is the program's),
and `pthread_exit` in a signal handler with the locks of libc or libcurl held
(`src/DNS.cpp:135`: these locks are external).

## Modules

| module | what | component |
|---|---|---|
| `VoiceSession` | state machine of interface, upload threads, globals, service | session interface, upload thread |
| `VoiceInvariant`, `UploadInvariant` | the inductive invariants `IInv` and `UploadInv` | |
| `VoiceSessionProofs`, `VoiceUploadProofs` | theorems about `VoiceSession`: control, life time and mutex; globals, upload and answer, and that it implements `AudioStream` | |
| `AudioStream`, `VoiceStream` | what the interface promises, and the refinement mapping | |
| `SessionConfig` | configuration and parameters of a session | session parameters, helpers |
| `SilkEncoder` | `CloudVDPostData`'s audio path | encoder and buffering |
| `SilkDecoder` | `tsilk_in` with edc 2, `tsilk_out` | decoder |
| `SilkStreamProofs` | theorems about `SilkEncoder` and `SilkDecoder` | |
| `ParsingIP` | the resolver race | `DNS.cpp` |
| `LookupInvariant` | its inductive invariant `LookupInv` | |
| `SetupProofs` | theorems about `ParsingIP` and `SessionConfig` | |
| `Semaphore`, `MutexLock`, `MCSLock`, `Barrier`, `Once`, `SpinLock`, `ReadWriteLock`, `ConditionVariable`, `ThreadLife`, `ThreadKeys` | one primitive each | threads library |
| `Exclusion`, `CountingSemaphore`, `AbstractBarrier` | what locks, semaphores and barriers promise | |
| `SyncProofs`, `SyncWaitProofs` | theorems about `MutexLock`, `Semaphore`, `SpinLock` and `Once`; about `ConditionVariable` | |
| `SilkRangeCoder`, `SilkPulses`, `SilkQuantizer`, `SilkPacket`, `SilkBandwidth`, `SilkGains`, `SilkResampler` | one part each | SILK library |
| `SilkNLSF`, `SilkNLSFTables` | the stabiliser of the filters; the distances it keeps, with their assumption | SILK library |
| `SilkCodecProofs` | theorems about `SilkNLSF`, `SilkBandwidth`, `SilkPacket` and `SilkResampler` | |
| `SumTheorems` | lemmas about sums and cardinalities of finite sets | |
| `MC*` | instances for TLC; symmetry sets; the properties modules share | |

`MCSetup`, `MCSilk`, `MCSync` and `MCSilkCodec` hold several modules each: a
behaviour is one of one of them, which a variable that never changes names, and
a property of theirs is the conjunction of what the modules promise of one kind.

### How `VoiceSession` corresponds to the code

A step is what a thread does between two accesses to data another thread may
change. `call[c].pc` is where application thread `c` is: `begin` (SessionBegin
in progress), `spawn`, `spawned` (waiting for `b_start`), `push`/`pushing`
(before and inside `seq_lock`), `poll`, `holding` (has the pointer, is copying),
`join` (waiting for `b_start` to clear), `bye` (SessionEnd), `free` (`delete sp`).
`worker[s].pc` is where the upload thread is: `test` (`while (b_run)`), `peek` (the
unlocked `empty()` and `c_code`), `lock`, `pop`, `send`, `retry`, `text`, `code`, `fail`,
`last`, `log` (the lines after `b_start = false`), `dead`. `sp[s]` and `m_data[s]`
carry the members' own names. The ghost parts are `sp[s].posts` and `closed`
(what the application has posted), `sp[s].start` (what StartSession
returned), `easy` (easy handles not cleaned up) and `server`.

A packet is a record of its two numbers, of how many posted chunks the audio up
to its end covers, and of `b_Last`. The text of a reply is named by the audio it
answers, so a stale answer can be told from the right one.

The service is external. A request is lost, or received and answered, or
received without a whole reply coming back; a reply accepts or refuses and may
have a text; the reply to the last packet always has one or an error.

`empty()` is read while another thread may be inside `push`: during a push on
an empty queue the read may give either answer.

How the application may call, after the header and `SDK_Test.cpp`:
one thread records; any thread may ask for results or end the session; a handle
is used after StartSession returned it and not after EndSession was called; Init
and Fini bracket the rest. Three constants open it up: `Overlapping` (a second
session before the first ends), `ReuseSession` (a second utterance in a session,
as in `SDK_Test.cpp`), `TrustHandle` (the handle is used although StartSession
failed, as the JNI wrapper makes its callers do).

### How `VoiceSession` implements `AudioStream`

`AudioStream` has no threads: packets are posted, delivered in order, and the
upload is open, complete, failed or over. In the mapping (`VoiceStream`) what is
pending is, in this order, the packet the upload thread has popped and the
service has not, the queue, and the packet the recorder is about to push; what
is delivered is what the service received, a retried packet once; the outcome is
read off `b_last` and `c_code` as `CloudVDGetResult` polls them. `GiveUp` is the
step at which what is pending is lost. A session of one utterance, whose handle
is not used when its start failed, implements it.

### How `SessionConfig` corresponds

`CloudVDInit` and `CloudVDStartSession` each get a record of members, any of
which may be `ABSENT`, or a string that is `UNPARSABLE`. A field no statement has
set holds any value of `Junk`, chosen when the object is allocated; a handle is
`UNSET`. `heap` is the set of parts of codecs that are allocated, `told` what
SessionBegin says. A text is its length and how many of its characters have to
be escaped, which is what the length of the ciphertext depends on.

### How `SilkEncoder` and `SilkDecoder` correspond

A buffer is the sequence of the audio bytes in it, numbered as they were
posted; a frame that has been encoded keeps them, next to the number of bytes
the codec made of it. `EncodeFrame` is one turn of the loop in `tsilk_in`,
`KeepRest` its end, `Buffer` and `Queue` the two ways out of `VDPostData`.
`EncodeFailed` is the codec's error; for the last chunk `VDPostData` then
allocates -1 bytes and the process ends (`crashed`).
In `SilkDecoder` a byte is `<<frame, position>>`; `CompleteLength`,
`StillIncomplete` and `CompleteFrame` resume a frame begun by an earlier chunk,
`KeepPartOfLength`, `KeepPartOfFrame` and `WholeFrame` are the loop. A caller
gives the stream up when `tsilk_in` returns -1, for its place in it is lost.

### How `ParsingIP` corresponds

`pc` is where the caller is, `thread[k][n]` the thread of kind `k` that call `n`
created. Every access to `pod_ip` and `normal_ip` by a thread is a step
(`StoreFirst` and `StoreSecond` in the order the code has them: address, then
status on success; status, then address on failure), and SIGUSR1 may act before
any of them, or after the next call has begun. The ghost `clean` says that no
thread of an earlier call was alive when the current one began. An iteration of
the caller's polling loop, and the 100 ms of grace, are one step each: the grace
may be over at any time.

### How the modules of the threads library correspond

Each has three variables: `obj`, the struct of the primitive and what it points
to, with the fields' own names; `pc`, where each thread is; `loc`, its local
variables. A step is one interlocked operation, one Win32 call, or what is done
inside a critical section or under a queue lock, which nobody else sees half of.
A Win32 wait may end by the object, by its timeout, or by the thread's
cancellation. A
critical section is a lock with one holder; where a module uses another
primitive (the barrier semaphores, the read-write lock a condition variable) it
uses what that module is shown to implement: a count, or a holder.

`MutexLock` has the three kinds and statically initialised mutexes; its
atomic exchanges on `lock_idx` are steps of their own, so a thread may wake with
-1 while another comes. `MCSLock` follows the exchanges in the order of the code,
also the one place where the library gives up (`Crashed`, below). In
`ReadWriteLock` `INT_MAX` is a constant, so counts wrap within the instance.
`ConditionVariable` has the gate, the unblocking mutex and the counters of
`pthread_cond_t`; a waiter is signalled, times out, or both. In `ThreadLife` a
thread is known by the struct it runs on, `x` tells an old `pthread_t` from a new
one, and `owned` says that a `pthread_t` of it may still be joined or detached.
`cancelLock` keeps nobody out who unlocks it without having locked it, as
`pthread_testcancel` does (`UnlockAgain`; `stolen` records whom it met). `pthread_detach`
therefore tests `state` (`DetachReads`), stores `detachState` (`DetachStores`) and
unlocks (`DetachLeaves`) in steps of their own, and so does the end of a thread
(`Last`, `LastUnlock`). What does hold throughout is `reuseLock`, the critical section
`ptw32_thread_reuse_lock`: taken in `DetachEnter`, given up in `DetachLeaves`, awaited by whoever
destroys a struct or takes one from the list. A caller may keep the `pthread_t` of a
thread it joined or detached and use it again (`DetachAgain`): it is `ESRCH` or `EINVAL`.
In `ThreadKeys` a chain is a sequence of keys, a lock of each key and of each
thread.

### How the modules of the SILK library correspond

`SilkRangeCoder` is the arithmetic of the C code, shifts, carries and all, with a
byte of `B` bits; what memory holds behind a payload is the least and the
greatest byte, as everything between decodes between them. `SilkPulses` codes
blocks of four samples instead of sixteen, down the same kind of tree;
its payload is a sequence of symbols with their distributions, which is what
`SilkRangeCoder` gives back. `SilkQuantizer` keeps, of each path, its seed, its cost, and
the ring of unsettled samples; the sound of a sample is named by what it is
computed from, which is what the two ends must agree on, and the filters are
left out. In `SilkPacket` a frame is its number, its rate and whether it is coded
for itself or after another; `Call`, `EncodeFrame` and `Return` are
`SKP_Silk_SDK_Encode`, whose loop calls `SKP_Silk_encode_frame_FIX` (`FrameEncoded`);
`Lose`, `Search` and `Receive` what the network and the
application do with a payload, `DecodeFrame` and `DecodeDamaged` a call of
`SKP_Silk_SDK_Decode`. `SilkBandwidth` has one step for the control of a call and
one for the frame it codes; how the bit rate is chosen is the caller's, whether
there is speech the microphone's.

In `SilkGains` a gain is the index of its level, and `EncodeFrame` codes a frame's
gains both ways; a packet arrives, is lost, or is lost and replaced by its second
coding (`Decode`). `SilkNLSF` has one step for each turn of a loop of
`SKP_Silk_NLSF_stabilize`: `Move` in the loop that moves the nearest pair apart,
`FallBack`, `Up`, `Top` and `Down` in what follows it when the loops are used up.
`SilkResampler` has the code's arithmetic without the samples: `Method`, `invRatio_Q16` and
`OfBatch` say what a resampler writes, `SetUp` and `SetUpRuns` are
`SKP_Silk_setup_resamplers_FIX`, `Encode` is a call up to its loop, `Buffer` a turn of
that loop, `Decode` a frame at the other end. `ran` holds the uses of resamplers in the
last step, each with the rates it should be for, what its user counts on and
the room there is. There are four such uses: `HistoryUp` and `HistoryDown` in the set-up,
`InputResampled` in the encoder's loop, `FrameResampled` in the decoder. `RatiosExact`
is the arithmetic of all four at all rates.

## Runs

| run | instance | shows |
|---|---|---|
| `voice_session` | 1 session, 2 callers, 1 address, 3 posts, `FairSpec` | `IInv`, `UploadInv`, queue, upload and answer; `AudioStream` is implemented; GetResult and EndSession return |
| `voice_sequence` | 2 sessions one after the other, 2 addresses, 1 post each | cookie, address and easy handle belong to the session |
| `voice_overlap` | 2 sessions at a time, 1 caller, 1 post each, no log, handles used after a failed start | one mutex, two queues, two upload threads |
| `setup` | `ParsingIP`: 2 calls, 2 URLs, `pthread_create` may fail, signals act at any time. `SessionConfig`: every member present or absent, unparsable strings, codecs that fail | `LookupInv`, published addresses, no early give-up, the call returns; the parameters are used, told and freed |
| `silk` | `SilkEncoder`: frames of 2 bytes, 20 bytes posted in chunks of 0, 1, 3, 14. `SilkDecoder`: up to 4 frames of 0, 1, 2, 5 bytes, one damaged; chunks of 1, 2, 3, 7, 12 | stream intact, buffers, lag; frames intact, prompt, refused rightly |
| `sync` | the ten primitives, 3 threads each, 2 structs, 2 keys | counts and owners, freed objects, wake-ups; exclusion, counting, rounds are implemented |
| `sync_progress` | seven of them, 2 or 3 threads, 1 struct, 1 key, `FairSpec` | whoever waits is served, whoever ends gets to the end |
| `silk_codec` | the parts of the SILK library | both ends in step, filters stable, the rate smooth, no sample lost between rates |
| `thread_terminated`, `answer_current`, `tail_uploaded`, `create_failed` | smallest instance that shows it | [divergences](#divergences-found) |

The properties, by what they are about.

The voice session:

- `ImplementsAudioStream`: every behaviour is one of the audio stream.
- `AnswerSound`: a successful answer is the answer to *all* the audio posted,
  but for two exceptions the code has: a failed upload (`b_last` is tested
  first) and a retry (the reply may not be readable).
- `AudioComplete`: `b_last` without a network error means every chunk reached
  the service.
- `GaplessUpload`: the service sees the packets in order, without a gap, each at
  most twice.
- `ResultStable`, `NothingAfterEnd` (action properties): the final result does
  not change under its reader; no audio follows SessionEnd.
- `NoPopFromEmpty`, `QueueMutex`, `LiveWhileRunning`: queue and life time, parts
  of or consequences of `IInv`.
- `UploadInv`: where every packet of an utterance and every global is at any time.
- `UploadAffinity`, `CurlOwned`, `EndOKMeansTold`: the globals, with one session
  at a time.
- `GetResultReturns`, `EndSessionReturns`: the two polling loops end.

What comes before the audio, and the audio:

- `LookupInv`, `PublishedWithAddress`, `EmptyMeansPodFailed`, `ParsingReturns`: the
  resolvers.
- `SessionWorks`: the encoder uses rate and quality as the service was told,
  also where neither was given, and requests have a time limit.
- `NothingLeaked`: what is allocated is the parts of the codecs the session has.
- `EachMemberTold`: every member is told, the session's value first; a text half
  of which is escaped is the one that can outgrow its buffer.
- `NothingLost`, `LagBounded`, `OutFits`; `StreamDecoded`: the audio.

The threads library; each is a case per primitive:

- `RecordsTrue`: owner, counts and fields are what they say, whoever timed out or
  was cancelled; the queue lock serves in order. For mutex, semaphore, spin lock and
  `pthread_once` and condition variable it is the inductive invariant that is proved.
- `NobodyStranded`: for whoever sleeps a wake-up is owed, posted, or on its way.
- `NoUseAfterFree`: nobody is inside an object that was freed, a struct is freed
  once, no chain leads to a deleted key.
- `GateShutWhileUnblocking`: a signal's wake-ups are not open to late-comers.
- `DoneOnce`: initialised once and before any call returns; threads that ended
  are freed, but for one case (`ThreadsScavenged` exempts it, [below](#divergences-found));
  destructors run, cancellations hit whom they were meant for.
- `KeepsPromise`: mutex, queue lock, spin lock and read-write lock implement
  `Exclusion`, the semaphore `CountingSemaphore`, the barrier `AbstractBarrier`.
- `WaitersProceed`, `EndingsComplete`: progress.

The SILK library:

- `RoundTrip`: what is coded is what is decoded, from the range coder to the sound,
  with the gains it was quantised with; filters keep their least distances.
- `PacketsUnderstood`: whatever is lost, damaged, dropped or reconfigured, a good
  frame is decoded in the context it was coded in.
- `BandwidthSound`: the rate changes in silence and under a filter only.
- `SamplesCounted`: whatever the rates were before, audio goes through a resampler
  for the rates it has, which writes the samples its user counts on and no more than
  there is room for; the encoder takes what a call has brought.

### Bounds, and why they are enough

- `MaxPosts` (chunks per session): three give a first, a middle and a last packet,
  a buffered chunk before any of them, a failure with audio queued behind it, and
  (in `answer_current`) a second utterance.
- Sessions: at most two are ever distinguished by a shared global; a third would
  play the part of one of them. Callers: one records, one asks or ends; a third
  could only repeat the second. `Server`: an address learnt and one it differs from.
- `FRAME = 2` instead of 960: one byte is a residue, two a frame; the other
  numbers (`SILKSIZE`, `BLOCK`, the maximum of 1250 bytes the code lets the codec
  write) are the code's, and a 14-byte chunk makes seven frames of
  up to 1252 bytes, so the output buffer grows.
- `SilkDecoder`: blocks of 3 and 4 bytes make both buffers grow; cuts of one byte
  fall between the two bytes of a length.
- `MaxCalls = 2`: threads of the first call meet the second. Each further call
  meets only the threads before it.
- `SessionConfig`: one updatable member and one the SDK has no field for; a text
  well inside its buffer, one that fills it and one that outgrows it.
- Threads library: of three threads one holds, one waits, and one comes or times out
  between. `SEM_VALUE_MAX = 2` is reached and refused; `MaxDepth = 2` makes a mutex
  recursive; `Height = 3`; `INT_MAX = 4` and `GoneMax = 2` make the counts wrap and be
  settled while readers and waiters are inside; `MaxReuse = 2` lets threads be created
  until structs have been destroyed twice, so that a struct has a second thread, which old
  `pthread_t`s must not reach, while another struct has its first.
- `SilkRangeCoder`: a byte of two bits and a buffer of five bytes bring carries,
  shifts of one and two bytes and the end of the buffer within four symbols.
- `SilkPulses`: samples of -5, 0 and 3 in blocks of four, where two may add up to 3
  and four to 4: blocks of zeros, and ones halved once and twice.
- `SilkQuantizer`: subframes as long as the ring is; the pitch lags give delays of one
  and two samples; three paths, with ties. Costs are 0 or 1 over a penalty of 100, which
  `QuantizerAssumption` keeps above what a frame can cost, as the code means it to be.
- `SilkPacket`: packets of one and two frames; four frame numbers, twice the frames of a
  packet; two silent frames before a pause and one frame of it.
- `SilkBandwidth`: a filter that closes over two frames and opens over three; bit rates
  below, between and above the thresholds.
- `SilkGains`: five levels, differences from -1 to 2, so that both limits and the top of
  the table are met; packets of two frames of two gains. The largest gain is one level
  above the table, as in the code, where `LoudestIndex` is 66 of 64 levels and the
  largest fall 4: a first index may be above the table if it is more (`GainsAssumption`).
- `SilkNLSF`: three frequencies, in and beyond the borders, with every choice of distances
  that leaves room; two loops, so that the fall-back is met. The theorem needs no bounds.
- `SilkResampler`: all rates the encoder takes and all internal ones, calls of 10 to
  40 ms: less than a frame, one, and two.

Symmetry is declared over sessions and servers in `VoiceSession`, and over threads,
structs, callers and keys in `MCSync`, which no definition tells apart.
`voice_session` and `sync_progress`, which check temporal properties under fairness,
have none. `KeepsPromise` is checked under symmetry, as it is a safety property whose
initial and step conditions treat threads alike.

`CHECK_DEADLOCK FALSE` is set where the system may stop: the encoder crashed or
all its audio posted, the decoder at the end of its stream, the resolver after its
last call, a session's parameters freed, threads that have ended or destroyed their
object, a stream decoded, and `voice_overlap`, where a caller may wait for ever for
the result of a session that did not start.

### Fairness

`VoiceSession`: weak fairness for every upload thread and for every call in
progress. The operating system runs threads, and an exchange ends within
`CURLOPT_TIMEOUT`, which the code sets for every one. What the application
decides to do (post, ask, end) is not fair. `GetResultReturns` therefore
promises something only once the last chunk has been posted. `ParsingIP`: weak
fairness for the caller and for every resolver thread (`CURLOPT_TIMEOUT`, and the
resolver's own limit); no call has to be made.

`MCSync`: weak fairness for what a thread does inside a call (`Runs`), for a
routine of `pthread_once` to return and for a holder of a read-write lock to give it
up (`LetsGo`); no call has to be made and no holder of another lock is assumed kind.
Strong fairness where a thread asks for a Win32 object others take again and again
(`GetsLock`, `GetsOther`): Windows hands these to their waiters in turn, but they are
not free at every moment. A thread that ends does not wait but gives way and asks
again; others that set the key endlessly could keep it from ending, and `EndingEnds`
exempts this. Not promised: `TurnComes` after `Crashed`, `WriterProceeds` after `Lost`.

## What is proved

Every theorem is about the specification TLC checks, for every value of the
constants the named assumptions allow; every inductive invariant is itself an
invariant of a run, so that TLC has agreed with it on an instance first. `PROJECT.json`
lists the theorems with the property of a run each states.

### The voice session

For any sets of sessions, callers and servers, any bound on posts, sessions
overlapping or not, and handles used after a failed start or not. The assumptions are
the modules' named ones: `LogModes` is a set of Booleans, the recorder is a caller,
names are distinct, no session is called like the null handle (`NullAssumption`).

`VoiceSessionProofs`: `Invariant` (`Spec => []IInv`). None of the properties below is
inductive. `NoPopFromEmpty` needs to know that a thread which saw a non-empty queue,
or a push in progress, finds the element when it has the mutex (`WorkAhead`), which
needs mutual exclusion and that only the thread itself pops. `LiveWhileRunning`
needs the handshake over `b_start` (`StartFlag`, `HandShake`): until the thread has
set the flag its creator is waiting, so nobody can be ending the session; and
that a call which starts or ends a session is alone with it (`Exclusive`,
`CallsLive`). `IInv` is these parts and `Typed`, which adds to `TypeOK` what
labels say about registers. `TypeCorrect`, `MutualExclusion` (`QueueMutex`),
`NeverPopsEmpty` (`NoPopFromEmpty`), `Lifetime` (`LiveWhileRunning`) follow from it.
There is one lemma per action for `Typed` and one for `Control`.

`VoiceUploadProofs`, on top of `IInv`: `UploadInvariants` (`Spec => []UploadInv`), of
three parts.

- `Fresh`: the data of a session that has not started are as the constructor
  leaves them.
- `OneAtATime`, if sessions do not overlap: no easy handle is lost; cookie and
  address are the session's own from its accepted SessionBegin to the end of its upload
  loop (`Bound`); a session the service was told to end is deleted next (`ToldLast`). From it `NoHandleLeaked` (`CurlOwned`),
  `UploadsReachTheirSession` (`UploadAffinity`), `EndReported` (`EndOKMeansTold`) and
  `SilenceAfterEnd` (`NothingAfterEnd`).
- `OneUtterance`, for a session with one utterance: the packets it made, 1 to its last,
  are in this order received, in the upload thread's hand, in the queue, and about to be
  pushed. One packet may be in two of these at a time, when its upload was received and is
  being retried; and once an upload has failed nothing moves. From it `ReceivedInOrder`
  (`GaplessUpload`), `ResultTrue` (`AnswerSound`), `NothingMissing` (`AudioComplete`) and
  `FinalResultStays` (`ResultStable`), for sessions that overlap too.

`StreamImplemented` (`Spec => ImplementsAudioStream`), unless the
session is used for a second utterance (`~ReuseSession`, as in `voice_session`; with
it the answer is the wrong one, see `answer_current`). The initial states map to the
empty stream; each action has a lemma that says which step of the stream it is, or
that it changes nothing the mapping reads. Most are stutters; the steps that are not
need `OneUtterance` to know that what is pending in the mapping is one sequence, and
`Fresh` that a session starts with none.

### The encoder and the stream decoder

`SilkStreamProofs`, for every frame length, every set of chunk lengths, every
codec that keeps to 1250 bytes, and blocks of any size that the decoder's buffers
grow by (`BlockAssumption`, `PieceAssumption`, `LimitAssumption`):

- `OutputFits` (`OutFits`) and `BoundedLag` (`LagBounded`), from an invariant about
  lengths only: outside a call less than a frame and less than `SILKSIZE` bytes are
  waiting.
- `StreamIntact` (`NothingLost`), from an invariant that says which buffers are
  empty where, and that the concatenation of all of them is the audio posted;
  each action only moves the borders inside that concatenation.
- `FramesDecoded` (`StreamDecoded`), for streams of any number of frames. What has been
  decoded says nothing of what is to come, so the invariant (`DInv`) says where the decoder is in the
  stream: `din` and the chunk are, one after the other, the bytes from where the next
  frame begins to where the stream has come (`Waiting` between two calls, `Looking` in the
  loop, `Resuming` a frame begun). A piece of the stream is a function of its two places,
  so cutting and joining are lemmas about places, and where a frame begins is the sum of
  the lengths before it.
- `CodecTyped` (`TypesOK`), and `EncoderInCodec`: the encoder's three properties of
  `CodecSpec`, in which a `tsilk` object is one or the other.

### Before the audio

`SetupProofs` is about two modules. `ParsingIP`, for any number of calls and any
URLs: `LookupInvariants` (`Spec => []LookupInv`), and from it `AddressBeforeStatus`
(`PublishedWithAddress`) and `NoEarlyGivingUp` (`EmptyMeansPodFailed`). The invariant says who may still write a
result: a thread that has not stored a status is the only one alive that ever will in
this call, resolves the call's URL, and finds `INIT_STATUS` there until it does
(`Resolving`); and what the caller has seen is still so where it acts on it (`Reason`).
None of it is true of a call that began while a thread of an earlier one was alive:
such a thread writes an older address into the globals. `clean` says that there was none.
It is a condition on one call, which TLC finds both ways in `setup`, not an
assumption on the code.

`SessionConfig`, for any finite sets of members, texts of any length, any numbers a
string may have for rate, quality and time limit, and whatever the memory held
(`ParametersAssumption`, `StringsAssumption`): `SessionsWork` (`SessionWorks`),
`CodecsFreed` (`NothingLeaked`), `MembersTold` (`EachMemberTold`). The three are
inductive together with the configuration that a session starts from (`ConfigInv`): that
a session which has its codecs has freed none of them, and tells the service what
`tsilk_init` got, is true of each of the constructor's returns. That only a text half of
which is escaped outgrows its buffer is arithmetic on `EncLength`, and needs that a sum
over the members is at least each of its terms (`SumTheorems`).

### The threads library

`SyncProofs`, for any finite set of threads none of which is the handle of none
(`ThreadAssumption`), any bound on the depth of a mutex and any greatest value of a
semaphore above 1 (`BoundAssumption`, `SyncAssumption`; the library's is `INT_MAX`):

- Mutex (`MutexInv`). `lock_idx` is 0 exactly while nobody is inside, and one thread is
  at most (`LockWord`); a thread is inside from the exchange that gave it 0, before it has
  recorded itself as the owner (`OwnerRecorded`, `HoldersKnow`); nobody is past the
  initialisation of a mutex there is none of (`UsedOnceMade`). `NoStrandedWaiter` is
  inductive only with these: a first exchange may overwrite a waiter's -1 with 1, but then
  the thread that did it asks again and puts it back. `MutexRecordsTrue`, `MutexStrandsNobody`,
  `MutexNotUsedAfterFree`; `MutexExclusion`: it implements `Exclusion`, in which a thread
  enters with the exchange that finds 0.
- Semaphore (`SemInv`). `WaitersCounted`, that the threads waiting, or past waiting and
  not yet in the cleanup, are as many as `value` owes and the Win32 semaphore holds, is
  inductive but for three facts: the thread that cleans up is one of them, so
  that the count is below 0 when there is no wake-up to take (`InItsCall`); the
  mutex is held where it is read (`Locked`); and nobody posts to a semaphore that is
  being destroyed (`NobodyPosts`). That `value` never falls below the number of threads
  follows from it and is not assumed. `SemRecordsTrue`, `SemStrandsNobody`,
  `SemNotUsedAfterFree`; `SemCounts`: it implements `CountingSemaphore`, whose count is what
  `value` has above 0 and the wake-ups nobody has taken. A unit is taken where a
  waiter returns, not where it was counted.
- Spin lock (`SpinInv`): `SpinRecordsTrue`, `SpinMadeOnce`.
- `pthread_once` (`OnceInv`): the queue holds each thread between its exchange and its
  release once, and the one past waiting is its first (`QueueTrue`); the flag, the
  routine's completions and the labels agree (`DoneTrue`). `OnceRecordsTrue`,
  `OnceDoneOnce`.
- `PromiseKept`: `KeepsPromise` for mutex, spin lock and semaphore.

`SyncWaitProofs`, for any finite set of threads (`ThreadAssumption`) and any limit on
those that have gone (`BoundAssumption`; the library's is `INT_MAX / 2`):

- Condition variable (`CondInv`). `WaitersCounted` and `NoLostWakeup` are about three counts that four
  sorts of steps change, none of them under one lock. That they are changed by one thread at a time is
  `UnblockLockTrue`; that a signal which finds waiters to be unblocked may leave the gate
  as it is, and one that finds none has it to itself, is `GateTrue`; that counts
  are settled before they are used for a new signal, and the limit is reached only by who
  settles them, `GoneTrue`; who may still be inside when the variable is destroyed,
  `UsedWhileLive`. A wake-up may be on its way in several threads at once, so the
  invariant has the sum of what they are about to post, and each step changes the sum and the
  cardinalities by what it changes of one thread. `CondRecordsTrue`, `CondStrandsNobody`,
  `CondGateShut`, `CondNotUsedAfterFree`.

The lemmas on sums are in `SumTheorems`: the community modules define a sum by a
recursive function on subsets, and the induction theorems cannot be used, so each lemma
takes a smallest set for which it fails, of the finitely many, and finds a smaller one.

Each theorem says `Spec /\ kind = ... => ...`: `kind` names the module a behaviour of
`MCSync` is of.

### The SILK library

`SilkCodecProofs`:

- Filters, for vectors of any length from two on, any least distances that have room
  for themselves (`NLSFAssumption`) and any number of loops: `FiltersStable`. That
  the first loop returns only good vectors is its guard. The fall-back is another matter:
  pushing up may push beyond the upper border, and pushing down again beyond the lower.
  `IInv` says that on the way up each frequency gets at least what those below it need
  (`Raised`), and that the way down, which makes the distances (`Apart`), does not
  spoil it. It is `RoundTrip` for the behaviours of this part.
- Rate, for any length of the transitions, any threshold and any settings of rates the
  API takes (`BandwidthAssumption`): `BandNeverJumps` (`BandwidthSound`, an action
  property). The step that changes the rate is smooth because of where the filter is, and
  it is there because of its mode: `BandInv`.
- Packets, for any rates, packet lengths up to the greatest, pauses and numbers of frames
  (`PacketAssumption`): `PacketsInStep` (`PacketsUnderstood`). `PacketInv` has one
  part for every place where frames are: `Coding` (the coder's are a packet so far, which the
  next frame continues, at the rate the encoder has), `Buffering` (a second coding is of one
  packet, whole or none), `Calling`, `Decoding` (what the decoder has taken over is of
  the frame before). The difficult one is `Calling`: that a call never makes a second
  payload needs the audio it has left, and that a pause suppresses only silence needs how
  many frames were coded since the payload was made (`Since`), by which the numbers of
  the frames, which start again, can be told apart; hence the assumption that there are twice as
  many numbers as frames in a packet. A pause begins after more silent frames than a
  packet has, which is the assumption on `NO_SPEECH_FRAMES_BEFORE_DTX` (5 in the code, and
  5 frames in a packet).
- Rates, for any sets of rates the API takes and calls of any length (`RatesAssumption`):
  `RatesFollowed` (`SamplesCounted`). `RatesInv` says that the resampler is for the rates the
  encoder has, or has none to be for, and that what is left of a call and what is
  buffered together end with a frame. What one ratio writes is arithmetic in Q16,
  divisions, remainders and all, which TLC does and the prover cannot: `RatiosAssumption`
  says `RatiosExact` of the rates, and TLC evaluates it for all rates the encoder takes. The
  theorem is that a resampler is used in no other way.

### What stays with TLC

- Liveness, as the prover does not reason about `ENABLED` and fairness:
  `GetResultReturns`, `EndSessionReturns`, `ParsingReturns`, `WaitersProceed`,
  `EndingsComplete`.
- What recursive definitions compute for every input: the range coder's
  carries and the trees of the excitation (`SilkRangeCoder`, `SilkPulses`), the paths of the
  quantiser (folds over costs), the gains of a frame (folds over
  levels). That is `RoundTrip` but for its filters.
- The arithmetic of single ratios (`RatiosExact`), which is evaluated.
- Of the threads library the queue lock, the barrier, the read-write lock, the life of
  a thread and its keys: model-checked with three threads, no theorem yet.

## Divergences found

What comments, the header or the demo say and the code does not do; each is a
run that TLC refutes, and an entry of `findings` with the lines quoted.

- `CloudVDEndSession` does not make sure that the thread has terminated: it clears
  `b_start` before its last accesses (`thread_terminated`).
- A second utterance in a session gets the first one's answer (`answer_current`).
- Up to 959 bytes at the end of an utterance are not uploaded; they begin the
  session's next one (`tail_uploaded`).
- `==` for `=`: a resolver thread that could not be created leaves the caller
  polling for ever when the other fails (`create_failed`).

Others were met on the way, which a reader of the models should know of; a guard,
an exempted state or a missing step says where they are left out.

The session:

- `ResultStable` speaks of final results: in a `vinput` session a partial result
  changes while it is being copied.
- `b_last` is set also when the last upload failed (`src/VcyberVoiceSDK.cpp:188`),
  though `src/Configs.h:21` says it tells whether the last audio was sent;
  `AudioComplete` therefore asks for `c_code` as well.
- `UploadAffinity` and `CurlOwned` are checked with one session at a time: with two,
  audio goes out under the cookie of the session started last, and an easy handle is
  lost.
- `GetResultReturns` is checked for sessions that started: the handle is returned
  also when the session did not, and waiting on it never ends.
- `PublishedWithAddress` and `EmptyMeansPodFailed` assume `clean`: "the thread has
  exited" is logged of threads that run on, and a second call made meanwhile shares
  the globals with them.
- `src/Configs.h:105` and `109` name defaults of rate and quality that nothing
  sets, and `118` a time limit of five seconds where the code uses two. With neither
  given, `tsilk_in` uses what the memory held (`SessionWorks` shows that both ends
  agree on it).
- `user_info` is given four bytes for one of text, and may need six, and a
  terminating zero (`src/SdkLib.cpp:307`): `EachMemberTold` says when.

The threads library:

- `pthread_cond_destroy` returns at `src/pthread/pthreads.2/pthread_cond_destroy.c:138-152`
  without giving up `cond_list_lock`.
- `ptw32_mcs_lock_release` gives up when its successor is still unknown after the
  wait (`ptw32_MCS_lock.c:202-205`; `Crashed`).
- `pthread_testcancel` unlocks `cancelLock` twice (`pthread_testcancel.c:95` and `97`), and the
  second unlock may take it from a `pthread_detach` or `pthread_cancel` that has locked it
  in between. A `pthread_detach` that has read `PThreadStateCanceling` (`pthread_detach.c:101`) may so
  store its `detachState` (line 103) after the thread has found itself joinable
  (`pthread_win32_attach_detach_np.c:276`): each leaves the struct to the other, and it and its
  handles are never freed. It takes such an unlock, a cancellation in `pthread_testcancel` and
  the store; `ThreadsScavenged` exempts threads with all three, and no others.
- `ptw32_threadStart.c:170` overwrites a cancellation that came before the thread
  began.
- `pthread_rwlock_timedrdlock` that times out at `INT_MAX` counts itself out without
  the mutex of that count, which may lose a thread that leaves (`Lost`).
- `sem_destroy` sets `*sem` to null before it knows that nobody waits, and does not
  set it back; `sem_timedwait` reads `*sem` before it tests `sem` (line 140), and
  never tests `*sem`, for which it documents EINVAL.
- A barrier used by more threads than its height is left by some of them early;
  nothing says it must not be.

The SILK library:

- `src/silk/SKP_Silk_enc_API.c:226` forgets `controlled_since_last_payload` after
  each frame, so the comment at `SKP_Silk_control_codec_FIX.c:75` holds only for
  packets of one frame: a change of rate in the middle of a longer packet drops the
  frames coded and up to 10 ms of audio, and a change of FEC leaves a stale second
  coding. `SilkPacket` lets the rate change at any call, FEC between packets.
- An error of one frame is overwritten by the next one's result in the same call.
- DTX is decided by the last frame of a call: calls that are not packets long
  can drop speech (`PacketsUnderstood` exempts them), and `MAX_CONSECUTIVE_DTX` is
  400 ms only for some packet lengths.
- Comments of the range coder speak of 1 to 9 bits left over, where there are 2
  to 10; a stream that just fills the 1024 bytes is cut by `range_enc_wrap_up` and not
  called full (`fits`).
- `bitrateDiff` has no lower bound. A forced drop to 8 kHz keeps it, and a transition
  can then begin at 8 kHz (`BandSmooth` exempts 8 kHz), against the assertion in
  `SKP_Silk_control_audio_bandwidth.c` that it does so at 12 kHz.
- The loop of `SKP_Silk_SDK_Encode` computes what it resamples from the length of the
  whole call at each turn (`src/silk/SKP_Silk_enc_API.c:196`). A resampled call that passes
  the end of a frame and ends within the next (30 ms, in packets of 40) takes more than
  it was given, and `nSamplesIn == 0` may never come. `Encode` has such calls only
  when nothing is resampled.
- `SKP_Silk_setup_resamplers_FIX` keeps the old resampler when the API rate falls below
  the internal one in the middle of a frame (`SKP_Silk_control_codec_FIX.c:173` tests
  `<`), and leaves `x_buf` at the old rate when the new internal rate is the API rate.
- `SKP_Silk_SDK_Decode` chooses the buffer it decodes into by the rate of the frame
  before (`SKP_Silk_dec_API.c:79`), though the comment there says it needs room for an internal
  frame: a rate that rises above the API rate is decoded into the caller's buffer.
- A call of it that is refused for its API rate (line 133) has already changed the
  internal rate, so that the next one may keep the old resampler.
- The second coding's last gain is taken over in a packet's first frame only: when the
  target rate crosses `Rate_only_parameters` within a packet it is another packet's,
  against the comment at `SKP_Silk_encode_frame_FIX.c:327`.
- `SKP_Silk_PLC.c:40` sets `pitchL_Q8` without shifting it by 8; the coefficients
  it is used with are zero then.

## Not modelled

Of the models' subjects:

- Null handles, and a configuration that is not JSON in `VoiceSession`: the calls
  return before they change anything.
- Failures of `curl_easy_init` and `curl_easy_getinfo`, and memory exhaustion.
- The service is assumed to set a cookie when it accepts a session.
- The flags are read and written as one access each, in program order; compilers
  and memory models that reorder them are not modelled.
- One turn of a polling loop that reads several flags is one step.
- `audio_quality` 0, where a chunk is a packet of its own: `VoiceSession` covers
  it (every post queues a packet), `SilkEncoder` does not need to.
- Partial reads of `tsilk_out`: its one caller asks for everything.
- A thread's identifier is not reused in `ParsingIP`: `pthread_kill` on a detached
  thread that has ended reports that it does not exist.
- `SpawnFailed` only with an open log: without one the error line dereferences a
  null pointer.
- Formatting, logging and the conversions (JSON, base64, encryption but for its
  length).
- Threads library: asynchronous cancellation, which changes a thread's context; the
  cancellation of a thread that waits at the gate of a condition variable it
  destroys; the build with `NEED_SEM`; threads the library did not create;
  attributes and scheduling, which are fields.
- SILK packets: `SKP_Silk_SDK_get_TOC`, which reads; `inband_FEC_offset`, which is
  advice; `ADD_LBRR_TO_PLUS2`, which is never set. `SilkQuantizer`: collisions of `SKP_RAND`;
  the frame's own seed, taken as 0; the first frame after a loss, which the
  decoder plays otherwise on purpose (`SKP_Silk_decode_core.c:108`). `SilkResampler`: rates
  above 48 kHz and rates that are no multiple of 100 Hz; the decoder's room is taken as
  20 ms at the API rate. `SilkGains`: target rates that cross a threshold within a packet.

Components without a model:

- The signal processing of `src/silk` (filters, prediction, pitch, noise shaping,
  concealment, comfort noise, the samples of the resamplers) and its tables, by far the largest part of
  the sources: straight-line fixed-point computations on vectors, whose only
  specification is the code. A model would be that code again.
- `src/curl`, `src/json-1.6.5` and the pre-built threads library: headers and
  binaries. `pthread.h` and `implement.h` are declarations; what they declare is in
  the modules of the primitives.
- `base64.hpp`, the log, the example programs, `VcyberSpeex.cpp` and `Common.cpp`: pure
  conversions, output, or called from nowhere.

For these reasons the map covers every file with a protocol of its own, and about
a sixth of all lines.

## Plan

Done: `VoiceSession` with its invariant, proofs and abstract specification;
`ParsingIP`; `SilkEncoder` with proofs; `SilkDecoder`; `SessionConfig`; the threads library
with its abstract specifications and progress; the SILK library's range coder,
excitation, quantiser, packets, rate, gains, filters and resamplers.

With theorems: `VoiceSession` with every invariant and action property its runs check,
and the refinement of `AudioStream`; `ParsingIP` and `SessionConfig`; `SilkEncoder` and
`SilkDecoder`; of the threads library mutex, semaphore, spin lock, `pthread_once` and
condition variable; of the SILK library filters, rate, packets and resamplers.

Theorems to add, in this order: `FirstComeFirstServed` and `Exclusion` of `MCSLock`;
`ReadersCounted`, `WriterNotForgotten` and `Exclusion` of `ReadWriteLock`, for which the lemmas of
`SumTheorems` are there; `AbstractBarrier` from `Barrier`; `DestroyedOnce` of
`ThreadLife`.

Models to add: the composition of `SilkEncoder`, packets and `SilkDecoder` over
chunks cut differently at either end; `PostData`'s retry with its uncleared buffer byte by
byte; `sscanf` patterns of `Get_IP`, `Get_Port`, `Get_Domain`.
