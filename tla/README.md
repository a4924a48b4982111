# Verification of libesphttpd

TLA+ models of libesphttpd, an HTTP server for small systems (ESP32 under
FreeRTOS, and Linux), with the TLC runs that check them on small instances and
theorems that the TLAPS proof system has checked for every value of the
constants. Every definition is translated from the C source; `PROJECT.json`
names the lines each stands for.

## The system

| Component | State | Operations | What makes it correct |
|---|---|---|---|
| Send buffer (`core/httpd.c`) | `sendBuff`, `sendBuffLen`, `chunkHdr`, flags | `httpdSend`, `httpdEndHeaders`, `httpdSetTransferMode`, `httpdFlushSendBuffer`, `httpdCgiIsDone` | the buffer stays in bounds; a chunk announces the bytes it holds; the client sees the end of each response |
| Requests and handlers (`core/httpd.c`) | `HttpdConnData`: parser state in `post.len`, POST buffer, `cgi`, `cgiData`, flags | `httpdRecvCb`, `httpdParseHeader`, `httpdProcessRequest`, `httpdContinue`, `httpdDisconCb`, `httpdConnectCb` | a handler is called while it wants to be and not after; memory is freed once; keep-alive carries nothing over |
| Server task (`core/httpd-freertos.c`) | `rconn[]`: `fd`, `needWriteDoneNotif`, `needsClose`; fd sets | one pass: `select`, `accept`, writable half, readable half; close; shutdown | each slot is used for one connection at a time, a connection that was accepted is disconnected once; what is marked is closed; shutdown terminates |
| Websockets (`util/cgiwebsocket.c`) | reference counted `Websock`, `wsList`, its mutex | upgrade, receive, close, send, broadcast, collection of dead entries | exact counts; a websocket speaks on its own connection only; open ones are reached by broadcasts |
| WiFi configuration and scan (`util/esp32_wifi.c`) | `cfg_state`, event bits, two timers, reference counted scan data | event handler, timer callbacks, six HTTP handlers | a failing configuration falls back to the saved one; scan data is freed once and made available |
| Firmware upload (`util/cgiflash.c`) | `UploadState`, OTA handle | one handler called per piece of the body | success is reported only for a complete, valid image; the boot partition moves only to a whole image in the slot that was written |
| File upload and serving (`util/esp32_httpd_vfs.c`, `core/httpd-espfs.c`) | open file, upload state | handlers called until the file or the body ends | what is served and stored is the whole file; files are closed once |
| Templates (the same two files) | `TplData`: token, place in the buffer, resume point | a handler called once per buffer, a callback per token | tokens are found across buffers and resumed where they stopped |
| JSON and long responses (`util/cgi_common.c`) | a string and a position in it | a handler called until the string is sent | the string is sent once, in order, and freed |
| Routing, redirects, login (`core/httpd.c`, `core/auth.c`, `util/cgiredirect.c`) | index into the URL table | a turn per matching entry | no entry answers in place of an earlier one that takes the request |
| Text (`core/httpd.c`, `core/libesphttpd_base64.c`) | none | URL decoding, arguments, header lookup, escaping, base64 | results agree with the format's definition, within the buffer |
| Captive DNS (`util/captdns.c`) | a static reply buffer | one call per query | the reply repeats the question and answers it, within 512 bytes |

How they interact. One task per server instance runs
`platHttpServerTaskProcess` in a loop. It calls the core's callbacks
(`httpdConnectCb`, `httpdRecvCb`, `httpdSentCb`, `httpdDisconCb`), each of which
takes the recursive httpd mutex and calls the handler of the connection. A
handler returns `HTTPD_CGI_MORE` to be called again: when the socket is
writable, when more of the body has arrived, or when another task calls
`httpdContinue`. The core asks the platform layer for these calls only through
`needWriteDoneNotif`, set whenever something is written. Websockets register
`recvHdl` on the connection and are used by other tasks through the list.

What is hard here: post.len doubles as the parser's state; a connection has two
ends (the handler is done, the peer is gone) that may meet in any order; the
write notification is the only thing that ever closes a marked connection; the
list of websockets has a mutex of its own, and the pointers behind it are
written under the other one. The hazards are listed, with their lines, in
`PROJECT.json`.

## The modules

| Module | Models | Actions |
|---|---|---|
| `SendBuffer` | the send buffer of one connection, bytes counted and not stored | one per call a handler makes (`HandlerSends`, `httpdEndHeaders`, `httpdSetTransferMode`), per return (`ReturnMore`, `ReturnDone`), `Request`, `httpdContinue`, `CloseAfterSent`, `GiveUp` (a client that waits in vain for the end) |
| `ResponseFraming` | what a client may rely on in the bytes of a connection: head, body, visible end, and no next request before it; an end may be lost only where the handler left no room for it | abstract specification of `SendBuffer` |
| `HttpdConn` | the core's callbacks on one connection, as operators from a connection to the set of connections it may become | used by `HttpdServer` |
| `HttpdServer` | the server task over its slots, the clients, an application task that resumes handlers, shutdown | one per branch of `platHttpServerTaskProcess` and `httpdRecvCb` (one byte a step) |
| `RequestCycle` | closed, reading, handling, closing: the cycle of a slot | abstract specification of `HttpdServer` |
| `Websocket` | websockets, their list and the tasks that use them | one per frame kind and callback on the server task, one per critical section or unlocked read of a broadcasting task |
| `WifiConfig` | `cfg_state` between the httpd task, the timer task and the event task, over an external driver | one per branch of `handle_config_timer`, per event, and per critical section of a request (`Arrive`, `Accept`, `Compare`, `StartWps`, ...) |
| `WifiScan` | scan data, `scan_in_progress` and the scan timer between the same tasks | one per critical section, or unlocked step, of `wifi_scan_done`, `handle_scan_timer` and `cgiWiFiScan` |
| `OtaUpload` | uploads of several connections, the boot partition, erase and restart, over external OTA functions | one per call of `cgiUploadFirmware` (`Piece`: the whole loop over one piece), the other handlers, `Abort`, `Restart` |
| `Template` | `cgiEspFsTemplate` and `cgiEspVfsTemplate` | one per call: the whole loop over a buffer, with the place where the callback asked to be called again |
| `MultiResponse` | `cgiResponseCommonMulti` and its clean-up, in the multi-call and the single-call form | first call, further calls, out of memory, connection broken |
| `Files` | downloads from espfs and VFS and uploads to VFS, interleaved | first call, read, piece of an upload, connection broken |
| `WsFrames` | the frame parser of `cgiWebSocketRecv` over segments cut anywhere, and the heads `sendFrameHead` writes | one per segment received, one per frame sent |
| `Base64` | the decoder and the encoder, as operators | used by `Text` and by the login of `Routes` |
| `Text` | the text functions as operators, for the inputs and buffer sizes given by constants | one call, one result |
| `CaptDns` | `captdnsRecv`, label by label, over the reply buffer the last query left | one per query |
| `Routes` | the turns of `httpdProcessRequest` over the URL table, with the handlers that may pass a request on (`authBasic` with its decoding of the header), and `getFilepath` | `Lookup`, `LookupEnds` |
| `Handlers` | `Template`, `MultiResponse`, `Files`, `WsFrames`, `Text`, `CaptDns` and `Routes`, side by side | `part` says which handler a behaviour is about |
| `SendBufferProofs`, `HttpdServerProofs`, `WebsocketProofs`, `WifiConfigProofs`, `WifiScanProofs`, `OtaUploadProofs` | theorems about the module of that name, with their lemmas | |
| `InputProofs`, `HandlersProofs` | theorems about what is made of a request (`Text`, `Base64`, `Routes`, `CaptDns`), and about the handlers (`Files`, `Template`, `MultiResponse`, `WsFrames`, `Handlers`) | |
| `MC*` | values of the constants for TLC | |

`SendBuffer` and `HttpdServer` see the same calls from two sides: the first
counts bytes and leaves out the server, the second keeps of the buffer only
whether it is empty. The correspondence of state to code is one variable or
record field per C field, with the same name where TLA+ allows it. Fields
called *history* exist for the properties only.

What the handlers (CGIs) do is the application's choice: `MayReturnMore` and
`MayReturnDone` of `HttpdConn` give every choice that the README's section on
CGI functions allows a handler, `cgiNotFound` being the one the core brings
itself. Constants switch on what the code permits beyond that: `EarlyDone`
(DONE before the body is complete), `SilentDone` (DONE with nothing sent),
`MallocFails`, `Pipelining`, `BadRequests`, `SslPending`, `StaleFdIsSet` (the
outcome of `FD_ISSET(-1, ..)`, which C leaves undefined) and `AppTask`.
`LengthLines` is the number of Content-Length lines a head may have: each of them
allocates a POST buffer and takes the place of the one before (`httpd.c:738`).

A flush of `SendBuffer` in which the null chunk fits exactly has two outcomes:
`strcpy` puts its NUL on the low byte of `sendBuffLen` (`httpd.c:422`), which the
compiler may or may not have loaded before (`NullChunkEnds`).

In `WifiConfig` a station configuration is one that can join (`home`), one that
cannot (`wrong`) or the zeroed one; an access-point configuration is a number.
`before` is history: what the driver held when the last change was accepted.
Each request reads the configuration first (`Arrive`), without the lock, then
takes the lock (`Accept`, where `.new` and `.saved` are written) and decides
(`Compare`, where the connection is looked at again), so timer and events come
in between as they may in the code. A driver event and its handler are one step,
because the event task has a higher priority than both others; the bits the
timer callback works with may still be older than the driver (`seen`). The
driver's calls are taken to succeed: `esp_wifi_get_config` and
`esp_wifi_get_mode` fail only before the driver is initialised, and what a
failing `esp_wifi_set_config` leaves behind is unknown to this code (its FIXME,
`esp32_wifi.c:644`). `QueueFull` makes any `xTimerChangePeriod` fail;
`WpsTimeouts` lets the lock be unavailable to `cgiWiFiStartWps`, which then gives
it all the same: `stray` (history) is the spell this opens, `overlap` that callback
and handler were in at once during the current change. In `WifiScan` every step
of the three tasks may come between any two of another, as on two cores: the
httpd task is not pinned to one (`httpd-freertos.c:829`). `Failures` makes
allocations fail, `data_lock` time out and the timer queue refuse a command. It
keeps of the configuration machine only that it may refuse a scan or stop it.

In `OtaUpload` an image is a number and a slot holds pieces of images, so that
uploads which mix in one slot are told apart from whole ones. What
`esp_image_verify`, `esp_ota_begin`, `esp_ota_write`, `esp_ota_end`,
`esp_ota_set_boot_partition` and the boot loader do is external, modelled by the
contract the handlers rely on; each may fail in any call, `esp_ota_end` also on an
image that is whole. A body shorter than
the header that is tested leaves the rest of the test to what the receive buffer
held before (`seen`).

The handlers of `Handlers` keep their state in their own connection and meet
only in the server task, which calls one at a time; whatever two of them do in
turns is what each does alone. So `Handlers` is a sum: a behaviour is one of a
single module, and its properties (`HandlersTypeOK`, `OutputExact`,
`NothingHeld`, `UploadStored`, `InputExact`) join those of the modules that
promise the same. Where two requests do share something, a file on the VFS or an
app partition, `Files` and `OtaUpload` have several connections.

A template's text shares the send buffer with what its callbacks write (`Writes`).
`tout` is what the handler gives to `httpdSend`, `tlost` the places of it that were
refused for lack of room (`Room`), which the handler does not look at
(`httpd-espfs.c:461`, `473`, `535`, `560`). An upload answers through the single-call form of
`MultiResponse`, whose string and state nobody frees (`KeptByAnswer`), and may lose
at `fclose` what stdio had buffered (`lost`).
Each module has
a specification of its own (`TplSpec`, `MultiSpec`, ...) and can be run alone.
The text, the frames and the names are cut at every place, and the inputs and
buffer sizes of the text functions are constants (`Inputs`, `Sizes`, `ArgNames`),
as are the authorization headers (`AuthHeaders`); a character of a
template is one of four kinds, of a form one of those the code tells apart.

## What the runs show

Passing runs:

| Run | Instance | Shows |
|---|---|---|
| `send_buffer` | a buffer of 32 bytes, sends of 1, 2, 3, 7 and 16 bytes; a handler returns DONE with any fill | bounds, exact chunk lengths, nothing dropped, the end of each response seen whose handler left room for the null chunk and its NUL, refinement of `ResponseFraming` |
| `server_one` | one slot, POST buffer of 2, bodies of 0, 1 and 5 bytes, no, one or two Content-Length lines, no application task, allocation failures, bad heads, repeated SSL reads, an undefined `FD_ISSET` | each body byte is presented in one call; nothing leaks but the earlier buffers of repeated Content-Length lines; keep-alive is clean; the POST buffer is never overrun; a slot is disconnected once more only while still empty, in the turn that closed it |
| `server_two` | two slots, bodies of 0 and 2 bytes, an application task | no call after the end, no second free, `accept` always finds a slot, refinement of `RequestCycle` |
| `server_live` | two slots, HTTP/1.0 requests without bodies, shutdown at any time | a marked connection is closed; a shutdown completes |
| `websocket` | two connections, three objects, one broadcasting task, a list of two | exact reference counts, own connection only, open ones listed |
| `wifi_config` | any mode and stored station at start, the start-up call and two requests of any kind, two access-point configurations, a timer queue that may be full, WPS requests that give a lock they failed to take | a failed change puts back what was there, and while connecting the driver works on what was asked, unless callback and handler overlapped; they overlap only in a spell such a WPS request opened, which ends; the machine comes to rest; switching off wins, except against a WPS request that waits with the radio off |
| `wifi_scan` | three data sets, failing allocations, any number of requests, lock time-outs, a full timer queue, a driver that may hang, all tasks interleaved | a data set is never freed while held, but one that a clear met before the event task's put; every scan ends, but one whose timer was refused or stopped for the scan before, until the driver reports |
| `ota_upload` | two connections, two app slots and a data partition, two uploads of up to two pieces, espfs images of at most one | success means a whole image, the running image is never touched, the boot partition moves to whole images only, and without success only when `esp_ota_end` or the only write failed |
| `handlers` | template buffers of 3 and tokens of 2 characters in texts of up to 7; responses of up to 8 in pieces of 3; files read by 2, bodies of up to 3, three requests on two connections; two frames in segments of 3; texts of 4 and 5 characters in rooms of up to 9; two DNS queries; tables of two routes, two users, headers of every kind | what goes out is what was to be sent, what comes in is understood, nothing stays held but what the single-call form keeps |

The bounds are the smallest at which the cases of the code differ: only
differences of lengths matter to the send buffer, and 32 bytes leave room for a
head, several chunks and each boundary; a POST buffer of 2 with bodies of up to
5 makes a body arrive in no, one or three calls, the last one partial; two slots
are what it takes for one to be closed and reused while the pass is at the
other; a list as long as there are connections is what `maxConnections` and
`WEBSOCK_LIST_SIZE` are meant to be, and three objects let a closed websocket
survive its connection while a new one uses it. Two requests are what it takes
to disturb a change by another one or to follow a fall-back, and the start-up
call provides a connected station to begin with; three data sets are one that is
read, one that replaces it and one that replaces that. `server_live` runs without
deadlock checking, as the server stops after a shutdown, and so do the runs of
`WifiConfig`, which ends when its requests are used up and its timer could not
be armed.

For `ota_upload`, two uploads are what it takes for one to write into a slot the
other has selected or is writing, two pieces for a first and a last one that
fail differently; the old content of the second slot is an intact image or
nothing. In `handlers`, a token of two characters lies in one or two buffers of
three, and a text of 7 takes three buffers, so that tokens are cut, resumed, too
long, unclosed and next to each other; 8 in pieces of 3 has a first, a middle
and a short last piece, and 6 is a multiple; a body of 3 arrives in one to three
pieces; the lengths of paths lie on both sides of the two limits of `fname`, and
of frames on both sides of the three forms of a head; two queries let the second
find what the first left in the static buffer; queries are those whose reply fits
the 512 bytes (`HasReplyRoom`), which the code does not check, its test being
commented out (`captdns.c:163`); the alphabets of the texts hold each character a
function treats apart, with digits of both kinds, and rooms reach from none to
enough; callbacks that write 7 fill the room of 7, so that the text behind them is
refused; two routes are one that passes a
request on and one that answers. Both runs are without deadlock checking, as the
uploads and requests are used up.

Where the code departs from what a property would ideally say, and the property is
worth having all the same, it states the exception exactly, and the run has the
failing case switched on: a null chunk without room for its NUL (`EndIsSeen`,
`ResponseFraming`), repeated Content-Length lines (`NothingLeaks`), a second
disconnect of an empty slot (`ClosedOnce`), the spell of a WPS request without the
lock (`LockProtects`) and an off request that such a request outlives
(`OffIsApplied`), the two races of `WifiScan` (`Counted`, `ScanEnds`), a failing
`esp_ota_end` (`BootOnSuccess`), text refused by `httpdSend` (`ExpandsAsRead`), what
the single-call form keeps (`StringFreed`, `FilesReleased`), what `fclose` could not
write (`SuccessIsStored`), a trailing `%` at the full buffer (`UrlDecoded`), and the
bare header `Basic` (`FirstRouteAnswers`).

Runs that show the code departing from what a comment or the documentation says
(`findings` in `PROJECT.json` has the lines):

| Run | What happens |
|---|---|
| `server_lost_wakeup` | `httpdContinue` from another task during `select`: nothing makes the server notice the end of the response |
| `wifi_scan_lost` | freeing the old results forgets the new ones: every second scan without `clear` comes to nothing, and leaks |
| `server_given_twice` | `httpdContinue` from another task during `select` ends a keep-alive response; the notification it leaves behind calls the handler of the client's next POST in the middle of a piece, which is then given again |

Stated in the modules, and violated, without a run of their own (each by a run of
the module with the values of its passing run, or those named here):

* `Websocket`, `NothingLost`: the `continue` in `cgiWebsockBroadcast` forgets a
  reference (`cgiwebsocket.c:273`);
* `WifiConfig`, `WatchdogReconnects`: a connection lost after it was made is
  never made again, as the watchdog works in `idle` and `failed` only
  (`esp32_wifi.c:925`, against its comment at `:933-934`);
* `OtaUpload`, `BootNeverOnFailure`: an upload that fails in its only piece
  selects the old image the slot still holds, and one whose `esp_ota_end` fails on a
  whole image selects that (`cgiflash.c:317`); `SelectedIsValid`: a second upload
  before the restart breaks the selected slot; `HandlesClosed`: an aborted or
  failed upload leaves its OTA handle open;
* `Files`, `ServedIsOneVersion`: a download during an upload is a mixture;
* `WsFrames`, `ReasonRepeated` and `MoreMeansMore` (the flag as
  `cgiwebsocket.h:8` describes it): the reason that a close
  repeats is read behind the segment when it has not arrived yet, and the first
  part of a frame cut by a segment comes without `WEBSOCK_FLAG_MORE`;
* `Text`, `ArgLength`: the length of an argument counts the terminator
  (`httpd.c:155-156`);
* `CaptDns`, `TtlZero`: half of the time to live of NS and URI answers is what an
  earlier reply left in the buffer (`captdns.c:256`, `:273`), and
  `AnswersBeforeAdditional`: a reply to a query with additional records has its
  answers behind them (`captdns.c:200`);
* `HttpdServer` with `Pipelining = 1` (without deadlock checking, as the bound on
  `received` may stop it), `GivenOnce`: bytes of the next request are
  taken for body bytes while a POST is being answered (`httpd.c:864`, against
  README.md:389-391 of the repository);
* `HttpdServer` with `EarlyDone = 1` and bodies of up to 5, `NotCalledAgain`: a handler that answers
  before the body is complete is dispatched again (`httpd.c:879`, against
  README.md:364);
* `Websocket`, `ConnIsSet`: `ws->conn` is tested and dereferenced without the
  mutex that protects it (`cgiwebsocket.c:124`);
* `Websocket`, `RecvHdlHasSent`: after a closing handshake started by the
  application the connection is never closed (`httpd.c:892`);
* `WifiConfig`, `NotStranded` (one request, `Forces = {0}`): from AP mode the
  device is switched to client-only mode without a connection, without `force`,
  and neither connects nor falls back (`esp32_wifi.c:1319`);
* `HttpdServer` with `SilentDone = 1` in the instance of `server_live`,
  `MarkedIsClosed`: a handler that returns DONE silently leaves its connection open
  (`httpd.c:483`, as in `cgiwebsocket.c:450`).

Also met: WPS stays enabled in the driver when the WiFi is switched off during
`wps_active`; a request that read the configuration before a fall-back brings
back what the fall-back removed (`esp32_wifi.c:1203`); a second wrong password
before the station is connected again leaves nothing to fall back to, as
`saved.sta` is zeroed (`esp32_wifi.c:1063`). In the server, the SSL loop reads from a
slot it has just closed (`httpd-freertos.c:523`), `FD_ISSET(-1, ..)` is asked after a
close in the writable half (`:484`), `assert(ws != NULL)` fails on data
that follows the close frame (`cgiwebsocket.c:314`), and `closeCb` is not called
when the client just goes away (`cgiwebsocket.c:425`).

In the handlers: the VFS `getFilepath` measures a base path that is NULL, which
the repository's `README.md:130` allows; the espfs one tests `espfs_stat` the
wrong way round (`httpd-espfs.c:283`). `cgiEspVfsTemplate` stats a name it has
not filled in, opens the URL in place of the path, closes a file it could not
open, and takes its callback from `cgiArg`. `cgiEspVfsUpload` uses the memory it
did not get, and `cgiEraseFlash` the partition it did not find; `cgiSetBoot`
reports success for a partition that does not exist. A template token that the
file does not close is dropped, and a single-call JSON response is cut at 1024
bytes. `authBasic` measures the header `Basic` with `strlen(hdr)-6`, which is huge
(`auth.c:35`), and may write its terminator one byte behind `userpass` (`auth.c:37`).

### Fairness

Safety is checked without fairness. `HttpdServer!Fairness` assumes that

* the server task runs whenever `select` does not hold it (`WF` on its steps):
  it is a task of its own, and the mutex is held for the length of a callback;
* `select` reports a socket it watches for writing if the socket stays so, in a
  pass that is not abandoned (`SF`): data that a peer never acknowledges ends
  in a reset of the connection, which is reported too. It has to be strong
  fairness because a failing `accept` abandons a pass (`httpd-freertos.c:388`);
* `select` returns for the shutdown datagram, which `httpdPlatShutdown` sends
  until the server is down.

`WifiConfig` and `WifiScan` assume that time passes (a timeout expires) and that
each task is scheduled (`WF` on the steps of each); nothing is assumed of links,
WPS, the driver's scan or the clients.

No fairness is assumed of the clients, of the application or of `accept`.

## What is proved

`SendBufferProofs` proves, for every buffer size from 7 bytes to the 64 kB the
length placeholder can express, every set of send sizes, and every number of
calls:

* `TypeCorrect`, `BufferNeverOverruns`, `ChunkLengthsCorrect`,
  `NothingIsDropped`;
* `EveryEndIsSeen`: `EndIsSeen`, and `ImplementsFraming`, the refinement of
  `ResponseFraming`, for handlers that return DONE with any fill: an end is seen if
  six bytes were left for it, and every response can be parsed.

The argument: the invariants are not inductive by themselves. What carries them
is how the header of the open chunk sits in the buffer, `sendBuffLen = chunkHdr
+ ChunkSizeTextLen + payload` with a payload of at least one byte, together
with `sendBuffLen <= MaxFill` (so that the flush can always close the chunk),
and, for the framing, which flags go with which stage of the client's parser, a
lost end included.
The assumptions used are the named `ASSUME`s of `SendBuffer`, which TLC
evaluates on each run.

`WifiConfigProofs` proves, for any number of requests, any access-point
configurations, a timer queue that may be full or not, and any `force`:

* `TypeCorrect`;
* `LockExcludes`: `LockProtects`: the spell in which callback and handler may both be
  in begins with a WPS request that gives the lock it failed to take, and ends when
  both have left;
* `FallbackUndoes`: `FallbackRestores`, `WaitsForWhatWasAsked`: `ConnectsAsAsked`, and
  `OffStaysOff`, the second half of `OffIsApplied`, each for changes during which they
  did not overlap (`overlap = 0`). Outside the spell nothing more is assumed.

The argument for the fall-back is the invariant `FallbackInv`: while a change is
under way that may end in a fall-back, `.saved` restores what the driver had
when it was accepted. This is not inductive, because `update_wifi` overwrites
`.saved` during a change if the request is to switch off. Three facts make it so:
such a request is the only one to get there (`ReplacedByOff`, for which the
start-up call has to be known to ask for a station mode, `BootHasStation`); from
`wps_active` on the driver is in a station mode (`RadioOn`), so that "off" always
differs and replaces the change; and in `wps_start`, where "off" may be found not
to differ, the driver still has the mode it had (`WpsNotBegun`), so the new
`.saved` restores as much as the old one. `LockInv` keeps the timer callback from
running between the two halves of `update_wifi` while there was no overlap.

`WaitsForWhatWasAsked` follows from the same invariant: a request that reaches `update_wifi` while the callback waits
asks for "off", which always differs there, so the state is left.

`HttpdServerProofs` proves, for any number of slots, POST buffer size, set of
bodies and versions:

* whatever handlers, clients, SSL, `FD_ISSET` and other tasks do: `TypeCorrect`;
  `MemoryReleased`: `NothingLeaks`, where a buffer is lost only of a request with
  several Content-Length lines; `DisconnectedOnce`: `ClosedOnce`; `AcceptFindsSlot`:
  `AcceptHasSlot`. The invariant (`TidyInv`) says what a slot that is free or between requests holds,
  and that nobody but the server task gives a slot away between building the fd
  sets and `accept`;
* for handlers that do not answer before they have the body (`EarlyDone = 0`) and
  clients that do not pipeline (`Pipelining = 0`): `NextRequestIsClean`:
  `KeepAliveIsClean`; `PostBufferHolds`: `PostBufferBound`;
  `ServerImplementsCycle`, the refinement of `RequestCycle`. The invariant
  (`ServeInv`) relates each connection to its client: the client owes exactly
  the body bytes that were not received (`InStep`), and what `select` reported
  readable is still in place when its turn comes (`InTurn`, `Ahead`). Both
  assumptions are needed: with either the client is not in step;
* under these, and without reads from a slot already closed (`StaleFdIsSet` and
  `SslPending` within `{0}`): `DoneIsDone`: `NotCalledAgain`; `FreedOnce`:
  `StateFreedOnce`. The invariant (`FaultInv`) adds that an open
  connection with a handler has its state (`Good`);
* for `EarlyDone = 0`, `Pipelining = 0` and `AppTask = 0`: `BodyGivenOnce`:
  `GivenOnce`. The invariant (`GivenInv`) says that no write notification is
  pending while a body is incomplete (`Calm`), which rests on one that is left
  over from a response being served in the pass that reads the next request
  (`Notified`). With an application task this fails, as `server_given_twice`
  shows: the attempt to prove it led to that run.

`WebsocketProofs` proves, for any number of connections, websockets and
broadcasting tasks and a list of any length, without further assumptions:
`WebsocketTypes`; `CountsReferences`: `Accounted`; `SpeaksOnItsOwn`:
`OwnConnection`; `BroadcastReaches`: `OpenIsListed`. The invariant (`WsInv`)
adds to them which step of the server task's callback and of each broadcasting
task goes with which reference (`ServerInv`, `TaskInv`), that `cgiData` is set
between upgrade and close only (`SlotInv`), that a websocket is listed once
(`ListInv`), and that an open one is listed unless it is being added
(`OpenListed`). Counting is done by cardinalities: a step adds an element to one
of the sets of holders or takes one away. That the list has room is the
pigeonhole principle: after the dead entries are collected, the entries are open
websockets of different connections, other than the one being added.

`WifiScanProofs` proves, for any number of data sets, scans and requests, however
the tasks interleave: `ScanTypes` and `HeldSetsAreCounted`: `Counted`. The
invariant (`ScanInv`) says that a data set not yet published is known to the
event task alone, and that one that is to be freed is held by nobody, unless a
clear met it between its publication and the event task's put (`caught`).

`OtaUploadProofs` proves, for any number of connections, partitions and uploads
and images of any size, without further assumptions: `UploadTypes`;
`AlwaysBootable`: `Bootable`; `SuccessTellsTruth`: `SuccessIsWhole`;
`SelectsOnSuccess`: `BootOnSuccess`. The invariant (`OtaInv`) says where an
upload stands between two calls (`Between`): how much of its body it received,
wrote and has left agree, its slot is not the one that runs, and the first
piece in it is its own unless another upload was let at the slot.

`InputProofs` proves what is made of a request. `RoutesRight` proves
`FirstRouteAnswers` and `PathBelowBase` of `RoutesSpec`, for tables of any length
and patterns and URLs of any kind; the invariant
(`RoutesInv`) is that every entry passed so far does not take the request or
passes it on. The attempt showed that an earlier form of `PathBelowBase` held
only for the URLs of the run: a URL with two slashes behind its route loses one,
and one with a `*` in the place of the route's loses that, because `getFilepath`
skips what URL and route have in common. `MCUrls` now has such URLs.

Of `TextSpec`, for any inputs, argument names and rooms (the constants `Inputs`,
`ArgNames` and `Sizes`, of which `TextAssumption` says only what kind of text each
function takes): `DecodedWhole`
(`UrlDecoded`), `FirstArgFound` (`ArgFound`), `HeadersJoinedWhole`
(`HeaderJoined`), `EscapedWhole` (`Escaped`) and `EncodedReadsBack`
(`RoundTrip`). The functions and their references are folds or recursive functions; the proofs first show that a
recursive function over `1 .. n` exists (`StepsExist`, from the well-foundedness
of < on the numbers, for the set of places where something holds, `UpTo`), that
two with the same steps are equal (`StepsAgree`) and that a fold has them
(`FoldRuns`), and then relate the two step by step. For base64 the coder and a decoder that reads what was
written so far go side by side (`Coupled`), one byte at a time and three bytes to
a turn: the decoder has given out every byte whose digits are complete, and the
bits of the next one that it has, with those the coder still holds, are that byte
(`Reads`).

`HandlersProofs` proves of `FilesSpec`, for any number of connections and requests,
and files and bodies of any length: `DownloadsAreWhole`: `ServedWhole`, and
`FilesAreReleased`: `FilesReleased`. The invariant (`FilesInv`) says what a
request holds in each state, that a download has delivered a prefix of the file,
and that an upload not disturbed has stored what it counted.

It carries these over to `Handlers`, with invariants for templates
(`TplInv`) and responses (`RespInv`): `EverythingIsGivenBack`: `NothingHeld`, and
`SuccessMeansStored`: `UploadStored`, both without conditions, as the properties say
what the single-call form keeps and what `fclose` may lose. `StringSentInOrder` proves `SentInOrder` of
`MultiSpec`, for strings and pieces of any length: the state between two calls
points behind the last piece and counts what is left (`OrderInv`).

`FramesRight` proves `FramesExact` and `HeadsExact` of `WsSpec`, for any number of
frames with payloads of up to 65535 bytes, whole or the last one cut off, in
segments of any size, and for heads of every length an `int` holds. The
invariant (`WsInv`) says where the parser is: in the head of a frame after so
many of its bytes (`InHead`), in its payload with so many bytes left and the
mask at the place that belongs to the next one (`InPayload`), or behind the last
frame; and that what was handed on is what is owed of the bytes handled. That no
earlier frame closed the websocket (`NoneClosed`) makes the frames' events add
up.

`TemplateExpands` proves `ExpandsAsRead` of `TplSpec`, for templates of any
length, buffers of any size (`Chunk`), names of any length cut off at `TokenMax`,
on espfs and on the VFS, and callbacks that ask to be called again at any place
and any number of times. What `httpdSend` refuses of it is known too: nothing, if
the callbacks of a call leave room for a buffer and a token. The invariant (`ExpandInv`) is that what was given to it so
far, with the expansion of the text from some place i on, is the expansion of
the whole text (`SoFar`); where i is depends on what the handler is in the middle
of. In the text, i is the first character that was not sent yet, and those between
it and the place read are the ones counted by `sp` (`InTextAt`). In a token, i is
its `%`, no character behind it ended it, and `token` holds what a name of that
length leaves of them (`InTokenAt`, `TokenAt`). When the callback has asked to be
called again, what was sent already has the token, i is behind it, and `resume`
is the place in the buffer of its second `%`, with the token kept (`AgainAt`).
Each of the three is kept by one turn of the loop (`TplStepKeeps`), so by the
whole loop (`LoopKeeps`), and in the text or a token a buffer may end (`CallLeaves`)
and the next begin (`CallStarts`).

`RepliesRight` proves `ReplyExact` of `DnsSpec`, for any number of queries with one or two questions, with or
without an additional record, and any names that leave the reply room
(`HasReplyRoom`). It has four parts. `labelToStr`
reads a name that is spelled out as its labels with dots between them, one label
to a turn of its loop, and follows a pointer to the same name, ending behind the
pointer (`SpelledName`, `PointedName`). `strToLabel` writes such a text as it was
encoded, which takes that no label has a dot in it (`NameWritten`). A record put
into the buffer agrees with the one of the reference but for the bytes of its time
to live, which are what the buffer held before (`RecordsAgree`, `RecordPut`). And
one turn of the loop over the questions adds the record of its question and counts
it, if there is one (`QuestionAnswered`); a query has one question or two. The invariant
(`DnsInv`) adds only the types and that the buffer holds bytes, as every reply is
right whatever was sent before.

`PiecesAreWhole` and `RequestsAreUnderstood` carry these over to `Handlers`:
`OutputExact` and `InputExact`.

`HandlersStayTyped` proves `HandlersTypeOK` of `Handlers`: every variable of every
handler stays in its range, whatever is asked for. The invariants above give it
for the frames, the names and the routes; the rest (`TypesInv`) says how
long the buffer of a template can be and how often its callback may still ask to
be called again (`TplBounds`), which takes that each of its calls counts
(`TplCallCounts`); that a response holds its string and state between two calls and
else nothing, or both still when a single call leaks them (`RespTypes`); and that
only an upload has written (`NoneWritten`). `ResultsFit` gives the part of the
text conversions: no call writes more than its buffer has room for, less the
terminator where it writes one (`RoomFor`), for any texts and rooms.

Only model-checked is liveness (`MarkedIsClosed`, `ShutdownCompletes`, `Settles`, the
first half of `OffIsApplied`, `ScanEnds`): it needs fairness and ENABLED, which the provers do
not handle.

## Not modelled

Listed as `not_modelled` in `PROJECT.json` with the reason: the ESP8266 layer and
its pages (do not compile against the core), the Linux log shims, the host image
tool, SHA-1.

Within the modelled files:

* core: header parsing by content, MIME types, CORS, the text of response
  headers, socket and SSL set-up, timers, the backlog (default off, and does not
  compile). Blocking writes are taken to be complete;
* websockets: the accept key, the creation of the list's mutex. `char` is taken
  to be unsigned at `cgiwebsocket.c:334`, as it is on the ESP targets;
* firmware: what the data partitions hold, and the handlers that only read
  (`cgiGetFlashInfo`, `cgiGetFirmwareNext`);
* text: characters of 128 and above in base64, which a signed `char` looks up in
  front of the table (`libesphttpd_base64.c:60`);
* files: of stdio's buffering only what `fclose` loses, the espfs form of
  `getFilepath`, and failing allocations that the code dereferences;
* captive DNS: the socket loop of `captdnsTask`, the root name, and pointers to
  pointers in a name;
* WiFi: `cgiWiFiConnStatus`, which only reads.

## Plan

Order of work, most important behaviour first:

1. done: `SendBuffer` with proofs; `HttpdConn` + `HttpdServer`; `Websocket`.
2. done: `WifiConfig` (configuration state machine with fallback) and `WifiScan`
   (scan data, flag and timer).
3. done: the handlers `HttpdConn` calls: `OtaUpload`, `Files`, `Template`,
   `MultiResponse`.
4. done: algorithms against reference definitions: `WsFrames`, `CaptDns`, `Text`,
   `Routes`.
5. done: proofs of every safety property the passing runs check, of the
   refinements of `ResponseFraming` and `RequestCycle`, and of the action
   properties.
