# Luxeed keyboard driver: TLA+ models and proofs

This directory specifies, model-checks and proves properties of the Luxeed LED
keyboard driver (the C program under `src/`): the USB driver in
`luxeed_device.c` and the server around it.

## Inventory

| component | source | state | operations | hard behaviour | what makes it correct |
|---|---|---|---|---|---|
| device driver | `luxeed_device.c` | handle, `opening`/`opened`/`initing`/`inited`, `init_count`, `key_data`, dirty flag | `open`, `find`, `init`, `set_key_color(_all)`, `update`, `close`, `destroy` | keyboard unplugged or transfer failing between any two USB calls; retry on the next update | no flag of a failed attempt survives it; a clean frame is a lit frame; a changed frame is lit in the end |
| chunked sender | `luxeed_device.c` 362-459 | offset and bytes left | `luxeed_send_chunked` | short and empty transfers, an error in the middle | the keyboard gets the message, once, in order |
| message frame | `luxeed_device.c` 38-160, 462-503, 631-638 | templates, `msg` | compose, checksum | layout and order of writes | checksum agrees with what is sent; each key gets its own red, green and blue |
| pacing | `luxeed_device.c` 20-29, 427, 640-654 | time of the last frame | throttle, chunk delay | clock steps | messages not closer than 25 ms, and no pause longer than that, but for the steps of the clock |
| server loop | `luxeed_server.c` | clients, accept/read/timer events and their flags | accept, read, sleep, wake, close | interleaving of clients, events that outlive or forget a client | exactly one event waits for each client |
| endpoint | `luxeed_endpoint.c` | descriptors, stdio buffers | bind, accept, open, read_line, close | stdio reads ahead of the event loop; `fgets` blocks the thread | every line is executed |
| commands | `luxeed_command.c` | current colour, options of a client | `s g u w v d D h` | partial failure of a command, shared frame | keys around a bad one are set, the bad one is named, no change goes unmarked |
| key map | `luxeed_key.c` | table of 76 keys | lookups by id, position, ascii, name, string | arrays that end at a 0, two lines per row | each search ends, and finds the one key that is meant |
| options and main | `luxeed.c` | option structure | `argp` parser | failures in the middle of the opening; a close that runs twice | listens where asked, or exits with a failure; everything is released once |
| test program | `luxeed_test.c` | - | rainbow loop | device without libusb context | - |
| python driver | `lib/python/luxeed/*.py` | a second, older driver | the same protocol with pyusb | errors raised between chunks | as for the C driver |
| USB dump, logging | `luxeed_usb.c`, `luxeed_misc.c` | - | printing | - | - |
| client scripts | `luxeed_t1`..`t4`, `love`, ... | - | write commands to the server | write ahead of the server | - |

How they interact: a client script writes lines to the server's socket. One
libevent loop accepts clients, reads one line per read event, runs it, and
calls the driver directly for `s`, `g` and `u`. Everything the server and the
driver do is one thread; the other actors are the clients (other processes),
the kernel's socket buffers and the keyboard on its bus. The clients share one
`luxeed_device`, so one frame.

## Modules

| module | models |
|---|---|
| `LuxeedDisplay` | abstract: colours asked for, colours lit, what is still owed |
| `LuxeedDevice` | the driver, one step per USB call, and the keyboard as a second actor |
| `LuxeedDeviceProofs` | TLAPS proofs about `LuxeedDevice` |
| `LuxeedSend` | the sending loop, byte by byte, with short and empty transfers |
| `LuxeedSendProofs` | TLAPS proofs about `LuxeedSend` |
| `LuxeedFrame` | templates, layout and checksum of the messages, with the code's own bytes |
| `LuxeedPixels` | abstract: keys with a red, a green and a blue light, and what a message asks of them |
| `LuxeedFrameProofs` | TLAPS proofs about `LuxeedFrame` |
| `LuxeedServer` | event loop, clients, socket and stdio buffers, commands |
| `LuxeedServerProofs` | TLAPS proofs about `LuxeedServer` |
| `LuxeedSystem` | `LuxeedServer` and `LuxeedDevice` composed: handlers that wait for an update |
| `LuxeedSystemProofs` | TLAPS proofs about the composition, that use those of the driver |
| `LuxeedPacing` | the times of the driver, on a wall clock that is set forward and back |
| `LuxeedPacingProofs` | TLAPS proofs about `LuxeedPacing` |
| `LuxeedMain` | options, opening and closing of the server, exit status |
| `LuxeedMainProofs` | TLAPS proofs about `LuxeedMain` |
| `LuxeedKey` | the key map: the table, the loop that builds it, the lookups |
| `LuxeedCommand` | commands, their words looked up in `LuxeedKey`, colours and replies |
| `LuxeedCommandProofs` | TLAPS proofs about `LuxeedKey` and `LuxeedCommand` |
| `MC...` | constants for TLC |

Operators under a comment "Mutant:" are deliberately wrong variants
of the definition that follows them. No specification uses them; putting one in
the place of the definition must break the property it goes with, which shows
that the property can fail (`mutants` in `PROJECT.json`).

### LuxeedDevice

The variables keep the names of `struct luxeed_device`. `pc` says which USB call
`luxeed_device_update` makes next:

    idle -> find -> open -> reset -> init -> send/sent (msg_ff, msg_00)
         -> check -> send/sent (frame) -> idle,      any -> fail -> idle,
    find, open -> crashed

`fail` is the common tail of the function: close and return 0. `crashed` is the end of
the process: when the list of devices cannot be had, `find` reads it all the same
(`luxeed_device.c:208`); and `libusb_open` is given a device whose reference went with
the list (`:237`), which is freed memory if the keyboard left in between. `u_dev` (what
`find` found) and `u_dev_hd` (the handle) are `"live"` while the keyboard they
were obtained from is still there, then `"stale"`.
The frame is a function from `Keys` to `Colors`, where a key stands for one byte
of `key_data`; a message is `NChunks` transfers, of which `ChunkOf[k]` carries
byte `k`. `msg_00` is dark and `msg_ff` is any frame, as a few of its key bytes are
dark too. Colours are only written when `pc = "idle"`, because the driver does
not return to the event loop inside an update.

The keyboard is external. From the way the driver uses it: it takes the
transfers of a message in order, shows the message when it has all of them, and
starts afresh after a reset or a power cycle. A transfer that the driver sees
fail may or may not have reached it. Its LEDs may or may not go out on a reset.

Abstracted: `find` and `libusb_open` report failure, success or, where they may, end
the process; short transfers
are in `LuxeedSend`, the bytes and the checksum in `LuxeedFrame`, the delays in
`LuxeedPacing`. The memory of `msg`, which every open allocates and no close
frees, is left out.

### LuxeedDisplay

The promise, without program counter, handle or message. `LuxeedDevice`
implements it (`DisplaySpec`) under the mapping `want <- key_data`, `shown <-
leds`, `owed <- key_data_dirty`, `lost <- dark`, `ready <- init_count > 0`,
`Flashes <- {msg_ff, msg_00}`:
frames appear in one step and are what is asked for at that moment, the
self-test flash is over for good once `ready`, a debt is cleared only when the
frame was lit (`lost` records that the keyboard went dark by itself since).

### LuxeedSend

One call of `luxeed_send_chunked`. `buf` is the pointer's distance from the start
of the message, `left` the bytes left, as in the code; `wire` is the data the
keyboard has received, a byte being named by its place in memory, so that a byte
skipped, repeated or read from behind the message shows. A transfer succeeds
with any number of bytes from none to its whole chunk, header included, or fails
after any of them. `whole` is a history variable: no transfer was short so far.

`LuxeedDevice` sends a message by one step per chunk. `SendsAsDriver` says that the
loop implements these steps, `Transfer` and `TransferFails`: `Driver` is the driver
in the middle of a message, `chunk` the chunks whose last byte the loop has passed,
`rx` the chunks that have arrived, each with the bytes that did, and `leds` all of
them. A transfer that ends no chunk does not show; one that fails may have ended
one, as the driver's `TransferFails` allows.

### LuxeedFrame

The three templates, byte by byte, the copy of `key_data` to 0x37 and
`luxeed_device_msg_checksum`, with the sizes of the code. The static buffers of
the self-test are state, because the checksum is written into them; the `assert`
on them is the guard of `SendFF` and `Send00`, and `AssertsHold` says that it is
never false. Colours come as ints, of which a byte is stored.

`LuxeedPixels` is what this is for, without bytes: colouring a key touches no other,
a frame asks for the colours given, `msg_ff` for full lights and `msg_00` for none.
`PixelSpec` says that `LuxeedFrame` implements it, with key `k`'s red, green and blue
read from bytes 55 + 3k, 56 + 3k and 57 + 3k of what is sent. That place and order are
those of the second driver (`lib/python/luxeed/keyboard.py:81`) and of the comment
at `luxeed_device.h:33`, and are not taken from the operators they check.

### LuxeedServer

Per client: what is in the kernel (`sock`), what is in the `FILE` (`file`), the
two flags the endpoint keeps (`read_ev_active`, `timer_ev_active`) and,
separately, what libevent has pending (`read_ev`, `timer_ev`): that flag and
event can differ is one of the hazards. `serving` is the client in whose read
handler the thread is; `Fill` is the `read(2)` inside `fgets`, and when it is
not enabled (half a line, nothing more in the socket) the whole server waits
(`Blocked`). A handler's last step (`RunLine`, `RunLastLine`, `Close`) includes the
command, the device update it may make, the reply and the event it adds again.

Of a reply the model has the write, not the text: `Reply` lets any command be answered
or not (a client may be verbose, a line may be bad; `LuxeedCommand` says which).
`peer` says what becomes of it: a client that hung up may still listen, or have left
(`"gone"`), in which case the next reply resets the connection, or have reset it by
leaving with replies unread. A reply into a connection that was reset ends the
process by SIGPIPE (`alive`), unless its flush only collects the pending error. A read
from such a connection may fail, so a last line without its newline may be lost
(`NoLine`). `UpdateCrashes` is the end of the process inside an update, where
`LuxeedDevice` has it. After the process has ended no step is taken.

`luxeed_device_update` is otherwise one step with the outcomes that `LuxeedDevice`
allows: success, or closed; never initialised twice. Colours are left out: an `s`
may or may not make the frame dirty. Commands that change neither colours nor events
(`g h v d D #`, blank and bad ones) are all `"g"`. That an update may be taken for one
step is what `LuxeedSystem` is about.

Assumed of the kernel: what a client wrote before it left arrives, and a reply never
blocks for want of room, as replies are a line and a client that stays reads them.

### LuxeedSystem

The variables of both parts, which share `opened`, `init_count` and
`key_data_dirty`, and two of its own: `call`, which of the two callers of
`luxeed_device_update` waits for it (the `u` command, or the close of a client),
and `before`, what the server was like when it was called. The server's actions
are those of `LuxeedServer`, disabled while `call` is set, but for the two that
update: each is split into its part before the call and the one after, and
between them the steps of `LuxeedDevice` run, the clients write, connect and
hang up, and the keyboard comes and goes. A driver that crashes takes the server
with it. Colours are real here: an `s` sets keys of the frame.

`ServerSpec` is the refinement: with the device, the connection and the flags
read from `before` while a call runs, every step is a step of `LuxeedServer` or
does not show.

### LuxeedPacing

`t` is the time that passes and `offset` what the wall clock adds to it; the
clock is set forward or back between any two steps of the driver. `Sleep` and
`Wake` are `usleep`, and each step that sleeps in the code sleeps here, in its
place: before, between and after the messages of the self-test, in the throttle,
after a failure, and, were the delay not zero, after a chunk. A frame that fails
leaves the stamp of the one before. `ended`, `failed`, `ahead` and `behind`
are history variables. A pause that does not fit a `useconds_t` is any pause.

### LuxeedMain

From `main` to the loop and back: one step per argument parsed, one per call of
the opening that can fail, and the closing in two steps, device and context,
which run again when `luxeed_server_open` has already closed. `in_main` tells the
two apart. `contexts`, `accept_ev` and `socket` are what libusb, libevent and the
kernel have, beside `u_ctx` and `accept_ev_active`, what the structure says. In
the loop a client is a number, accepted, served or gone. A port is any int that
`atoi` returns, and `Htons` what is bound of it. `server_path` is the name that
`luxeed_server_open` copies, and `path_exists` the file of that name that a close
removes. `-f` and `-u` are
declared and have no case in `parse_opt`: argp refuses them, so what
`luxeed_server_open` does for a FIFO or a UNIX socket is never reached.

### LuxeedKey and LuxeedCommand

`LuxeedKey` has the code's own table, `_key_maps`, name by name, and builds
`_keys` from it one name a step, when the first lookup asks for it. A string that
is looked up is a record of its form and its numbers, `None` for a number that is
none; what `atoi` and `sscanf` make of that is in the operators. `LuxeedCommand`
EXTENDS it: a line is its command and its words, each word is looked up in turn,
and the lookup of the first one builds the table between the words of a line.
What the loop that builds the keys needs of the table is `TableAssumption`, about the
code's own values, that TLC evaluates: no key gets more than two names, no name or
code is on two keys, a name without a code is the only one of its key, and only key
0 is at 0,0. `NoneAssumption` and `ErrorsAssumption` say that the values that stand for
"none" are not among the others.
A client that has left gets its first reply answered with a reset, and the next
one ends the server (`alive`). Colours are what `%2x` can read, -15..255, and are
stored as bytes.

## Runs

| run | question | result |
|---|---|---|
| `device` | does the driver settle, send whole messages, know what is lit, implement `LuxeedDisplay`, and send a changed frame in the end? | holds, unless `Wedged` |
| `device_retry` | is a failed update made up for? (`luxeed_device.c:669`) | **violated** |
| `send` | does the keyboard get each byte once and in order, however transfers are cut, as the driver's model has it, and does the loop end? | holds, if the keyboard takes data |
| `frame` | does every message verify, and ask each key for the colour it was given? | holds |
| `pacing` | are messages apart, pauses bounded and retries delayed, however the clock is set? | holds, less what it was set |
| `server` | one event per client, none left over, no orphaned change; is a client that hangs up served to its end? | holds, the last unless the process ends or a half line blocks it |
| `server_wait` | is a client that is not read from asleep? (`luxeed_server.c:130`) | **violated** |
| `server_readahead` | is every line executed? (`luxeed_endpoint.c:191`) | **violated** |
| `system` | is an update one step for the clients; is everybody served and everything shown with real updates? | holds, with the same exceptions |
| `main` | does the server listen where asked or fail loudly, and release everything once? | holds |
| `main_accept` | does the server survive a failed accept? (`luxeed_server.c:216`) | **violated** |
| `command` | do the lookups find the key meant; do keys, colours and errors of a line agree; what can end the server? | holds |

Bounds. `device`: two bytes, in the first and in the last of three transfers,
and three colours, so that the clients' frame differs from both self-test frames
and a cut can fall before, between and after the bytes. No fault is counted:
the bus may fail any number of times. `device_retry` uses two transfers and
two colours. `send`: six blocks as in the code, of three bytes, so that a block
can be cut in every way and the cuts of several blocks can follow each other;
with this size a header counted as data does not end on a block's edge by luck.
`frame`: sizes and bytes are those of the code; three keys (first, middle, last)
and two identifiers that are no key, colours at both ends of a byte and one out
of it. `pacing`: a clock set twice, forward by less than an interval (of 2), back
by more than one and back so far that the pause no longer fits (6), over three
updates: one to initialise, one to stamp, one to be throttled. `server`: two
clients with two commands each, enough for the second line to be read ahead and
for the clients to wait, update and leave in any order; three lines add only more
of the same buffer.
`system`: two clients with a line each, one byte in two
transfers, so that a client can change the frame and leave it to the close of
the other. `main`: command lines of three arguments, enough for one option to be
given twice with `-s`; ports at the edges of `htons` and of the default,
and a negative one. `command`: two lines, so that one client's colours and replies meet the
other's, of up to three words that are keys, no keys, or the same key by another
name; the table is the code's own.

The runs of `LuxeedDevice`, `LuxeedServer`, `LuxeedMain`, `LuxeedSend`, `LuxeedCommand` and
`LuxeedSystem` do not check for deadlock: a server whose clients are all gone has
nothing to do, and a program that exited, crashed or ran out of lines is at its end. `"w-"` is left to `server_wait`, whose finding it is.

Fairness. Driver: its thread runs on (`WF(Driver)`), and clients go on asking
for updates (`WF(Update(FALSE))`: every script ends each frame with `u`).
Sender: `WF(Progress)`, a keyboard that answers takes some data in the end; the
loop itself does not bound the transfers that take none, so without it nothing
ends. Environment: an unplugged keyboard is plugged in, and the bus calms down some
day; without that nothing can be promised. Server: libevent dispatches every
ready event of an iteration before it polls again, so no ready client is passed
over for ever (`WF` of accept, read and timer of each client), and a handler
that can go on does; in `LuxeedSystem` so does an update. Clients owe nothing: none
has to write, to end the line it began, or to hang up. `DrainedAfterHangUp` and
`ShownAfterHangUp` make their exceptions in the formula instead: the process has ended,
or some client leaves the server in `fgets` for good (`NoneBlocksForGood`). The second
does happen: with one client that writes half a line and stays, no other is served
again. In `LuxeedSystem` the handler and the update it waits for are one `Thread`. Main:
the process runs on and accepts a client that is waiting; nobody has to type another
argument or to connect, and no client blocks the loop, as there are no lines in that
module. `pacing` and `command` have no fairness, and no liveness property.

## Findings

1. `device_retry`. `luxeed_device_init` starts with `result = -1` and only the
   first initialisation changes it. After a keyboard was initialised and then
   lost, each update opens, fails to initialise, closes, and reports success.
   `SentOrWedged` shows that this, and the end of the process, are the only ways a
   change is never sent.
2. `server_wait`. `w -1`: no timer, and no read event either.
3. `server_readahead`. `setlinebuf` does not limit what `fgets` reads; the rest
   waits in the `FILE` for an event that comes with the next bytes or the end
   of the file. `DrainedAfterHangUp` shows that hanging up repairs it.
4. `main_accept`. When `accept` fails, `luxeed_client_close` follows `cli->srv`,
   that only `luxeed_client_open` would have set.

Known from the modelling, without a run, as no line of the repository says
otherwise or as the fact is one of constants: the pause between chunks is cast to
whole seconds before it is multiplied, so it is none (`ChunksUnpaced`);
`luxeed_device_update` returns 0 when it fails, so `UPDATE FAILED` is never
reported; `-d` is overwritten by the log level; `commands_n` is never
incremented, so each command on the command line replaces the one before; `-f`
and `-u` are declared and refused; a reply to a client that is gone for good
ends the server by SIGPIPE, and `QuietIsSafe` says which lines have none; a list of
devices that cannot be had is read all the same, and `libusb_open` is given a device
whose reference was dropped, either of which may end the process; `fgets` waits in the
only thread for a client that wrote half a line; a port is an `int` until `htons` cuts it,
so that 65536 binds port 0, which is any port, and -1 binds 65535, while the log names
what was typed (`ListensWhereAsked` shows that a number that is a port is bound as
asked); `atoi` makes 0 of what is no number, so a `#` with anything behind it finds key 0;
a keyboard that is replugged while the frame is clean stays dark until a colour changes;
a copy of a whole block reads past the message after a short transfer; with a
clock set back by more than 2^32 microseconds the throttle's pause is undefined.

## Proofs

`LuxeedDeviceProofs` proves, for any set of keys and colours, any number of
transfers and any layout, from `ColorsAssumption` (0x00 is a colour, `msg_ff` a
frame) and `ChunksAssumption` (a message has at least one transfer, and every
byte lies in one): `TypeCorrect`, `Invariance` of `IInv`, and from it
`FlagsSettle`, `KeyboardInStep`, `CleanIsShown`, `NeverTorn` and `Refinement`.

None of the invariants is inductive alone. `CleanMeansShown` is about idle
states; what makes it true at the end of an update is that the message just
sent is lit (`KeyboardFollows`), which needs the keyboard to hold exactly the
first `chunk` transfers of the message while it is sent (`InStep`), which needs
it to hold none before (that is what the reset in `open` is for). That the
message is still `key_data` is `MessageIsItsKind`; that a clean frame is dark
until the self-test ends, so that `msg_00` shows it, is `InitOnce`; and which
flags hold at each step is `FlagsFollowSteps`. `IInv` is their conjunction.

`LuxeedSendProofs` proves, from `BlockAssumption` (a block has at least one byte, a
message at least one block) and for any number of blocks, `SendInvariance`, `PrefixReceived`,
`SuccessIsDelivery` and `CopiesInside`. `IInv` adds to `PrefixOnWire` what it does
not say by itself: `buf + left = Size`, which turns "nothing left" into "all
sent", and that `buf` is a multiple of the block size while no transfer was
short, which is why the copy of a whole block ends inside a message of whole
blocks. `LoopIsTransfers` is the refinement `SendsAsDriver`: the bytes of a transfer end
one chunk or none (`ChunksFill`), a chunk whose end was passed has arrived with its
own bytes (`FilledChunks`, `ChunksArrive`), and the last one makes the message
(`ChunkAppended`).

`LuxeedFrameProofs` proves, for all colours of all keys, `ChecksumSent` and
`FrameShowsPixels`, for which the sum is never expanded: nothing it is taken of changes
afterwards, as the byte that is cleared is zero in the template and no key's
(`ClearedAlready`), and the place of the checksum itself does not count
(`ChecksumStable`). `FrameShowsPixels` is the refinement `PixelSpec`: the three places of
a key are its own (a colour disturbs no other key), the byte that is cleared and that
of the checksum are no key's (`FrameShowsKeys`), and `msg_ff` has only full and dark
lights there, `msg_00` only dark ones (`SelfTestLights`). `AssertsNeverFail` needs the sum itself. `Total` is defined by two
recursive functions; that they exist is an induction, for which the library's
theorems take an operator as a parameter. Here the induction is on a set
(`NatsByStep`, from the least element of what is not in it), which the provers can
do. From there the sum is that of its 24 rows (`TotalIsRows`), the rows of the
templates are lit, dark, or one of a few that are added up (`FFChecks`,
`ZeroChecks`), and the results are the bytes the source has at 0x14e. `BuffersStay` is
the inductive invariant: checking a buffer writes what is there. `FrameTypeCorrect`
says that the sum, and any int stored as a colour, is a byte.

`LuxeedCommandProofs` proves, from the assumptions named above and for any clients,
lines and words, `CommandInvariance` of `IInv`, and from it all the properties of the
run `command`. `KeyInv` says how far the loop of `luxeed_key_init` is (`LoopFollows`) and
that the array is the part of the table read so far (`KeysFollow`): what is in a
slot was read, what was read is in a slot, the slots fill from the first. That at
most two fill is not in the loop but in the table, and so is that no two keys match
a lookup. `LineFollows` cuts a line into the words done and the words left,
`LookupFollows` says that what a word found it would find again, since the table is
not built under a line whose words have been looked up, `EffectsFollow` states
colours and errors of the words done, and `RepliesFollow` which commands speak. All
three theorems about commands are this invariant where no word is left.

`LuxeedServerProofs` proves, for any number of clients and lines, `ServerTypeCorrect`
for every set of commands, and, if no client waits a negative time (`"w-"`, the
finding of `server_wait`), `ServerInvariance`, `OneEventWaits`, `NoEventOutlives` and
`LastClientFlushes`, in a server that any reply or update may end. `IInv` needs two
strengthenings. That nothing written is lost
or run twice is an equation between the pieces in the kernel, in the `FILE` and
executed (`NothingLost`), which bounds what `done` counts. That one event waits
for a client is inductive only together with that none waits for a client that
is served or not open (`OnlyOpenServed`) and that events are flagged, as a close
goes by the flags. `EndsKeepType` is what all steps do to `peer` and `alive`.

`LuxeedMainProofs` proves, for every set of arguments, hosts and log levels,
`MainInvariance`, `MainTypeCorrect`, `DeviceWithinContext`, `NothingLeaks`,
`FailureReported`, `AcceptIsPending` and `ListensAsAsked`. `Held` says of each point of opening and
closing what is held there, `Outcome` what `result` and the socket say there; the
second close is harmless because the first one leaves `Held` as it was before
anything was opened. `ListensAsAsked` needs to know of each step which option
was given last: `Remembered` says that the structure holds it, through the defaults
and `htons`, until the socket is bound to it.

`LuxeedPacingProofs` proves, for every interval, sleep and step of the clock, from
`TimesAssumption` (the sleep is no shorter than the interval, as 100 ms is no
shorter than 25, and the chunk delay is under a second), `PacingInvariance`,
`PacingTypeCorrect`, `MessagesKeptApart`, `ThrottleBounded`, `RetriesKeptApart` and
`ChunksUnpaced`. The hard part is that the throttle reads a clock and the property
is about time: `ClockFollows` bounds the one by the other, off by `ahead` and
`behind`, and only while no frame has been sent since the stamp; `TimesFollow`
says what the sleeps make up for where there is no stamp yet.

`LuxeedSystemProofs` proves of the composition, for any clients, keys, colours and
number of transfers, from `CommandsKnown`, `BoundKnown` and `FramesKnown`:

- `DriverAsSpecified`: it implements `LuxeedDevice`. So `IInv` of the driver, proved in
  `LuxeedDeviceProofs`, holds in it without being proved again (`DriverKeeps`).
- `SystemInvariance`: `ServerInv` is the discipline of the events with the call in
  it; `UpdateUnderWay` says, at each step of an update, what it has changed of what
  it found, and `Updated` what it leaves behind: the very disjunction that
  `LuxeedServer` has for `DeviceUpdate`; `ChangesAreOwned` says that what is unsent
  has a client that will send it.
- `UpdateIsAtomic`: it implements the server whose updates are one step; a step in which
  the driver crashes is its `UpdateCrashes`.
- `LeftAsAsked`: `ShownWhenAllGone`, from the driver's invariant (a clean frame is lit)
  and the server's (a frame nobody owns is clean).

Only model-checked: the liveness properties (`SentOrWedged`, `ShownWhenHealthy`, `Ends`,
`DrainedAfterHangUp`, `EveryoneAccepted`, `ShownAfterHangUp`), as fairness and ENABLED are
out of the prover's reach, and what the violated runs check. Every invariant, action property and refinement of the
passing runs is proved. Inductive invariants and, but for that of
`LuxeedCommand`, type invariants are proved and not in their runs.

## Not modelled

- The descriptor dump and logging: printing.
- The FIFO and UNIX socket modes, whose options are refused, with the part of
  `luxeed_endpoint_init` and `_bind` that is theirs; the socket options.
- Lines of 2048 bytes and more, that `fgets` splits: lines are whole here.
- The test program: it opens a device that has no libusb context, and stops at
  the assertion of `luxeed_device.c:262`.
- The python driver: an older program that shares no code with the server, for a
  library whose behaviour the repository does not show.
- What the client scripts draw, the text of `d`, `D` and `h`, the order of the
  printed key map.
- Memory: each open allocates a message buffer, and no close frees it.

## Plan

Done, in this order: `LuxeedDevice` with `LuxeedDisplay`, `LuxeedServer`, `LuxeedSend`,
`LuxeedFrame`, `LuxeedMain`, `LuxeedKey`, `LuxeedCommand`, `LuxeedPacing` and
`LuxeedSystem`, with the proofs of all of them. What would come next: the
refinements between the parts that are still told in words, of the frame of
`LuxeedDevice` by the bytes of `LuxeedFrame`, and of the lines of `LuxeedServer` by those of
`LuxeedCommand`; the bytes of a line and the buffer of `fgets`, so that split lines
and half-read ones can be told apart.
