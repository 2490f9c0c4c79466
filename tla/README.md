# Verification of Mrpoid

Mrpoid runs MRP applications, written for the Mythroad platform of feature
phones, on Android. An application is native code in an `.mrp` package; the
emulator loads it into an arena of memory, hands it events and timer
expirations, and offers it the Mythroad system calls. This directory holds
TLA+ models of the parts of Mrpoid whose correctness depends on the order in
which things happen, the TLC configurations that check them, and proofs that
TLAPS checks.

Below, `J` is `src/lib/src/main/jni/src`, `K` is
`src/lib/src/main/java/com/mrpoid/core`, `A` is
`src/lib/src/main/java/com/mrpoid/app`, `P` is
`src/lib/src/main/java/com/mrpoid/apps/procmgr`, `D` is
`src/lib/src/main/java/com/edroid/common`.

## The system

| Part | State | Operations | Interacts with |
|---|---|---|---|
| **VM memory allocator**, `J/mr/mythroad_mini.c` | the arena, a free list inside its free blocks, counters | `_mr_mem_init_ex`, `mr_malloc`, `mr_free`, `mr_realloc` | the arena comes from `mr_mem_get` (`dsm.c`) when an app is started and goes back in `mr_stop_ex` |
| **VM life cycle and timer**, `J/mr/mythroad_mini.c`, `J/dsm.c`, `J/emulator.c` | `mr_state`, `mr_timer_state`, the hooks of the app, the app to return to | start, stop, pause, resume, event, timer; the app's own timer calls, `RunFile`, `Exit` | called by the handler thread; calls the app; starts and stops the Java timer |
| **Emulator and activity**, `K/Emulator.java`, `A/EmulatorActivity.java`, `A/EmulatorService.java` | the handler's queue, `running`, the activity's life cycle | `startMrp`, `pause`, `resume`, `stop`, `postMrpEvent`, `exit_i`, the timer's messages | the UI thread sends, the thread "mrp" handles |
| **Network**, `J/network.c` | socket table, the thread of a host lookup, the proxy's state | `mr_initNetwork`, `mr_getHostByName`, `mr_socket`, `mr_connect`, `mr_send`, `mr_recv`, `mr_closeSocket`, `mr_closeNetwork` | called by the app; a lookup ends in a message to the handler |
| **App process manager**, `P/AppProcessManager.java` | five slots with a state, a mark and a connection | `requestIdleProcess`, service callbacks, `kill` | the launcher asks for a slot, Android binds the service |
| **Pack files and decompression**, `J/mr/mythroad_mini.c` 1866-2252, `J/mr/mr_unzip.c`, `J/mr/mr_inflate.c` | the open file, blocks of the arena, Huffman tables | `_mr_readFile`, `mr_unzip`, `mr_inflate`, `huft_build`, `huft_free` | called by the machine and the app for every file of a package; memory from the allocator |
| **SMS configuration**, `J/mr/mythroad_mini.c` 5937-6610 | a 4320-byte block, "needs saving" | load, get, set, add and delete numbers, save | SMS messages of the operator change it |
| **Downloads**, `D/dl` | running downloads, a queue, lock files | start, add, remove, run, retry | worker threads |
| **Worker thread**, `D/utils/WorkThread.java` | a looper thread and its heartbeat | post, check, recreate | every part that works in the background |
| **Message queue**, `J/lib/msgqueue.c` | a list ordered by time | enqueue, dequeue | not part of the build |
| Graphics, encodings, fonts | frame buffer, tables | pure functions | |
| Screen, audio, key pad, sprites, SMS sending, launcher | Android views | user interface | post events to the Emulator |
| Full Mythroad VM with Lua, `J/mr/mythroad.c`, `J/mr/src` | | | not part of the build: `Android.mk` links the mini VM |

What is hard to test here:

- Everything the machine does happens on one thread, but the messages that
  reach it come from the UI thread, from timers with delays and from the app
  itself, which may call back into the machine in the middle of an entry
  point. Pause, resume, stop, a change of app and an expiring timer meet in any
  order.
- The Java timer is a delayed message. Stopping the machine leaves it in the
  queue; starting it again adds a second one.
- The arena is handed out and taken back over starts, failed starts, changes
  of app and stops; one missed step leaks megabytes.
- The allocator has no headers in front of its blocks, so its correctness
  depends on whole histories of calls.
- Host lookups and media players answer after the app that asked is gone.
- Process slots, downloads and the SMS block have retries, timeouts and
  boundaries of their own.
- Reading a file of a package has some twenty ways to fail, each with its own
  list of what to free, and lengths the blocks must be freed with.

`PROJECT.json` lists each hazard at its line.

The properties that make each part correct:

- *Allocator*: no byte is in two blocks or in a block and the free list; no
  byte is lost; the free list is sorted and merged; `LG_mem_left` is exact; a
  request is refused only if no hole could hold it.
- *Life cycle*: one arena while an app is loaded and none otherwise; a timer
  that is believed to run will go off; a timer the app is owed survives pause
  and resume; a change of app is not forgotten; a stopped machine stays
  stopped; a closing activity takes its process down.
- *Network*: the table agrees with the operating system; a connect is reported
  as it ended; data of one handle does not travel on the socket of another, and
  closing every handle closes every socket (both for orderly applications only,
  see below).
- *Host lookup*: whoever waits for an answer gets its own, once; closing the
  network never waits for ever.
- *Process manager*: a slot kept for an mrp is bound for that mrp; a slot on
  its way up gets there or becomes idle; a slot taken for another mrp no longer
  starts the old one.
- *SMS configuration*: a change is saved or stays marked; every write stays in
  the block and every slot can be written.
- *Downloads*: one writer for a file; a file that was loaded is whole when that
  is announced; every download that enters the table ends.
- *Pack files*: nothing is left open or held, whatever fails.
- *Decompression*: the tables decode the canonical code.

## Modules

These are written, in the order of the plan:

| Module | What it is |
|---|---|
| `MemDefs` | constants of the allocator, the rounding of a length in uint32 |
| `Heap` | abstract allocator: a set of live blocks and the answer to the last request |
| `LGMem` | the allocator of the VM: free list, counters, `mr_malloc`, `mr_free`, `mr_realloc` |
| `Mythroad` | the virtual machine's life cycle down to the Java timer: one action per entry point and per call of the app |
| `Emulator` | EXTENDS `Mythroad`: the handler's queue, the activity, the death of the process; `Init`, `Next`, `Spec` and the properties |
| `PlainApp` | EXTENDS `Emulator`: the same with a history variable, for the apps that ask for nothing in the background |
| `AppProc` | the slots of the process manager, the connections bound to them and the answers of the processes |
| `Network` | the socket table with the gateway proxy, against the sockets of the operating system |
| `HostLookup` | the lookup threads, what they share, the handler's queue and the app that waits |
| `SmsStore` | abstract store: numbers, an address, messages, flags |
| `WorkPath` | the work path of an application: switching, and asking for it |
| `SmsCfg` | EXTENDS `WorkPath`: the SMS block, cell by cell, with its file in each directory and its faults |
| `Downloads` | the threads, queue, table, locks and files of the download manager |
| `Huffman` | `huft_build` step by step, and the canonical code it is checked against |
| `ReadFile` | what `_mr_readFile` and the inflate under it hold at each return |
| `LGMemProofs` | the theorems of the allocator |
| `EmulatorProofs` | the theorems of the life cycle, on `PlainApp` |
| `AppProcProofs` | the theorems of the process manager |
| `HostLookupProofs` | the theorems of the host lookups |
| `NetworkProofs` | the theorems of the socket table |
| `SmsCfgProofs` | the theorems of the SMS block and the work path |
| `DownloadsProofs` | the theorems of the downloads |
| `InflateProofs` | the theorems of the pack reader and of `huft_build`: EXTENDS `ReadFile` and `Huffman` |
| `MC...` | one instance for TLC of each of these |

Each of these parts is closed: the allocator meets the rest through the arena
only, which `Mythroad` counts; the handler's queue is in `Emulator` for the
machine's own messages and in `HostLookup` for the answers of lookups.

Planned next:

1. `WorkThread`: a heartbeat that recreates a thread. `MsgQueue` is not part
   of the build.
2. A second activity in one process (an EmulatorService that stops one mrp
   and starts another), composing `Emulator` with `AppProc`.
3. Media players (`EmuAudio.java`), whose completions outlive an app.
4. Proofs: what of `TablesDecode` can be said without powers and sums.

## The allocator (`LGMem`)

The code chains the free blocks through headers inside them: `next` is an
offset, `LG_mem_free` is the anchor. `freeList` is that chain as a sequence of
`[off, len]`. `mr_malloc` rounds, refuses, takes the first fit (unlinking an
exact fit, else moving the front of the node); `mr_free` finds the position,
reports what is outside or already free, and merges with the node before and
the node after; `mr_realloc` is a malloc, a copy and a free, so both blocks are
in use for a moment. `live` is what the clients hold; they return a block with
the length they asked for, once, since the allocator keeps no length. `ret` is
the last request with its answer.

`Heap` knows only `live` and `ret`. It serves a request from any hole and
refuses it only when the rounded length is 0, when it would leave no free byte
or when no hole is long enough. `LGMem` implements it: the free list never
hides a hole.

Run `MCLGMem`: an arena of 40 bytes (five units of 8), `Word` = 128 for 2^32,
requests 0, 1, 8, 17, 40 and two that wrap around. Five units are enough for
two holes with a block between them and for each of the four cases of a merge;
every branch of the code is taken. Blocks are bounded by the arena itself, so
no bound cuts a history short.

## The life cycle (`Mythroad`, `Emulator`)

`mr_state`, `mr_timer_state`, `mr_timer_run_without_pause` are the code's.
`hooks` says whether the app installed pause and resume functions;
`old_pack_filename` whether an exit returns to another app; `arenas` counts
arenas taken and not given back. The handler's queue is two sequences:
`posted`, the messages without delay, first in, first out; and `timers`, the
TIMER_OUTs, each with the number of posted messages in front of it, since a
delayed message is never handled before one that was sent, without delay,
before it. How long a delay lasts is left open.

The machine calls the app in the middle of its entry points, and the app calls
back. An entry point is therefore one action up to that call, which sets
`calling`; `AppCall` is any call of the app meanwhile, and `AppReturns` the
rest of the entry point. The UI thread runs in between. The app is external:
it makes any call of `AppCalls` in any order, except that it makes none after
`MRF_RunFile` or `MRF_Exit`. In the mini VM apps reach these functions, or
the same assignments, through `_mr_c_internal_table` (335 and before) and the
macros of `mr_helper.h`.

`armed` and the field `stale` are history, read by properties only: the app
has started a timer and was not called yet; a time-out belongs to an earlier
start.

What is assumed or left out: a stop hook ends in `mr_stop_ex`; the loading of
an app is a choice between success and failure (in which case `logo.ext` is
missing too); MSG_INIT and MSG_HEART, which touch none of this state;
MSG_CALLBACK and the native messages (`HostLookup` has those of a lookup); paths and
the copy of the package in `startup_i`; a second activity in the same process.

| Run | Instance | Shows |
|---|---|---|
| `MCEmulator` | all calls, `MaxTimers` 2, `MaxPosted` 2 | safety and liveness |
| `MCEmulatorEarly` | all calls, `MaxTimers` 2, `MaxPosted` 3 | violated: a stale time-out is taken for the expiry of the timer that runs |

`PlainApp` adds a history variable `plain`: the app has asked neither for
background timers nor for hooks. `MCEmulator` is an instance of it. For such an app, `PlainIsPaused` says that no
timer runs while it is paused and that it does not run at all behind a paused
activity once its messages are handled. Both are false of other apps, by
design of these calls.

`MaxTimers` bounds the time-outs an app may pile up: two are enough for a
stale and a fresh one. `MaxPosted` bounds what the user sends (resume, key,
close) while messages wait; pause and the destruction of the activity are
always sent, so that a pause, a resume and a stop do cross with two.

Fairness, used for liveness only: the looper hands out every message
(`Handle`), every delay ends (`TimeOut`), the app comes back from every call
(`Return`), and Android takes an activity that called `finish` through
`onPause` and `onDestroy` (`Finish`). Nothing is assumed of the user or of the
app's calls.

`FinishEnds`: the process of a finishing activity goes away. `RestartHappens`:
if the activity stays in front, a change of app is carried through.

## The process manager (`AppProc`)

The launcher runs mrps in the processes of five services. `mProcList` is the
code's table without its times: `late` stands for `readyTime` being more than
ten seconds ago, and which running slot was inactive for the longest time is
left open. `conns` are the connections bound to each service; `Item.conn` is
always the one bound last, if it is set at all (`hasConn`), and the others are
connections the code has lost sight of. `hellos` counts the answers to HELLO in
the launcher's queue. Everything runs on the launcher's main thread, so a
request (`requestIdleProcess`, with what it calls down to `binProc`), a
callback and an answer are one action each. A request comes with the index of
a slot, then with `foce` set (the "run in process n" dialog of HomeActivity),
or without either.

Android is external: it calls a bound connection back when the process is up,
calls it again when the process died, and starts the process again for whoever
is still bound. A null `app` is a null pointer on the main thread, so the
launcher dies and loses everything (`Crash`). It is reached when an answer for
an earlier connection marks a waiting slot RUNNING.

| Run | Instance | Shows |
|---|---|---|
| `MCAppProc` | 2 slots, 2 mrps, `MaxConns` 2 | the safety properties and `Settles` |
| `MCAppProcStolen` | 2 slots, 2 mrps, `MaxConns` 2 | violated: a waiting slot is taken without unbinding it |

Two slots and two mrps reach every branch of `getIdleIndex`: both slots are
waiting or running when an mrp is asked for again. `MaxConns` bounds the
connections and answers of a slot a request adds to; two are one the slot
knows and one it lost sight of, or an answer on its way.

Fairness, for liveness: Android connects a bound service (`Connected`), the
process answers (`hello`), and a death is reported (`Disconnected`). No request
and no passing of ten seconds is assumed: a slot settles without any.

## The network (`Network`)

`soc` is `mr_soc.socStat`, `os` the state of each descriptor, `held` the
handles the app has not closed, `own` (history) the handle each socket was
opened for, `last` the socket the last transfer used. A connect without waiting
is pending until the peer or TCP ends it (`Settle`); the state is learnt in
`mr_getSocketState` only. A stream socket that connects to the gateway becomes
proxied: `mr_send` reads the `Host` line of the first request, opens a second
slot, connects it and from then on `mr_recv` and `mr_send` use that slot.

`mr_closeSocket` calls itself for the real slot of a proxied one. `Chain` is the
set of slots it closes that way, `down` says when that does not end
("endless") or leaves the table ("stray", an index of -1).

A close leaves `isProxy` and `realSocketId` in the slot; `mr_socket` and a
connect without the proxy do not clear them. The next handle in that slot is
taken for a proxied one: it sends, receives and closes on whatever is now in the slot the
fields name. `worn` (history) counts how often such a slot was taken. An
application is `Orderly`

- if the gateway is reached directly, so that no slot is ever proxied;
- or if it is *tidy* (it connects a handle once and, when it is proxied, sends
  its request before it reads or closes) and keeps one handle at a time: then
  the stale fields lead to a slot nobody else uses;
- or if it is tidy, keeps any number of handles, several proxied ones among
  them, and has not taken a worn slot yet.

`TableIsTrue` (slots and descriptors agree), `ConnectedIsReal` and `PollEnds`
are about every application; `TrafficIsOwn`, `AllClosed` and the last two parts of
`TableIsTrue` about the orderly ones. `TrafficStays` is `TrafficIsOwn` without that
condition, as the comment on `realSocketId` has it, and the code does not keep
it.

| Run | Instance | Shows |
|---|---|---|
| `MCNetwork` | 3 slots, 3 descriptors, `MaxWorn` 1, three applications | the five properties |
| `MCNetworkStale` | the same | `TrafficStays` is violated: a handle in a slot with stale fields is sent over another handle's socket |

The three applications: two handles, no proxy, any calls in any order; one tidy
handle and the proxy; two tidy handles, each through the proxy or not. Two
proxied handles need four slots, so with three the second one finds the table
full in the middle of its first request; `mr_socket` then fails and
`mr_send` uses `socStat[-1]`, which `TableIsTrue` says is the only way there for
an orderly application. `MaxWorn` bounds the worn slots that are taken: with one
handle every further one is taken in the same state of the table, and with
several nothing is claimed of the traffic after the first; the properties that
hold of every application are proved for any bound. (`mr_initNetwork` with sockets
open, `ReInits`, marks every slot free without closing any; the runs do not have it.)

Fairness: a connect ends (`WF` on `Settle`), and the app that waits for it
polls (`SF` on `mr_getSocketState`: in between, other calls may come).
`PollEnds` is about each slot and descriptor: a connect that is under way does
not stay so, unless the process dies first.

What else untidy apps meet, with `tidy |-> FALSE` and the proxy: a slot that names
itself makes `mr_closeSocket` call itself without end, and a proxied slot that
is read before its first send also reaches `socStat[-1]`. `realConnected` is set
also if the second connect failed (`J/network.c:626`).

## Host lookup (`HostLookup`)

All lookups share a callback pointer (`callBack`), a thread id (`tid`) and a
buffer (`dnsBuf`); `queue` holds the answers posted to the handler and
`joining` the thread `mr_closeNetwork` waits for. `heard` is what each lookup's
callback was told. Threads, the resolver and the handler interleave freely.

Run `MCHostLookup`: three lookups, a *patient* app that waits for each answer,
and a *hasty* one that asks again, closes and starts the network meanwhile.
`AnswerIsMine`, `OneAnswer` and `Answered` are about the patient one: with a
hasty app a late answer does reach the callback of the next lookup.
`CloseReturns` holds for both: `mr_closeNetwork` does not wait for ever,
whichever thread it waits for. Fairness: the resolver answers or gives up,
threads run, the looper takes its messages.

## The SMS block and the work path (`SmsStore`, `SmsCfg`, `WorkPath`)

`SmsStore` is what the commands of a configuration SMS mean: each changes one
number, the address, a message or a flag. `SmsCfg` keeps them where the code
does, at offsets in a block of bytes that is loaded, changed and saved as a
whole. The block is on a reduced scale: sections of 5 cells for 120 bytes,
numbers of 2 cells for 32 bytes, so that a number covers several cells and
neighbours could overlap. `SmsCfg` implements `SmsStore` through `View`, what
the next load would show, under `open` and `write` faults (`ImplementsStore`);
`NothingUnaccounted` says that memory and file differ by what was changed and
not saved since one was read from or written to the other.

The file is `dsm.cfg`, without a path: the build does not define
`MR_CFG_USE_A_DISK`, with which the code would go to the system's directory
for it. All files of an application lie below its work path, which it switches
through `mr_platEx(1204)` (`dsmSwitchPath`, `J/dsm.c:660`), so that every directory has
a configuration of its own. `WorkPath` has the switching, on paths as sequences
of names; `SmsCfg` keeps a file per directory and lets the application go
from one to another at any time. `SmsStore` says what comes of it: a save
writes the directory's own store with the changes (`Update`), or, after the
application went elsewhere, the whole store of another directory over it
(`Carry`), but never a mixture, and never a third file.

`PathComesBack` is about the answer to `Y` (line 680), which hides the real path behind
a drive letter: switching back to it returns to the same directory, for every
path of up to four names on every drive, exactly if a hidden directory was
entered by its drive. Who enters `.disk` by its name on the card, another
application's for instance, is told a drive of his own.

Run `MCSmsCfg`: an SMS of one chunk and up to two changes before a save, by an
SMS whose save failed or by the application; the launch directory and drive A.
Longer SMSs apply their chunks to the block in the same way, one by one.

The run uses the places for which this holds. The code has more, and they
break it: number 7 and up (5 in the model) reach into the address (`J/mr/mythroad_mini.c:6189` has
ten numbers of 32 bytes in 240); the last message section is refused by the
bound of `_mr_smsSetBytes` (6112); and a file that exists but cannot be opened
for reading loads as zeros, which the next save writes over it (6057). With
`Numbers {5}`, `MsgPlaces {1}` or `Faults {"read"}` TLC shows each. Left out is the
load of a file that is shorter than the block (6066): the code keeps what it
read, empties the file and sets three default numbers over it.

## Downloads (`Downloads`)

One program counter per download (`pc`), the manager's queue and table, the lock
files, and at each path the file and its `.tmp` file (`final`, `temp`). The
connection is a choice between completing and breaking; a break that asks for it is
followed by a retry, nested in the `finally` of the attempt before, while
`MaxRetry` allows. A world fixes the limit of running downloads, the path of
each, which of them only ask whether their path is being downloaded
(`isFileDownloadIng`), the files that are there, and whether the network is a
wifi (only then are attempts repeated).

*The lock.* `MyFileLock.get` opens the `.lck` file, making it if there is none
(`OpenLock`), and then locks it (`Lock`); `release` unlocks it and closes the
stream (`Release`), and then deletes whatever is at the path (`Delete`). `lck` is
the file at each path, named by the download that made it, `opened` the file a
download has open, `holds` who has the lock of its file. So a thread may open
the file just before it is deleted and lock it after, while another makes and
locks a new one: both hold the lock of the path. Then `DownloadManager.add`
decides, and refuses the second. `lock` is the variable of `run` with that name:
a retry has its own, which is null, so after one nobody releases the lock, until
the collector closes the stream (`Collect`), which may be never. (Within
one process, a lock of a file another stream holds is refused: Java throws
`OverlappingFileLockException`.)

*The files.* A path with a file is a question to the listener each time, also in
a retry: 0 takes the file for the finished download, whatever is in it, and any
other answer deletes it and writes the new one in place. `writes` says where
the file is that a thread writes: the `.tmp` file, the path, or nowhere any
more, since another thread deleted or replaced it.

Run `MCDownloads`: three downloads of one path (three, so that one can hold the
deleted lock file and one the new); two downloads and a question about their
path, which has a part of the file; two of one path and one of another with a
limit of one, so that the queue is used. One retry is enough for a lock that is
forgotten. `OneWriter` says that no two threads are between `add` and `remove`
of one path, whichever locks they have, and that the table is exact;
`StartedOnce` that no download is started twice; `EntryCloses` (fairness: every thread
runs, and reads have a time-out) that a download in the table ends with
`onClose`. `FinishIsWhole` says of a download that loaded the file that its
listener hears `onFinish` only with the whole file at the path, so that nobody
deleted or replaced it meanwhile; and that where no file was, none appears in part.

What the code does and no property denies: a reload in place that breaks leaves
a part under the final name (`D/dl/Downloader.java:324`), and a listener that
answers 0 then hears `onFinish` of the part (316); the lock of a path stays
taken after a retry; a queued download may wait for ever and two
starts in a row exceed the limit (`start` and `checkQueue` look before they
lock); a thread whose `removeFirst` throws keeps its lock and never calls
`onClose`; and a start without a network calls `onError` only
(`Downloader.java:262`), where `IDownloadListener.java:69` promises `onClose`.

Assumed or left out: every download has a listener, which does not throw; downloads
of one path are of one file; a server asked for a range sends it; no second
process on the same files; `stopAll`.

## Pack files and inflate (`ReadFile`, `Huffman`)

`ReadFile` follows one call of `_mr_readFile` through its returns. `held` has
each block with the length it was *asked* for, since a free with another length
corrupts the allocator: `*filelen` is the length of the packed file first and
that of the data later, and `oldlen` must be used in between. What is in the
file is a choice between the cases the code tells apart, `MaxParts` bounds the
parts of a read and the blocks of the data. `ReturnsClean` holds on every
return but those where the codes of a block are wrong, or one length is
repeated too often: there the tables of that block stay allocated
(`J/mr/mr_inflate.c:653`, `751`, `820`). `unsound` marks them. Left out is a block
whose lengths are all zero: `huft_build` returns no table and no error, and the
look-up that follows reads through a null pointer.

`Huffman` is `huft_build` with one action per table and per code; `k`, `a`,
`i` and the stack `u` are the code's. (`HuftInit`, `HuftSpec`, `huft`: the names
leave `Init`, `Spec` and `vars` to `ReadFile`, so that one module can extend
both.) Codes and
indexes are sequences of bits in the order they are read, so that the
"backwards increment" and the prefixes `x[h]` of open tables appear as what
they are. `Meant` is the canonical code, defined without tables; `TablesDecode`
compares it with `Decode`, the look-ups of `inflate_codes`, on all strings.
`NoTableLost`: a call that fails keeps no table, and the link in an entry leads
to a table that was made later and is still there, so that a look-up ends. The
run has every list of four lengths and five larger ones, with up to three
levels of tables, and memory for 0, 1, 2 or all tables. Two remarks: an
all-zero list returns 0 with no table where the comment in front of
`huft_build` says two; and lists of more values than `2^m` can get tables with
entries nobody set (line 324 sizes them one bit too large), which inflate's own
lists never do (the comment at `HuffmanAssumption`).

## Disagreements found

- **A stale time-out** (`TimerOnExpiry`). `N2J_timerStart`
  (`K/Emulator.java:470`) sends a new message and leaves the old one. The old
  one then calls the app's timer event early. It matters most over a change of
  app, where the 100 ms timer is armed over the app's own: the second message
  fires the new app's first timer.
- **A stolen slot** (`WaitingKilled`). `P/AppProcessManager.java:202` resets a
  slot that is still waiting and gives it to another mrp; the comment at 199
  says it is killed. The connection is not unbound, so its callback starts the
  first mrp in the slot all the same, and `markAsConnected` takes that for the
  second one's.
- **Another handle's socket** (`TrafficStays`). `mr_socket` (`J/network.c:303`)
  leaves `isProxy` and `realSocketId` of the handle before in a slot, so that a
  handle that never saw the proxy is sent, received and closed on the slot named
  there; `J/mr_pre/include/mrporting.h:993` calls it the real socket, valid when
  proxied. The run: a handle goes through the gateway in slot 0, with its real
  connection in slot 1; it is closed; slots 0 and 1 are opened for two new
  handles, and what is sent on the first goes out on the second one's socket.

## What is proved

All theorems hold for every value of the constants that satisfies the `ASSUME`
of the module: for the allocator, an arena of a multiple of 8 bytes that is
smaller than `Word`, itself a multiple of 8 (`MemAssumption`; pages give the
first, uint32 the second); for the life cycle, any set of app calls and any
bounds (`MythroadAssumption`, `EmulatorAssumption`); for the process manager,
any number of slots and any marks (`AppProcAssumption`); the others below.

**Allocator.** The invariants of the run are not inductive by themselves. The
inductive invariant of `LGMemProofs` says of the free list that it is sorted,
merged, aligned and inside the arena, and of the blocks that they are
aligned, disjoint from each other and from the list, and together with it
cover the arena; and that `LG_mem_left` is the number of bytes in the list.
Exactness of the counter and disjointness need each other: a malloc is safe
because the node it takes from is free, and the count stays exact because what
is returned was not. The first part of the module proves what `TakeFront` and `PutBack` do to
the set of free bytes, once and without reference to the state; the second part
has the theorems `Invariance`, `TypeCorrect`, `BlocksDisjoint`, `NoLeak`,
`CountExact`, `ListInOrder`, `RequestsCovered`, `AlwaysSomeLeft`, `MarksBound`;
and that every step is a step of `Heap` or a stutter
(`Implementation`): since the list is merged, a hole of the heap is inside one
node, so a refused request really has no hole; and `ArenaRecovers`.

**Life cycle.** `EmulatorProofs` strengthens the invariants with what the
thread is doing (`CallsMatch`: which states go with which call into the app)
and with what a timer that is owed looks like in the middle of pause and
resume (`OwedMatch`). Theorems: `VMInvariance`, `VMTypeCorrect`, `TimersGoOff`,
`ArenaHeldOnce`, `RestartsWait`, `TimersSurvive`, `ExitsClose`, and the action
property `StopIsFinal`. `PlainPaused` (`PlainIsPaused`) needs an invariant of
its own, because an activity in the background and a paused machine are two
things: behind a paused activity either the pause still waits in the queue with
only stops and events behind it, or only these are left and the machine does not
run (`BackHeld`, `HeldBack`).

**Process manager.** Type correctness, `SlotBound` and `NotStuck` are inductive
together: `SlotBound` needs that `Item.conn`, if set, is the last of the bound
connections. Everything a request does to the table is one `binProc` of a slot
that was reset, unbound or left as it was; `BindKeeps` treats them all.
Theorems: `ProcInvariance`, `ProcTypeCorrect`, `SlotsBound`,
`ConnectedMovesOn`.

**Pack reader.** `ReturnsClean` speaks of the last state only; the inductive
invariant of `InflateProofs` says for each step whether the file is open, which
blocks are held and which of the two lengths `*filelen` and `oldlen` have, and
which tables a block may hold at that point. Theorems: `ReadInvariance`,
`EveryReturnClean`, for any `MaxParts` (`ReadFileAssumption`).

**Decoding tables.** For any lists of lengths, any `BMax` and any amount of
memory (`HuffmanAssumption`). Links lead onwards because a table is linked when
the next one is made, from the table open at the level above, which therefore
has to exist: `RootOpen` says that the outermost open table has the prefix
zero, so it is never closed while a code is to be entered, and that before the
first table nothing is open and the code is zero. To know that a code has at
least one bit when it is entered, the invariant follows `k` from the first
length in use; `LeastNumber` and `GreatestNumber` give `Min` and `Max` of a set
of lengths, from the theorem that `<` on the naturals is well-founded.
`TableFilled`, `NewTableKeeps` and `EnterKeeps` treat one table, the making of
tables down to a code, and the code. Theorems: `HuftInvariance`, `TablesKept`
(`NoTableLost`).

**Host lookup.** `HostLookupProofs`: while the lookup a patient app waits for
is in a thread or in the queue, it is the only one, callback, buffer and message
are its own (`ThreadIsMine`, `MessageIsMine`); so what is heard is its answer.
Theorems: `LookupInvariance`, `AnswersAreMine`, `AnswersOnce`, for any number of
lookups (`HostLookupAssumption`); for what must happen see *Liveness*.

**Network.** `NetworkProofs`, for any number of slots and descriptors and any
applications. The one assumption is `~ReInits`: `mr_initNetwork` is called with
no socket open, since it clears the table without closing anything. The invariant has
two parts. `Table` is kept whatever is called: an open slot has a descriptor
of its own, and no descriptor is open without a slot (`Sockets`); only handles
with a descriptor are pending (`Pending`); and `ConnectedIsReal`. `Fit` ties
sockets to handles and is kept by the orderly applications, with stale fields in
the slots and several proxied handles: the slot of a handle is open; an open slot is a
handle's own, or the real one of a proxied handle that has sent (`Owned`); the
real slot of a handle is no handle's and leads no further, and is its own
unless it was closed, in which case the fields are stale (`Linked`); what a
single handle leaves in slot 0 leads to another slot (`Alone`); and the process
dies only of a request that finds the table full (`Lives`). `LeftAlone`,
`RealApart` and `TargetOwn` draw from these that a transfer stays with its
handle, and `ChainOfTwo` that `mr_closeSocket` calls itself once at most, whatever
the number of slots. Theorems: `NetworkInvariance`, `TableTrue`,
`ConnectedReal`, `TrafficOwn`, `ClosesAll`.

**SMS block.** `SmsCfgProofs` shows that the block implements the store
(`Implementation`) for every length of a section and a number, any contents,
places, directories and bounds that fit (`Fits`): the numbers end before the
address, the last message section is not used, and no file is unreadable. With
the code's sizes that is numbers 0 to 6 and messages 0 to 30. `Layout` has the
arithmetic of the offsets, which is not linear; `SetThere` and `SetElsewhere`
what `_mr_smsSetBytes` does to one range and to the others; `ExecutedShown` that
each chunk does to what the block shows what the command means, and
`ExecutedAllShown` the same of all chunks of an SMS, by induction. The
inductive invariant is `NothingUnaccounted` with the bound on the changes that
wait; every save is `SaveStep`, whoever calls it: a step of the directory's
store, a `Carry`, or, when the file cannot be written, none.

Induction is not taken from the library, whose induction theorems take an
operator the installed provers cannot instantiate: `SetInduction` says it of
sets of numbers, and follows from the pigeonhole theorem on finite sets.
`RunsAlong` is the recursion along a sequence it justifies, and `LeastElement`
gives the first hidden directory of a path. With it, `LeadsBack` has the answer
to `Y` for every path at all, and `PathsComeBack` states it of the paths an app
switches to. Theorems: `PathsComeBack`, `ConfigurationInvariance`, `NothingLost`,
`Implementation`.

**Downloads.** `DownloadsProofs`: nothing is claimed of the locks. One writer
comes from the table alone, which has the downloads between `add` and `remove`
(`TableMatches`), one of a path (`OnePerPath`), since `add` looks and enters in one
step. As only one thread writes a path, the file it writes is there as long as
it writes it (`WritersMatch`). The queue has each waiting download once
(`QueueMatches`). Theorems: `DownloadInvariance`, `WritersAlone`, and the action properties
`StartsOnce` and `FinishesWhole`; for any downloads, paths, settings, answers
of the listeners and retries (`DownloadsAssumption`).

**Liveness.** The prover does not know `ENABLED`, so it cannot use `WF` and
`SF`. Each module therefore writes out the fairness of its specification as
`Runs`: for a weakly fair action A that is enabled (by a step that changes
something) exactly when G holds, `[]<>~G \/ []<><<A>>_vars`, and for a
strongly fair one `<>[]~G \/ []<><<A>>_vars`. The theorems are about
`Spec /\ Runs`. That the conditions are those under which the actions are
enabled is not proved; TLC finds each equal to `ENABLED` in every reachable
state of `MCHostLookup`, `MCAppProc` and `MCNetwork` (with an invariant like
`PollDue(s) <=> ENABLED <<Poll(s)>>_vars` in a module that extends the MC
module and instantiates the proofs).

- *Host lookup.* A lookup a patient app waits for is in its thread or in the
  queue while nothing waits in a join (`OnItsWay`), its thread passes its
  stages one by one, and a message that waits is the only one, so the next
  delivery is its own: `LookupsAnswered` (`Answered`). The thread a join waits
  for was started and is on its way to its end (`ThreadKnown`):
  `ClosingReturns` (`CloseReturns`), for any app.
- *Process manager.* A slot on its way up waits for its process (`Starting`),
  has an answer in the queue (`Greeted`), or has lost a connection with no
  answer in front of that (`Broken`), in this order: until it settles, no
  request and no callback takes it out of the second stage but into the third,
  or out of the third at all; and each stage has a fair action that leads on:
  `SlotsSettle` (`Settles`), for any number of slots and mrps.
- *Network.* Only handles are ever pending (`Pending`: the real connection
  of a proxied one is made with a wait), and until the poll finds it ended, no
  other call moves a pending connect except to end it (`Steady`, one lemma per
  call): `PollsEnd` (`PollEnds`), for any application, orderly or not, unless the
  process dies.

**Only model-checked:** `FinishEnds`, `RestartHappens` and `EntryCloses`, which
need an induction inside a temporal formula (over the messages in front of the
one that matters, over the retries that are left), and the temporal prover
knows a fixed number of stages only; and `TablesDecode` of `Huffman`: whether the
tables decode rests on powers of two and their sums, of which the provers
know nothing, not even that they are numbers. `NeverFull`, `WaterMarks` and `Recovers`
of the allocator are the other way round: proved (`AlwaysSomeLeft`,
`MarksBound`, `ArenaRecovers`) and not in a run.

## Not modelled

Graphics, encodings and fonts are transformations of data without a protocol.
Of inflate, the copying of bytes, the check sum and the extra bits are left
out. The user interface (screen, key pad, sprites, edit box, launcher) is
Android views. File calls of `dsm.c` are single calls of the operating system; only where
they look (`WorkPath`) is modelled.
Sending an SMS (`EmuSmsManager.java`) is a request and a broadcast, dropped
when the app is paused. The full VM with its Lua interpreter
(`J/mr/mythroad.c`, `J/mr/src`, more than half of the repository's C), the
`...forplat.c` variants, `J/vm.c`, `J/cache.c`, `J/lib/msgqueue.c` and
`J/lib/ArrayList.c` are not part of the build.

## Running

Each configuration is run as `tlc -config MCLGMem.cfg MCLGMem` and takes from
seconds to about two minutes; `tlapm` on the proof modules from half a minute
to some minutes each.
