# PlugTest: TLA+ models and proofs

PlugTest is a Qt program that runs an endurance test of power outlets. A relay
box on a serial line plugs and unplugs an appliance on each of four channels;
after every command the program samples up to three outlets over SNMP and counts
whether the load current is there (plug inserted) or gone (plug withdrawn).

This directory models the parts of the program that are hard to test: two
threads that share unlocked state, a one-frame send buffer emptied by a timer, a
run flag written by both threads, and counters that must add up over days.
Around them stand the serial dialog, the display that reads the counters while
the worker writes them, and the end of the program. Beside them stand the
configuration file, which is written key by key and read again after a restart;
the SNMP session of the client library the repository carries, with its queue
and its timeouts; and the parts that keep to themselves: conversions between
texts, bytes and SNMP messages, the ciphers of libdes, the objects, collections
and log of the SNMP library, one reading of a device, the table.

TLC checks small instances; TLAPS proves the safety properties of the program, of its
dialog and its table, of the session, the configuration file, the log, the SNMP
client, the values and objects of the SNMP library and the conversions of texts and
messages, for every number of channels, outlets, attempts, threads, identifiers and
characters, queue limit and width of the counters.

All paths below are relative to `src/PlugTest/`.

## 1. Inventory

| Component | State | Operations | Interacts with |
| --- | --- | --- | --- |
| `SerialPort` (`common/serialport/serialport.cpp`) | `isOpen`, `mSerial`, `mWriteArray` (one frame), `mSerialData` | `open`, `close`, `write(array)`, `timeoutDone` (100 ms timer), `loopTest` | called by the GUI thread and, for `write`, by the worker; feeds the relay box |
| `SerialPortWid`, `SerialPortDlg` (`common/serialport/`) | the texts and enabled states of `stateLab`, `workBtn`, `comBox` | open/close button, port selection, refresh, loop test | calls `SerialPort` from the GUI thread |
| `PlugThread` (`plugthread.cpp`) | `isRun`, the position in `run()` | `startThread`, `quitThread`, `run` with `init`, `rtuOpenCmd`, `rtuCloseCmd`, `openFun`, `closeFun`, `delay` | reads the configuration, writes `SerialPort` and `DataPackets`, asks `SnmpThread` |
| `DataPackets` (`common/datapacket/`) | per outlet `en`, `action`, `all`, `ok`, `err`, `value` | `clears`, field-wise writes by the worker | read by the display |
| `MainWindow` (`mainwindow.cpp`) | enabled state of two group boxes, widget contents | start button (`inputCheck`, `saveCfg`, `startThread`), end button (`quitThread`), serial dialog | writes the shared configuration |
| `SnmpThread` (`common/snmp/snmpthread.cpp`) | `mIp`, `mValues` | `devDataV3` (blocking get), `getValue`, `makeRequestSlot` (a stub) | called by the worker |
| `ConfigBase`, `sysconfigfile` (`common/cfgcom/`) | the record `item`, `pConfigIni` (a `QSettings`), an ini file | load at start-up, `save` key by key with a sync after each | the shared record is written by the window and read by the worker |
| `common.cpp` | none | `cm_StringToHex`, `cm_ByteArrayToHexStr`, `cm_isIPaddress` | used by window and worker |
| `DisplayWid` (`displaywid.cpp`) | a timer of one second | `timeoutDone`, `updateData` | reads `DataPackets` field by field, fills its table |
| `ComTableWid` (`common/tabcom/`) | the cells of a `QTableWidget` | `setTableRow`, `appendTableRow`, `checkTableRow`, `clearTable`, `delTable`, colours, `getList` | base class of the display |
| `Session` and its jobs (`common/snmp/src/`) | `m_work_queue`, `m_current_work`, `m_work_id`, `m_request_id`, the response timer, `m_last_request_datagram`, `m_found` | `requestValues`, `requestSubValues`, `setValue`, answers, timeouts | calls the client's slots; beside the program: `snmp.pri` does not compile it |
| `QtSnmpData` (`common/snmp/src/`) | `m_type`, `m_data`, `m_childs`, `m_address` | encoding and decoding of SNMP messages, stream operators | used by `Session` |
| `QtSnmpClient` (`common/snmp/src/`) | a `Session` | setters and requests, callable from any thread through `IN_QOBJECT_THREAD` | posts calls to the event loop of its thread |
| libdes (`common/snmplib/*.c`) | none | key schedule, DES, triple DES, CBC chainings, `crypt` | used by the SNMP library |
| snmp++ headers (`common/snmplib/snmp_pp/`) | the members of each object | values, identifiers, addresses, collections, variables, requests, targets, the log | `SnmpThread` builds its request from them; most bodies are in a library that is only linked |
| message boxes, background colours (`common/msgcom/`, `common/backcolour/`) | - | - | appearance |

What is hard about it:

* **Concurrency.** `isRun`, the configuration record and `mWriteArray` are
  written and read by the GUI thread and by the worker with no lock (the lock of
  `SerialPort` is not taken by `write(array)`), so a worker's write can fall
  between the check, the send and the clear of `timeoutDone`.
* **Ordering.** A command is only ever *offered* to the timer; a second command
  replaces the first. Whether it reaches the relay depends on `delay()`, and
  `delay()` returns at once whenever `isRun` is false.
* **Start and stop.** `quitThread` may arrive at any position of `run()`,
  `startThread` while the thread is still winding down.
* **Failure.** The port may fail to open, a send may fail, a device may not
  answer; none of this is reported to the worker. A sync of the ini file may
  fail, and the program may end between any two keys of `save()`.
* **Callbacks.** `completeWork` and `cancelWork` of the session emit their signal
  before they clear the current job; the slot may make new requests, and the
  next job may fail inside the same call.
* **Lost, late and repeated answers.** A request is matched by a random id; an
  answer may come after the timeout, twice, or for an id that is drawn again.
* **Cached texts and shared chains.** An object of the SNMP library formats its
  text again only when `m_changed` is set, by each member for itself; a collection
  is a chain of blocks, with the same boundary in three loops.
* **The end.** The window's destructors free the serial port before they wait for
  the worker that uses it.
* **Numbers.** The counters are `uint` and may wrap; work ids wrap at 0x7FFF;
  integers, lengths and parts of object identifiers change size at powers of two.

The hazards are listed line by line in `PROJECT.json`.

## 2. Modules

| Module | Models | Notes |
| --- | --- | --- |
| `CommandSlot` | abstract promise of the port to the caller of `write`: a slot for one frame before a line | the newest frame wins, a frame leaves at most once, nothing is invented; one is lost when a newer one replaces it, when the line refuses it, or when it was put during a send, and in no other way |
| `SerialPort` | `serialport.cpp` | one action per call, and `timeoutDone` cut at the points where the worker can interleave: check, send, clear |
| `SerialLine` | `SerialPort` plus what is on the line (the last frame, the parities of the number of frames and of calls of `write`, so that a wiped frame is no call with an empty one) | `Slot == INSTANCE CommandSlot WITH slot <- IF fresh THEN mWriteArray ELSE NoFrame, sending <- handler = "sent"` |
| `DataPackets` | `datapackets.cpp` and how `openFun`/`closeFun` write the records | counters modulo `UintMax + 1` |
| `PlugThread` | `plugthread.cpp` (extends the two above) | `pc` is the position in `run()`, one action per statement that another thread can observe |
| `PlugTest` | `mainwindow.cpp`, the dialog's calls, the timer and the relay box around them | the composed program: `Init`, `Next`, `Spec`, `FairSpec` and its properties |
| `RequestLedger` | abstract promise of the session to its caller | accepted requests are served in order and each is reported exactly once; a refused one never |
| `Session` | `Session.cpp`, `AbstractJob`, `RequestValuesJob`, `RequestSubValuesJob`, `SetValueJob` and the network | `Ledger == INSTANCE RequestLedger WITH waiting <- m_work_queue, serving <- ...` |
| `ConfigStore` | `configbase.cpp`, `sysconfigfile.cpp` and the file | one action per key of `save()` |
| `Window` | `displaywid.cpp` and the destructors, around `PlugTest` | the refresh cut at each read of a counter; `Init /\ [][Next]_testVars` of `PlugTest` is a property of it |
| `SerialWid` | `serialportwid.cpp`, the dialog and `MainWindow::initSerial`, on top of `SerialLine` | every handler of the dialog |
| `HexText`, `SnmpData` | the conversions of `common.cpp`, the object `QtSnmpData` | operators only |
| `Des` | libdes, on words that are sets of bit positions | with the S-box table of `spr.h` and the key table of `sk.h` |
| `DesStandard` | DES, triple DES and CBC as their standard defines them, by tables of bits | reference only, models no code |
| `Conversions` | the inputs of the conversions, growing element by element, and the reference definitions | one behaviour, one kind of input |
| `Collection` | `collect.h` | the chain is a sequence of blocks |
| `SmiValues` | `integer.h`, `counter.h`, `gauge.h`, `timetick.h`, `ctr64.h`, `oid.h`, `octet.h`, `address.h`, `msec.h` | two objects of a caller, each with the value it stands for |
| `SnmpObjects` | `vb.h`, `GenAddress`, `pdu.h`, `target.h` | two objects of one family, filled in, shown and handed from one to the other |
| `ReadValue` | `SnmpThread::devDataV3` over these objects | one action per early return and per variable of the answer |
| `ComTable` | `comtablewid.cpp` | a row is a sequence of cells |
| `Log` | `log.h`: `DefaultLog`, `LOG_BEGIN`, `LOG`, `LOG_END` | two threads |
| `Client` | `QtSnmpClient.cpp`, `IN_QOBJECT_THREAD`, the constructors and `start` of the jobs | two threads |
| `Library` | the parts from `Conversions` on and `ConfigStore`, of which a behaviour exercises one | interleaving them would only multiply states: they share nothing |
| `MCSerialLine`, `MCSerialWid`, `MCPlugTest`, `MCWindow`, `MCSession`, `MCLibrary`, `MCValues` | - | instances for TLC |
| `SerialPortProofs` | - | theorems about the port, about it with its line, and about the dialog |
| `PlugTestProofs` | - | about the composed program, also with its display and its end |
| `SessionProofs`, `ConfigStoreProofs` | - | about these two |
| `LibraryProofs` | - | about `Log`, `Client` and `SnmpObjects` |
| `ValuesProofs` | - | about `SmiValues`, `ReadValue` |
| `ListProofs` | - | about `Collection` and `ComTable`, with the lemmas on loops |
| `ConversionProofs` | - | about `Conversions`: hex texts, identifiers, integers, packets and chained ciphers |

`PlugTest` composes `SerialPort`, `DataPackets` and `PlugThread` with the window,
the timer and the relay box, and `Window` adds the display and the end of the
program to it. `SerialWid` composes the dialog with the same `SerialPort` under any
thread that writes. `Session` is not composed with it: the program asks
its devices with snmp++ (external) and does not compile the session. `ConfigStore`
meets the rest of the program in one step, `saveCfg` of the start button:
`PlugTest` shows what the worker makes of the record in memory, `ConfigStore` what
becomes of it on disk.

### How state and actions correspond to the code

*SerialPort.* `isOpen`, `mWriteArray`, `mSerialData`, `mSerial` are the fields of
the class. `handler` says where the GUI thread stands: `idle`, inside
`timeoutDone` after `mWriteArray.size()` was seen positive (`checked`), after
`write()` returned (`sent`), or inside `loopTest` (`loop`). `Write(f)` is the
assignment `mWriteArray = array`; it has no guard because it takes no lock and
may be called by the worker at any of these points. `TickSend`, `TickSendFails`
and `TickSendEmpty` are the three results of `QSerialPort::write`: positive, -1
(also "not zero", so the buffer is cleared just the same) and 0. `fresh` is a
history variable: the frame in the buffer was never on the line.

*PlugThread.* `run()` is cut at every read or write of shared state: `While`,
`ForSkip`/`ForOpen` (the read of `rtuCmdEn[k]`), `Issue` (the rtu command),
`Sleep`/`DelayDone` (the read of `isRun` in `delay`), `ScanSkip`/`ScanTrial` (the
read of `snmpEn[i]` and the head of `openFun`/`closeFun`), `TryAgain`/`TryEnd`
(one attempt), `Check` (line 141), `FinalClose`. `op` tells the open from the
close phase, which are the same code otherwise. `plug`, the position of each plug,
belongs to the relay box and changes only when a command is on the line.

*PlugTest.* `Start(ui)` is the whole handler of the start button: the input
check, `saveCfg` (the shared record takes the widgets' contents), `startThread`
(a no-op unless `isRun` is false and the thread has returned) and the disabling
of the two boxes. `Reachable` says what the widgets may hold while those boxes
are disabled: the channel check boxes and the commands of the other channels
stay editable. `Over` is the end button. GUI handlers need `handler = "idle"`:
the GUI thread runs one handler at a time.

*Session.* The names are those of the class. `handler` says where the session's
own code stands: `idle` in the event loop, `start` before `startNextWork`,
`completing` and `cancelling` after `completeWork` or `cancelWork` emitted its
signal and before it clears the job. `Request` may happen in the event loop and,
as a slot of the client, at the latter two. `Send` is the sending of a job with
its three outcomes: the datagram leaves and the timer runs; the socket fails and
`cancelWork` reports the job; or `m_request_id` is not free and nothing is done,
a branch the code asserts it never takes and `HandlerInv` shows unreachable. An answer to a
datagram is one of `AnswerIgnored` (another id), `AnswerCompletes`,
`AnswerContinues` (the next row of a subtree), `AnswerError` (the datagram is
written again) and `AnswerOdd` (no usable variable). `wire` holds the ids an
agent may still answer, `report` is a history of the signals.

*Window.* `gui` says where the GUI thread stands in `timeoutDone` of the display:
at a `row`, or reading its `cells`. `ReadCell` reads `all` and then `ok` into `list`;
`SetRow` reads `err` and sets the row. While `gui` is not `free` no other handler
runs, but the worker does. `life` follows the end: `CloseWindow` (the central
widget goes), `PortFreed` (the dialog and its `SerialPort`), `ThreadWaits`
(`~PlugThread`: `isRun = false`, `wait()`), `ProgramEnds`. A call of the freed port
is undefined: it does what it did, or `WriteCrashes`.

*SerialWid.* `stateLab`, `workBtn`, `comBox`, `comOn` are what the dialog shows,
`label` what the main window says. `PickPort`/`ChangePort` are `serialPortChanged`,
cut between its close and its open; `ButtonOpens` and `ButtonCloses` are
`openSerialSlot`; a success ends `exec()`, and `initSerial` runs.

*The objects of the SNMP library.* A value is a sequence (a number; high and low
part; identifiers; bytes; family and bytes of an address), `meant` the value the
calls so far stand for, `changed` is `m_changed` or `addr_changed`, `text` the cached
text. Each member is an operator of its own; a step is a call of one of them.

*ReadValue.* The locals of `devDataV3` are the record `reader`; `sockets` counts
`socket_startup` against `socket_cleanup`. `GetAnswers` gives any variables.

*Client.* `called` and `applied` are the histories of the setters called and
carried out, `posted` the event queue of the client's thread.

*ConfigStore.* `Place(key)` is the order of the calls in `save()`. `WriteParam` is
the call for the key at `cursor`: `QSettings` gets the value and is synced.
`settings` is what `QSettings` holds, `file` what is on disk; a sync makes them
equal or, when it fails, leaves the file alone. `End` is the end of the program at
any moment; `Launch` reads every key with its default. Each entry carries the
number of the save that wrote it, as a history.

### Abstractions

* A byte array is a frame of a finite set; received data is the set of frames it
  answers. `cm_StringToHex` is abstracted to whether a text gives any byte
  (`HasBytes`).
* Time: `delay(n)` is one sleep. With `Timely = FALSE` a sleep ends at any
  moment; with `Timely = TRUE` it lasts until a complete `timeoutDone` has run,
  as a sleep of a second next to a timer of 100 ms does. Liveness and the
  sampling property use the second, all other safety the first.
* `saveCfg` is one step. The worker reads one field per step and the runs let
  the configuration change at each of them, so a field-wise save would only add
  mixtures of two configurations to the set the runs range over.
* A failed `inputCheck` opens a message box and changes nothing, so it is a guard.
* In `PlugThread`, `SnmpThread::devDataV3` gives any of `Values`, 0 for every
  failure; `ReadValue` shows what those values come from. `getValue` gives what
  `mValues` happened to hold; no code assigns it.
* `snmp.get` in `ReadValue` fails or gives any variables, up to `MaxVbs` of them. A
  text in an answer is a number or not; `toUInt` gives 0 for the latter.
* `Session` runs on one thread, as its timer and its socket demand. `onReadyRead`
  serves one datagram per step. A request id is any of a set, so it may repeat;
  the code draws it at random below 0x8000. Slots that open an event loop of their
  own and datagrams with a malformed header (assertions in the code) are left
  out.
* A sync replaces the file or fails (`QSettings` writes ini files through a
  temporary file and renames it). `MaxSaves` bounds the saves of a behaviour.
  Missing keys, words where a number belongs and negative numbers are among the
  file contents.
* `Radix` stands for 2^32 in the values of the SNMP library, with two or more
  values. What is not in the repository (`parse_address`, `get_printable` of most
  classes, copies of addresses, requests and targets) is
  taken as: any outcome; the text of the present value; all members.
* A word of DES is the set of its bits that are one, so shifts and exclusive ors
  are operations on sets of numbers below 32.
* The setters that `IN_QOBJECT_THREAD` posts are kept in the order of posting, as
  the event queue of one thread does.
* In `HexText` a character is the value of the hex digit it is, a blank, or
  neither; in `SnmpData` an object identifier is its numbers after ".1.3".
  Integers lie within the 32 bits of TLC; counters are byte arrays.
* The assignment of a `QByteArray` is atomic. In the code it is a data race;
  the torn outcomes of a race on the array's pointer are not modelled.

## 3. Runs

| Run | Question | Instance | Result |
| --- | --- | --- | --- |
| `serial_port` | is a frame sent at most once, does it leave the buffer while the port stays open, is it wiped in the named ways only, does the port with its line implement `CommandSlot`, and do dialog and label agree with the port? | 2 ports, 2 frames and the loop pattern, every handler of the dialog, a thread that writes at any time | holds |
| `free_run` | safety of the composed program under every user operation at every moment | 2 channels, 1 outlet, 2 attempts, counters of one bit, sends may fail, sleeps of any length | holds |
| `cycle_run` | are samples taken with the commanded plug, does Stop end `run()`, is every enabled channel tested? | as above, sleeps span a tick, the port is left alone | holds |
| `overwrite` | is a frame that `write` accepted written? | as `cycle_run` | violated |
| `over_lost` | does the end button end the test? | as `cycle_run` | violated |
| `close_blind` | is a counted close success a withdrawn plug? | as `cycle_run`, `mValues` zero | violated |
| `loop_test` | does a successful loop test mean the pattern was sent? | the same port under any caller, without the dialog | violated |
| `window` | does a row of the table stay within the trials that can pass while it is read, does the table show the final counts, does closing the window end the program, and is all of it a behaviour of `PlugTest`? | 1 channel, 1 outlet, 1 attempt, counters of two bits, the window closed at any moment | holds |
| `session` | is every accepted request reported once and in order, is an answer awaited exactly for a current job, and is every request reported in the end? | queue of 2, 4 work ids, 2 request ids, subtrees of one row, every kind of answer | holds |
| `session_resend` | is a request that got an error answer waited for again? | as `session`, without odd answers | violated |
| `library` | do the parts beside the worker what their callers rely on, each for itself? | see below; every part with its own small instance | holds |
| `counter64` | is the high part of a `Counter64` 0 after it was assigned a number? | `SmiValues` alone, halves of one bit | violated |

The invariants of `library`, by part. It stops wherever an input or a bound is used up
(`CHECK_DEADLOCK FALSE`):

| Property | Says |
| --- | --- |
| `HexReadsPairs` | a well-formed text is read as the bytes its digits spell, and a byte array survives its text |
| `OidRoundTrip`, `NumbersRoundTrip`, `ContentRoundTrip`, `IntegersReadAsBer` | whole packets, identifiers, numbers and contents of any length come out of `parseData` and of a stream as they went in; the bytes of an integer have, in BER, the value that was meant |
| `DesIsStandard`, `ChainingRoundTrip` | the unrolled code with its merged tables computes DES, triple DES, CBC and `crypt` as the standard defines them; a message of any length comes back |
| `CollectionIsList` | a chain of blocks is the list of what was put into it |
| `ValuesAreCurrent`, `OidsAreOrdered` | an object stands for what its calls said, its text for its value; comparing identifiers is a total order, a prefix comes first |
| `ObjectsSound` | no variable has a value beside an exception; an address or target that says it is valid has an address behind its pointer; no value inside of an object keeps the text of another one |
| `ReadTellsTruth` | a reading that is not 0 is what the device said of the identifier that was asked for |
| `TableFits` | no cell is missing, and the table shows what was asked for |
| `LogEntriesWhole` | an entry of the log is what one thread wrote, whatever the filters are set to meanwhile |
| `CallsCarriedOut` | each setter is carried out once and in its caller's order |
| `StoreTypeOK`, `RestartKeepsItem`, `NoEnableAheadOfCommands` | wherever the program ends and whichever sync fails, the record is one to run with, a restart loads the record that was in memory, and no channel is enabled ahead of its commands |

*Bounds.* Two channels show everything that depends on "this channel" against
"another one" (the break at line 141, the order of close commands); one outlet
suffices for the counters because no step touches two records; two attempts give
a first failure, a last failure and a success; one-bit counters wrap within two
trials. The configurations enumerated include disabled channels, no outlet at
all and a channel whose close command gives no byte.

A queue of two shows an order, a request that is refused and one that waits
behind a job that fails; four work ids wrap; two request ids show an answer that
matches and one that does not, and an id drawn again while its first answer is
still under way. One channel, one outlet and one attempt suffice for `window`: torn reads and
destructors concern one record and one thread, and `free_run` has the rest; counters
of two bits tell a trial too many from one too few.

In `library`, `Radix` is 2, so every arithmetic carry and wrap happens; blocks have two
cells and up to five elements, so the chain has three blocks; identifiers have up to
three numbers and one of them begins another; an answer has up to two variables;
`LogSize` 1 and `MaxItems` 2 give an entry whose last item does not fit, `MaxLogged` 2
an entry after another; `MaxCalls` 3 setters give two of one thread around one of the
other, `MaxWorks` 2 jobs one that waits; `MaxSets` 3 calls give an object that is set,
handed on and changed; `MaxSaves` 3 an old, a half-written and a new entry for each key
of 2 channels and an outlet, from a missing and from an edited file. The inputs of the conversions lie on both sides of every power of two at which
a format changes its size, and of zero. `Nesting` is 5, the levels of a request.

### What the violated runs show

* **`overwrite`** The close commands of `init()` and of the end of `run()` are
  written back to back: `delay(3)` does nothing while `isRun` is false. Only the
  last of them is still in `mWriteArray` when the timer fires, so the other
  plugs stay as they were. `write(array)` reports the accepted size.
* **`over_lost`** `run()` sets `isRun = true` after `init()`. A press of the end
  button during `init()` (two seconds at least) is undone; the window shows a
  stopped test while it runs on.
* **`close_blind`** `closeFun` compares `mValues` with 0, a field that is never
  assigned because `makeRequestSlot` is a stub. With a zero there, every close
  phase succeeds, also with the plug still inserted.
* **`loop_test`** `loopTest` waits on the thread of the timer that would send
  its pattern. The pattern leaves after the test returned; the test succeeds
  exactly when older received data was waiting.
* **`session_resend`** An error answer stops the timer and resets `m_request_id`
  before `writeDatagram(m_last_request_datagram)` sends the old datagram, with its
  old id, once more. No answer matches any more and no timeout comes: the job
  stays current and the queue behind it never moves. `EveryRequestReported` is
  therefore stated for behaviours in which no such answer (nor one without a
  usable variable, which ends the wait in the same way) abandons a job.

* **`counter64`** `operator = (pp_uint64)` keeps the upper half of the number as the high
  part; its comment (`ctr64.h:240`) has the high part cleared. The models take the code:
  in `ValuesAreCurrent` a `Counter64` stands for the whole number it was given.

### What the passing runs leave open

Some limits of the code are visible in the statements of properties that hold:

* `RestartKeepsItem` excepts a delay of 0, which the spin box allows and a restart
  turns into 10.
* `NoEnableAheadOfCommands` speaks of channels only. The enable flag of an outlet is
  written before its oid, so a crash between the two can pair a new flag with an
  old oid.
* `HexReadsPairs` asks for well-formed texts: the test of `cm_StringToHex` for 16
  never holds, so a character that is no digit contributes -1 instead of an end.
* `IntegersReadAsBer` stops at 32767: from 0x8000 on the bytes the session sends
  are a negative number to another implementation. Request ids stay below. It speaks of
  the value only: 0..255 go out in four bytes with leading zeros, where X.690 (8.3.2)
  asks for the shortest form.
* `NumbersRoundTrip` asks for integers that are not negative: the shorter negative
  ones of an agent are filled with zeros and come out positive. `toVariant` gives a
  gauge or counter of 2^31 and above as a negative int.
* `DialogShowsPort` excepts the port that `initCfg` opens: until its first button is
  used the dialog shows "----" for it, with a button that offers to open it and
  closes it.
* `CloseEnds` excepts a window that is closed during `init()`: `run()` then sets
  `isRun` again after the destructor cleared it, as in `over_lost`, and `wait()` goes
  on for as long as the test does. It counts a crash in the freed port as an end.
* `CallsCarriedOut` speaks of the setters. A request from another thread is not
  carried out at all: `addWork` is no slot and cannot be posted (`RequestElsewhere`).
* `ReadTellsTruth` says nothing of a 0: a failure and a load of zero look the same
  to the worker.
* `GenAddress::clear`, documented as "Reset the object" (`address.h:1124`), clears the
  address inside and leaves the `valid_flag` of its own: a cleared address still gives a
  type, and a target that is made of it says that it is valid (`target.h:113-121`).
  `ObjectsSound` therefore promises an address behind the pointer, and not a valid one.
* The guards of `SnmpCollection::set_element` and of both `get_element` (`collect.h:232`,
  `251`, `269`) ask for `p > count` and let `p = count` pass, one behind the last element:
  a cell that was never set, or of a block that is not there. `Collection` calls them for
  positions in use, as the loops of the class do.
* `WaitsForCurrent` excepts answers with the id -1: `m_request_id` is -1 when nothing is
  awaited, and `Session.cpp:329` compares the two. The session draws no such id, so only
  an agent that invents one could send it; the ids in `wire` are those that were sent.
* `DesIsStandard` says of the keys in the table of weak ones that they undo each other,
  except for 1F..1F and E0..E0, which `set_key.c:111` and `112` list as weak and which
  are none (the weak keys are 1F1F1F1F0E0E0E0E and E0E0E0E0F1F1F1F1, which it lacks).
* `ReadTellsTruth` is about the value. The early returns of `devDataV3`
  (`snmpthread.cpp:189-191`, `200-203`) close the socket and pass by the `delete` of
  `v3_MP`, the dummy that line 153 makes: each of them leaks one, for which `reader`
  has no field.
* An `IP_ADDR_TYPE` that begins with a zero byte loses it when it is written and is
  not valid when it is read again; nothing in the repository sends one.
* `ParseData` names the outcome "never" for a datagram that is shorter than it
  says: the loop of `parseData` takes nothing away and does not end.

### Fairness

`PortFairness` and `Fairness` assume: the operating system schedules the worker
(weak fairness); a handler that has begun runs to its end (weak fairness); the
event loop gets to the timer again and again even when the user never pauses
(strong fairness, since user handlers may disable the timer's step in between:
Qt serves timers between user events). Nothing is assumed of the user, the
device or the success of a send.

`WidSpec` assumes the same of the dialog's handlers and of the timer.
`WindowFairness` is `Fairness` for the program with its display: the second timer is
served again and again like the first, the destructors run on, and the seconds of
`delay()` pass also when no event loop runs.

`SessionFairness` assumes that the session's own code runs on (weak fairness of
the steps inside a call) and that an active timer fires unless it is stopped. No
answer is assumed ever to arrive.

## 4. Proofs

`SerialPortProofs`: `PortTypeOK /\ PendingUnsent` is inductive as it stands;
one step per action. With it, outside the send handler
`mWriteArray # NoFrame => fresh`, so the barred slot is the buffer, and each step
of `LineNext` is a `Put`, a `Deliver`, a `Refuse`, a `Cleared` or a stutter of
`CommandSlot` (`LineImplementsSlot`): only the steps of `timeoutDone` that send and clear
empty the slot. Each handler of the dialog is in turn a step of `LineNext` or a
stutter, because it finds the port in the state its guard promises (`WidStepIsLineStep`);
so the port behind the dialog keeps its types and implements the slot
(`DialogKeepsPort`, `DialogImplementsSlot`). `DialogShowsPort` speaks of the moments
after a handler; `WidInv` adds what holds inside `serialPortChanged`, between its close
and its open, and for the port that `initCfg` opened.

`PlugTestProofs` proves `Spec => []IInv`, where `IInv` is the conjunction of

* `TypeOK`, with the bounds of the loop variables wherever they index an array;
* `PendingUnsent`, carried over because every step of the program is a step of
  `SerialPort` or leaves it alone (`StepIsPortStep`);
* `RunFlagInLoop`;
* `CountersConsistent`, from lemmas on the counter arithmetic modulo the width
  (`IncIsUint`, `BooksBalance`, `RecordSteps`);
* `LateOpenInv`: how many late opens are possible at each position of `run()`.
  `AtMostOneLateOpen` alone is not inductive: it needs that no late open has
  happened when `isRun` is still true and that after one the worker is on the way
  to the check of line 141 or past it;
* `RestInv`: in the final loop and afterwards, an open command can be in the
  buffer only until the close command of the first channel was written; needed
  for `NoOpenPendingAtRest`.

`SamplesCommandedPlug` is proved under `PlainUse`: a sleep spans a timer, sends do not
fail, and the user leaves the dialog alone. Without any one of them it is false, and
the findings show what is lost. `CycleInv` follows a command from the buffer to the
plug: before it is issued the buffer is empty; while the worker waits, the command is
in the buffer, or on the line and obeyed, and the sleep is not over before that
(`CommandOnItsWay`); the worker samples only afterwards. It needs that `init()` ends
with an empty buffer, which its last sleep gives.

It then shows that each step of `WindowNext` is a step of `PlugTest` or a
stutter (`Windows`): the destructors do what the end button and a closed port do, so
the user operations have to include these two (`EndIsUse`). All the theorems about
`PlugTest` then hold of the program with its windows. `RowTallies` is proved
under `Timely`. Its invariant `TallyInv` says, in the middle of a row, how far the
counters that were read and those that are still to be read can be apart, together
with the number of trials that can still be counted before another `timeoutDone`
(`Left`): while the GUI thread is inside `updateData` no timer is served, so a running
test can end one trial at most; after the end button the delays are void and the
worker can run through the rest of its phase and the open phase of the next channel.
That bound is `Surplus`, for any number of channels.

`SessionProofs` proves `SessionSpec => []SessionInv` and that the session implements
`RequestLedger`. `WaitsForCurrent` and `NoWorkWaits` speak of the moments between
two events; `HandlerInv` adds what holds inside the session's own code (before
`startNextWork` there is no job, no awaited id and no timer; after a signal the job
is still current), without which no step could re-establish them. With it every
step is an `Accept`, a `Take`, a `Settle`, a `TakeAndSettle` or a stutter of the
ledger. The number of rows, of ids and the limit of the queue are arbitrary.

`ConfigStoreProofs` proves `StoreSpec => []StoreInv`. `NoEnableAheadOfCommands` is
not inductive: a later sync copies the memory of `QSettings`, of which it says
nothing. `InOrder` is: in the file and in memory, entries get older along the order
of `save()`; the step for the next key keeps it because no two keys share a place
(`PlaceInjective` in the proofs). `MemoryInv` carries `RestartKeepsItem` over failing
syncs, and `OrderInv` says what the keys before the cursor hold inside `save()`.

`LibraryProofs`. `LogInv` says that the thread which holds the lock is the one whose
name the open entry bears and that its items are the first ones that thread wrote, as
many as fit; a thread without the lock cannot reach the entry. `ClientInv` says that
the calls carried out, followed by those posted, are the calls made, in another order
that is each caller's own (`Reorders`). A call of the client's own thread goes between
the two parts; a call of another thread goes to the end. Each call bears its place
among all calls, so that the order is a relation of numbers and needs no recursion.
`ObjectsInv` says of what sets the objects of each family are: variables with an
identifier and a `Good` value, or no value, or an exception (`Vbs`); addresses that hold an
address object when `valid_flag` is set (`GenAddresses`); requests of such variables
(`IsPdu`); targets with such an address, valid only with a type (`IsTarget`). For each
family one lemma shows that such an object is sound (`VbIsSound`, `GenIsSound`, `TargetIsSound`),
some that what its members make is such an object again (`VbChanged`, `GenMade`, `PduChanged`,
`PduVbs`, `TargetMade`), and one that every call of a caller keeps the invariant. What the
values inside do is taken from `ValuesProofs`.

`ValuesProofs`. `ValuesInv` says that both objects are `Good`: labelled as their class,
with a value of the form of that class (`Fits`: one number, two, at most `MaxOid`
identifiers, `ADDRBUF` bytes after a family), standing for what was meant, and with no
text of another value unless `m_changed` is set. There is a lemma for every member of
every class, and one for every step of the caller. `CompareUpTo` (`nCompare`) is related
to the order of the management tree, `Before`, by the least number at which two identifiers
differ, whose existence is the well-foundedness of the naturals: this gives
antisymmetry, transitivity and the prefix rule for identifiers of any length without
an induction over them. `ReadTruth` uses the lemmas on identifiers and addresses:
`ReadInv` says at each position of `devDataV3` which of its locals are set from what,
so that a value other than 0 can only come from a variable whose identifier is the
one that was asked for.

`ListProofs`. The loops of `SnmpCollection` and `ComTableWid` are functions of the
number of their passes. `LoopRuns` says that such a function exists and where its
values are, if each pass leads from the set of one to the set of the next; `Reached`
that what holds of 0 and is kept by each pass holds after all of them, for otherwise
there were a least number after which it does not (`LeastNumber`). Both are about sets,
so that they can be cited, where the induction theorems of the library take an operator.
`IsList` and `Shows` say what a chain and a table hold; the sets of a loop say it of the
first elements or of the rows that are done (`Without`, `Part`, `Cleared`). `Places`
tells a position's block and cell from those of the next and of every later one, for
any size of a block: no two positions share a cell, and a new block begins where a cell
is the first.

`ConversionProofs` proves the invariants of `Conversions` about inputs of any length.

* *Texts.* The loop of `cm_StringToHex` is a function of its passes. `HexIsRead` counts,
  after each pass, the digits seen and the bytes given: two to one, and the byte under
  way is the digit before.
* *Identifiers and integers.* A number is what its bytes of seven bits, or of eight, add
  up to; the lemmas on `PackInt` and on `CompressLeadingZeros` say which of them are there and
  that what is left out in front is zero, for each size that an int can take. `BerValue`
  gives an integer of four bytes the value of its `Stream`, with or without the zeros.
* *Packets.* `parseData` calls itself on the content of each packet and on what follows.
  `Reading[n]` reads data of up to n bytes; a lemma shows that a larger n reads
  the same, so that `ParseData` obeys the equation of the code. On it rests that
  a packet whose children travel does so itself, with anything behind it (`Travels`,
  `Moves`): the request is put together from its leaves, level by level. The lengths of
  one, two and three bytes are told apart by the size of the content.
* *Streams.* `Restored` finds a packet at the front of any stream if it finds its
  children there; levels again.
* *Ciphers.* Each of the parts of DES has another that undoes it, whatever it scrambles with:
  `PermOp` itself on the pair turned round, a rotation the rest of the 32 bits, `Round`
  itself on the pair turned round with the same key. By induction over rows of any
  length: the initial permutation undoes the final one, the rounds with the keys in reverse
  undo the rounds, the three passes of triple DES undo each other in reverse order
  (`Ciphers`). The bytes of a block are those of its words (`StoreIs`, `LoadIs`), so one
  block of the chain is undone if the vector is the same (`BlockUndone`). `ChainUndone`
  follows the two loops: the vectors of decryption are those of encryption after every
  block, and the bytes written are those of the message, then zeros. `PiecesAre` shifts
  the loop by one block for the message in two pieces. Nothing of this depends on what is in
  the tables of `spr.h` and `sk.h`; that they are those of the standard is what
  `DesIsStandard` is for.

`InputsAssumption` bounds the inputs so that a packet is smaller than 2^31 bytes: numbers
that an int holds, identifiers of at most 2^16 numbers, at most 2^10 strings of at most
2^16 bytes. A packet whose length does not fit an int is not one the code can build.
`NestingAssumption` says that packets of the five levels of a request are packets; the
set `Packets` has to have a bound for its functions to be defined on it.

Assumptions: those of the constants (`PortAssumption`, `DataAssumption`,
`ThreadAssumption`, `WindowAssumption`, `DisplayAssumption`, `SessionAssumption`,
`JobAssumption`, `StoreAssumption`, `LogAssumption`, `ClientAssumption`,
`ValuesAssumption`, `ObjectsAssumption`, `ReadAssumption`, `CollectionAssumption`,
`TableAssumption`, `NestingAssumption`, `InputsAssumption`), which TLC evaluates in the runs of their modules. They say that the model values for "none" differ from what they stand in for, that
bounds are natural numbers, and the ranges of the inputs. `Radix` is even and at least
2, `MaxOid` and `ADDRBUF` at least 1. The theorems with an ASSUME of their own name it:
`PlainUse` (as in `cycle_run`), `EndIsUse` and `Timely` (as in `window`).
`ThreadAssumption` requires the commands of different channels and phases to
differ and to differ from the loop pattern, which the properties need in order
to tell commands apart.

Only model-checked:

* The liveness properties (`PendingLeaves`, `StopEnds`, `EveryChannelTested`,
  `EveryRequestReported`, `FinalCountsShown`, `CloseEnds`) need fairness and ENABLED.
* `DesIsStandard` compares the tables of the code, in which substitution and permutation are
  merged, with those of the standard, bit by bit: a computation over 512 entries and not an
  argument. The run makes it for its keys, messages and passwords.

Three things in the models are as they are because of the proofs. The loops of
`Collection`, `ComTable`, `HexText`, `SnmpData` and `Des` are recursive functions and not folds or
RECURSIVE operators, which the provers cannot look into; where a function calls itself
on packets or on data, it is a function of the number of levels or of bytes first. `SnmpObjects` has `++`
for the merging of records, since the provers do not know the `@@` of module TLC. And `Assigned` in `SmiValues` names the classes of each of its cases in full: an
earlier form had two that overlapped, of which TLC took the first, and the lemma about
it could not be proved until the overlap was gone.

## 5. Not modelled

Appearance (message boxes, colours, column widths). `cm_isIPaddress` (a regular
expression; it enters as a condition of the start button). The functions of snmp++
whose bodies are in the library that is only linked: sessions, the encoding of
messages, USM with its authentication and privacy, and the message processing of SNMPv3
(`mp_v3.h` has its accessors, to tables whose bodies are not there); `uxsnmp.h`, `usm_v3.h`, `auth_priv.h`, `snmpmsg.h` and their like are
declarations of them. The branch of `devDataV3` for SNMPv3, which `readVersion = 1`
makes unreachable. The addresses `_MAC_ADDRESS` and `_IPX_ADDRESS`, which are not
compiled. The conversions of `QtSnmpData` to texts.

Smaller details that are left out where they stand: the receiving half of `timeoutDone` is
one step (`TickRecv`), since its readers run on the same thread; `ReadPackets` takes no
negative length and `GetOid` does not tell ".1.3" from the empty text; a request from
another thread (`RequestElsewhere`) shows neither the counter of ids that it advances nor
the assertion of a debug build; how many bytes a loop test received is not counted, so a
test that received any may count as failed, as one with more than `SERIAL_LEN` does.

## 6. Plan

1. (done) `SerialPort`, `CommandSlot`, `SerialLine`; `DataPackets`; `PlugThread`;
   `PlugTest`; their runs; type correctness, the safety invariants and the
   refinement proved.
2. (done) Configuration store: the file written key by key, an end of the program
   between two keys, failing syncs, the reload with its defaults; proved.
3. (done) Session: queue, request ids, timeouts, lost, late and repeated answers;
   abstract specification `RequestLedger`; refinement proved.
4. (done) Conversions: hex texts and SNMP messages against reference definitions.
5. (done) Display and end of the program: torn reads, the order of the destructors
   against the running worker.
6. (done) The serial dialog and the label against the port.
7. (done) The parts of `library`.
8. (done) Proofs: `SamplesCommandedPlug`, `WindowIsTest`, `RowTallies`,
   `DialogShowsPort`, `LogEntriesWhole`, `CallsCarriedOut`, `ValuesAreCurrent`,
   `OidsAreOrdered`, `ReadTellsTruth`, `ObjectsSound`, `CollectionIsList`, `TableFits`,
   `HexReadsPairs`, `OidRoundTrip`, `NumbersRoundTrip`, `IntegersReadAsBer`,
   `ContentRoundTrip`, `ChainingRoundTrip`.
9. Open: a proof that the merged tables of libdes are those of the standard
   (`DesIsStandard`), table by table; the requests that the session cannot be sent from
   another thread, and the parser loop on a short datagram, which are hazards without a
   property.
