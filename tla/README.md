# HeatWhisper in TLA+

HeatWhisper is an ESPHome component for an ESP32 that sits on the RS-485 bus of
a heat pump. On a NIBE pump it plays a MODBUS40 accessory: the pump polls it and
it may answer. On other pumps it is itself a Modbus-RTU master. Either way it
reads registers, publishes them as Home Assistant entities, and carries the
users' writes to the pump. Which of the two it is depends on the YAML, on what
was saved in flash from the picker page, and on what the pump announces.

This directory holds TLA+ modules of its core, TLC configurations that check
them on small instances, and TLAPS proofs. The code is in
`src/components/heatwhisper/heatwhisper.{h,cpp}`, the frame constants in
`nibe.h`, the catalog structures in `catalog.h`, and the code generator in
`__init__.py`. `PROJECT.json` maps each definition to the lines it models.

Contents: 1 inventory, 2 modules, 3 runs and bounds, 4 fairness, 5 proofs,
6 where code and documents disagree, 7 what is not modelled, 8 plan.

## 1. Inventory

### Modbus-RTU master (`loop`, `poll_one_`, `on_modbus_frame_`, `tx_`)

*State*: `writes_` (at most 4 waiting requests), the pending request
(`pending_*`), `retry_`, the cursor `poll_idx_` over `polled_`, the receive
buffer `mrx_` (256 bytes).
*Operations*: each `loop()` drains the UART, cuts and handles at most one
frame, and every 5 s runs `poll_one_()`, which judges the pending request as
timed out, gives up at the third failure, and sends the oldest write or else the
next read.
*Hard*: a request is known only by what is pending when its answer comes.
Replies carry no register number. `retry_` is shared by reads and writes, and
the queue may change between a request and its outcome. Bytes of a damaged reply
stay in `mrx_`.
*Correct when*: a write goes out at most three times, is reported done only if
the pump carried it out, and is never followed by an older one; a value reaches
the register it was read from; no register starves; no write stays for ever.

### NIBE slave (`on_frame_`, `ensure_polled`, `setup`)

*State*: `reads_`, a ring of encoded read requests; `writes_`; `polled_`;
`model_`.
*Operations*: one answer for each frame addressed to 0x20: a read poll sends the
front of `reads_` and moves it to the back, a write poll sends and drops the
front of `writes_`, values are decoded and published, an announcement is saved.
*Hard*: `ensure_polled()` searches the ring by popping and pushing; registers
come in from generated code before the protocol is known; the pump's slot is
short and `loop()` may be late, so that an answer meets a pump that has gone on.
*Correct when*: the ring holds every polled register exactly once and serves them
fairly, and every write goes out in its turn, also when answers come late.

### NIBE framing (the NIBE half of `loop`)

*State*: `rx_`. *Operations*: drop what comes before a 5C, check the header,
wait for the frame, check the sum, squeeze doubled 5C, hand the frame over; on
an error drop one byte and look again.
*Hard*: a 5C may be data, a damaged length may cover several frames.
*Correct when*: each undamaged message arrives once, in order, with its data;
damage is overcome; the buffer stays small.

### Runtime mode (`load_mode`, `save_mode`, `apply_runtime_mode_`, `handle_mode_save_`)

*State*: the record {mode, model} in flash, `modbus_`, `model_`, `modbus_addr_`.
*Hard*: three writers (YAML, user, pump), reboots, updates that change the
catalog under a saved record.
*Correct when*: only users switch the protocol, their choice is honoured, and
there is never a master without a transport.

### Values (`decode_modbus_`, the value branch of `on_frame_`, `control`, `encode_write`)

No state: sizes S8 to U32, factors, word order, ranges, rounding, clamping, on
two paths for each direction.
*Hard*: signs at three widths; a two-word register takes six bytes of one kind of
message and eight of another, and the walk through a message goes wrong from
there on if it takes the wrong step; halves and negative values in rounding.
*Correct when*: what is read is what the pump holds, and what is written is the
nearest number the register allows, over either bus.

### Shared write queue (`queue_write` and every use of `writes_`)

*State*: a `std::queue` without a lock. *Operations*: the loop task pushes (Home
Assistant), looks, copies the front and pops; the web server's task pushes (the
page's alarm reset) and, when the queue is full, pops.
*Hard*: either task may stand between two machine words of the other's call.
*Correct when*: the size never wraps round, and no request leaves that nobody
made.

### Entities (`control`, `write_state`, `on_value`, `publish_raw`)

*State*: what each entity shows, `writes_`, the pump's registers.
*Hard*: the state is published before the pump knows of it; writes get lost or
pushed out; answers may be older than a write; other users of the pump.
*Correct when*: the last setting of each register wins, and every entity ends up
showing what the pump holds.

### Register picker and entity factory (`handle_save_`, `load_selection`, `create_entities`, `list_json_`)

*State*: the selection in flash (up to 50 registers), entity slots reserved at
build time. *Operations*: a request is read number by number and saved whole or
refused; a boot makes entities one by one of what is in flash or of the defaults;
the page asks what could be selected, as what kind, and what is.
*Hard*: the selection outlives the catalog it was made for; titles of a catalog
may collide; the page works everything out again at another time.
*Correct when*: a register has one entity, no two share an object id, each has a
slot, flash never holds half a request, and the page agrees with the entities.

### Build-time parts

The catalog generator (`__init__.py`), the generated `catalog.h` and the register
maps in `models/`, the YAML packages, and the release scripts with their
workflow.

### How they interact

`loop()` runs one of the two drivers; which of them depends on `modbus_`. The web
handlers of the picker run on the web server's task: they call `queue_write()`
and `save_mode()` while `loop()` is anywhere. `setup()` applies the saved mode,
then makes the entities, each of which calls `ensure_polled()`. Both drivers call
`on_value()`; both take writes from the same `writes_`.

## 2. Modules

| module | models or proves | notes |
|---|---|---|
| `WriteService` | the promise about writes | abstract: requests, their fates, how often each was sent |
| `ModbusMaster` | Modbus-RTU master, the line and the pump | bytes are bytes; the checksum is a parameter |
| `Crc16`, `Bytes` | `crc16_modbus()`, exclusive or | the definition and a table form for TLC; `Bytes` does without bit operators, so that what uses it can be proved about |
| `Values` | decoding and encoding, both buses | operators; 16-bit words, rationals for floats |
| `NibeSlave` | `on_frame_()`, the read ring, the boot | frames are records |
| `NibeFraming` | the scan of `rx_` | bytes are bytes |
| `RuntimeMode` | flash record of the mode, boots, updates | names are model values |
| `Device` | `RuntimeMode` with the selection, the entities and the page | extends `RuntimeMode` |
| `Entities` | entities, the queue and the pump's registers | uses `Values`; the drivers as what `WriteService` promises |
| `SharedQueue` | `writes_` under two tasks | loads and stores |
| `ModelNames` | `nibe::parse_model()` | operators; a text is words and marks |
| `Codec` | what passes over the buses: messages byte by byte, registers of a pump, announcements | any inputs, one item longer at each step; the reference definitions for `Crc16`, `Values` and `ModelNames` |
| `WriteService_proof` | proofs about the promise itself | |
| `Lemmas_proof` | induction and recursion over numbers; lemmas about a queue of requests | used by the proofs of both drivers, of the framing and of `Codec` |
| `ModbusMaster_proof` | proofs about the master | four parts, see section 5 |
| `NibeSlave_proof`, `NibeFraming_proof`, `SharedQueue_proof` | proofs about the module each is named for | |
| `Entities_proof` | proofs about `Entities` and `Codec`, with the operators of `Values`, `Crc16` and `ModelNames` | seven parts, see section 5 |
| `Device_proof` | proofs about `RuntimeMode` and `Device` | two parts |
| `MC*` | instances for TLC | |

**ModbusMaster.** `loop()` has two halves, and a web handler may come between
them: `LoopReceive(k)` reads `k` bytes, skips to the slave's address, cuts one
frame and handles it; `LoopPollDue` and `LoopPollNotDue` are the rest. `Cut` is
the length rule (exception, reply, echo), `OnModbusFrame` the branches of
`on_modbus_frame_()` with `Fail` for its `fail_` lambda, `PollOne` is
`poll_one_()` with `TimeOut` for the part before it chooses what to send.
`pollIdx` is kept modulo the length of `polled_`: the code counts on and takes
the remainder at each use, and a counter of 32 bits does not come round in
the life of a device at one step per 5 s. `QueueWrite` is one step. The pump
(`Answer`, `Garble`, `Decline`, `LoseRequest`, `LoseAnswer`) is external. The
raw value of a write is its number, so the history variables `fate`, `sends`,
`applied`, `latest` can tell requests apart. `Noise` is what damage adds to a byte:
128 turns the function code of a reply into that of an exception, which is cut after
five bytes. Values are reduced to unsigned
16- and 32-bit registers; the range check stays. `QueueCap` is 4 in the code.

**NibeSlave.** The boot is explicit (`SetPollRegisters`, `SetProtocol`,
`ApplyRuntimeMode`, `CreateEntity`, `FinishSetup`) because the ring depends on its
order. `OnFrame` takes one received frame and has one disjunct for each branch
of `on_frame_()`. The pump opens a slot with a frame and closes it when it hears an
answer of the kind it waits for (`Heeded`), or at any time for want of one:
`loop()` may come to a frame when the pump has long gone on, and answers it all the
same, as the code does. `age` counts the read polls since a register was last asked
for. What is in a value frame is `Codec`'s and `Entities`' matter.

**NibeFraming.** `Drain(k)` is the reading of the UART, `Scan` one turn of the
`for(;;)`: `Await`, `Reject` or `HandOver`. `Squeezed` is the code's squeeze,
with its behaviour on runs of 5C. `OnWire` is how the pump encodes, after the
protocol description in `src/docs/nibe-specs`.

**RuntimeMode.** `Effective(b, r)` is what a boot of firmware `b` makes of
record `r`. `SaveNibe`, `SaveModbus`, `Announce` write the record; `Record` cuts
names as the 24-byte field does.

**Device.** `SwitchOn` is `RuntimeMode`'s boot with `load_selection()`; each
`CreateEntity` is one round of the loop in `create_entities()`, so that power may
go between two; `SetupDone` opens the web handlers (the picker sets up after the
component). A request is read by `OpenForm`, one `ReadNumber` for each number,
`CloseForm`; what makes the code answer 400 drops the request. `posted` is a history
variable, the numbers of the request so far. `Offered`, `OfferedKind` and `Ticked` are
the three decisions `list_json_()` takes for each register; `OfferedKind` and `KindOf`
are two operators because the code has the rule twice. A firmware is a record with its catalog, so that `Replace` may bring
another one under a saved selection. The object id of a title is a value: which
titles collide is part of the catalog.

**Entities.** `NumberControl`, `SwitchWriteState` and `SelectControl` are the
three ways of setting something, `ResetAlarm` the page's button, which has no
entity; `Receive` is `on_value()` for a value that a driver has accepted. The
drivers are there as what they promise: `WriteDone`, `WriteLost`,
`WriteUnconfirmed` (carried out, the echo lost, so it will be sent again). `wish`
is a history variable: what a register should come to hold as far as anyone can
know.

**SharedQueue.** `std::deque` keeps a cursor at each end; a pop moves the first, a
push writes the element behind the second and moves that one. Each load and each
store is a step of its task, and the other may do anything in between. A call
takes microseconds and calls come milliseconds apart, so that during a call of
one task the other begins one more at most (`MayBegin`). `size()` and `empty()`
are one step. Reordering of stores by the second core and the boundaries between
the deque's nodes are left out.

**Values** has one operator for each piece of arithmetic. `Heard` is the walk
through a value message as a recursive function over its words; `RawModbus` and
`RawNibe` are the two decoders, `RawToWrite` is `control()`, `NibeWrite` and
`ModbusWrite` the two encoders. Values are multiples of 1/`Unit`, where all
factors divide `Unit`: what a 32-bit float does to a large number is not seen.

**Crc16** has `crc16_modbus()` with its shifts to the right, `Sealed`, the end of
`poll_one_()`, and `CrcHolds`, the comparison in `on_modbus_frame_()`. The reference
for them is in `Codec` and takes nothing from the code: `Remainder` divides the bits
of a frame, in the order they are sent, by the polynomial of the Modbus standard,
with sixteen places that are held the other way round (`TakeIn`).

**WriteService** is what the two drivers have in common. `ModbusMaster` implements
it with three attempts, `NibeSlave` with one; in both the refinement maps `fate`
and `sends` to themselves. `ImplementsWriteService` says so; TLC checks it on
small instances and TLAPS proves it for all.

## 3. Runs and bounds

| run | instance | shows |
|---|---|---|
| `MCCodec` | all messages of up to 3 of 5 bytes; pump messages of up to 2 registers out of 12, of every size, at the edges of their sizes and ranges; announcements of 6 models with up to 3 words or marks after the name | `FastCrcIsCrc`, `FramesDivide`, `DamageIsNoticed`; `ReadsTrue`; `WritesNearest`; `NamesRecognised` |
| `MCModbusWrites` | 1 register, 3 writes on a queue of 2, 1 damaged reply, true CRC, replies lost, refused or late by less than a poll | `RequestHasTarget`, `AckedWasApplied`, `BoundedRetransmission`, `NeverBackwards`, `ImplementsWriteService` |
| `MCModbusLive` | 2 registers (FC 3, and FC 4 with a range it now and then exceeds), 1 write, also to a register that cannot be written, 1 damaged reply, a pump that may fall silent | `Attribution`, `WritesResolve`, `ReadsGoOn`, `RepliesGetThrough` |
| `MCNibeSlave` | 3 registers of the YAML, 2 of entities, one in both; 3 writes on a queue of 2, the startup reset among them; 2 frames may wait while the pump goes on | `ReadsCoverPolled`, `RotationFair`, `ImplementsWriteService`, `ReadsGoOn`, `WritesResolve` |
| `MCNibeFraming` | a poll, and a value with 5C before 00 whose sum is 5C; any cut; one byte of one frame changed or lost | `CleanDelivery`, `BufferBounded`, `Recovers` |
| `MCDevice` | 3 firmwares with 2 catalogs, 3 names, one too long; a limit of 2 registers, requests of any length over 5 numbers, one of them refused; 2 registers titled alike, a select without options, 3 defaults | `OnlyUsersSwitch`, `MastersHaveTransport`, `NibeChoiceHonoured`, `MasterKeepsFc`, `OneEntityEach`, `SlotsSuffice`, `SelectionSound`, `SavedWhole`, `PageShowsEntities` |
| `MCEntities` | a number, a select and a switch; 3 settings on a queue of 2; the pump changes once by itself | `WishGranted`, `SettlesOnPump` |
| `MCSharedQueue` | a queue of 3, 5 pushes, one of them of a register that is refused | `NeverUnderflows`, `TakenWasQueued` |

`TypeOK` is checked once for each module that has one. The other four runs each end in a
counterexample and are the subject of section 6.

Bounds and why they are enough:

* `MaxWrites` bounds the requests ever issued: 2 make every order of an old and
  a new write, 3 are one more than a queue of 2 holds. The code's queue holds 4;
  what depends on the capacity is proved for any (section 5).
* `MaxGarbled`, `MaxDamaged` bound damage on the line: the interesting state is
  what damage leaves behind in the buffer, and one is enough to leave it. `Noise`
  is 128 in `MCModbusWrites` and 128 or 255 in `MCModbusLive`: the first makes
  exceptions of replies, the second (one less, modulo 256) false lengths and data;
  any byte may be hit. `NoDamagePasses` is about every value.
* `InboxCap` is 1: an answer comes before the next poll or not at all. That
  answers which come later do no harm is proved (`Retransmission`, `Forwards`,
  `Implementation`), not model-checked.
* `RxCap` is 2 in `MCNibeSlave`: a poll that waits while the pump has gone on, and the
  next one behind it. A third would only be answered later still.
* `MrxCap` is the code's 256.
* `LineCap` and `RxCap` of `NibeFraming` bound what is on its way: 16 bytes hold a frame of the
  longer kind and the start of the next; in `MCNibeFraming`, with `Prompt = FALSE`,
  the pump does not wait for the scan.
* `PolyCrc` stands for the checksum where the line is undamaged or detection is
  not in question; the safety run with a damaged reply uses the true one.
* A reply is put on the line only when the line is free: `loop()` runs every few
  milliseconds, a reply takes longer than that. Under `Prompt`, as in all runs of `ModbusMaster`, an
  answer comes within the 5 s or never; the theorems do without it except `Acknowledged` and `Attributed`.
* The two lists of `MCNibeSlave` overlap in a register that is second in the ring,
  so that the search in `ensure_polled()` stops in the middle.
* `MaxSelection` is 50 in the code and 2 in `MCDevice`, where a list of defaults
  that exceeds it and a request that does are the same few states; the theorems
  hold for any limit. The code's 12 defaults do not exceed it today.
* `MaxSets` is one more than the queue of `MCEntities` holds; `MaxChanges` lets
  the pump change after, before and between the writes. After them the system
  runs on for ever, which is what `SettlesOnPump` needs.
* `Slots` bounds the pushes of `MCSharedQueue`: 5 fill a queue of 3 twice over
  the limit. `QueueCap >= 3` is an assumption: with 2, or if a task could begin
  two calls during one of the other, the size does wrap round.
* `MaxTail` of `MCCodec` is 3: a mark, a word and another mark or word, so that every
  cut of `parse_model()` has something to leave out.
* `MaxItems` of `MCCodec` is 2, so that what follows a register is read from where
  it should; each prefix of each message is read as well. 32-bit numbers beyond
  7 million are not enumerated, as TLC's integers end at 2^31. Neither bound limits the
  theorems: they hold for messages of every length and for every number of each size.

## 4. Fairness

Safety needs none. The liveness properties assume:

* weak fairness of the halves of `loop()`, of the scan and of the boot: ESPHome
  calls `setup()` once and `loop()` for ever;
* strong fairness of the poll that is due (the 5 s pass again and again) and of
  reading all bytes that are there (the drain loop reads until the UART is
  empty, so reading a part only happens when bytes are still coming);
* on the Modbus bus, that a request is answered, declined or lost: never that it
  is answered. `RepliesGetThrough` has the pump's answers as its own hypothesis
  (`[]<>Answered(i)`);
* on the NIBE bus, that the pump polls for reads and for writes again and again
  and that, of infinitely many polls, infinitely many are heard; and that it
  does not wait for ever. It may go on before its poll is answered each time:
  `ReadsGoOn` and `WritesResolve` say what HeatWhisper sends, in the slot or after it;
* in `NibeFraming`, that the pump goes on sending;
* in `Entities`, what the other runs show of the drivers: every write leaves the
  queue (`WritesResolve`), and every register is asked for again and again
  (`ReadsGoOn`), of whose answers infinitely many are heard.

The fairness of the pump is the hypothesis of the property; that of `loop()` is
how ESPHome schedules components.

## 5. Proofs

All theorems hold for every value of the constants that satisfies the named
assumption of the module (`MasterAssumption`, `SlaveAssumption`,
`ModeAssumption`, `DeviceAssumption`, `QueueAssumption`, `EntityAssumption`,
`FramingAssumption`, `CodecAssumption`), which TLC evaluates in each run. They give constants their
types and say what the code guarantees of the data: that a register's content
fits its size, that a message fits a frame, that writable registers start at
20000. Where a theorem needs more, it says so in an `ASSUME` of its own, and the
paragraph about it below says why that is justified.

`WriteService_proof`: `Ordering` (`Spec => []InOrder`, no request overtakes an
older one that waits) and `Finality` (`NeverRevived`, a request that has left does
not come back). `InOrder` alone is not inductive: a request that is pushed out or
concluded must be the oldest, and a request not yet issued must not have been
sent. `Inv` adds that nothing unsent was sent (`NoneUnsent`) and that requests are
issued in order (`Issued`).

`ModbusMaster_proof`, part 1:

* `Invariance`: `Inv == DriverOK /\ QueueInv /\ AttemptsInv /\ RequestHasTarget`
  holds always;
* `Retransmission`: no write goes out more than three times;
* `Targets`: a pending request has its target.

The argument for three transmissions: `retry_` is shared, so one has to show that
for the request at the front the number of transmissions never exceeds
`retry_` (one more while it is pending), and that a request that reaches the front
has never been sent (`QueueInv`: only the front may have been sent). A read that
is pending while a write waits means that the write came after it, so it was not
sent either. The pop of a full queue, the third failure and the echo each
restore this for the next front. The lemmas `PopSound`, `PushSound`, `SendSound`
say so once for sequences; each action then has its own lemma.

Part 2: `Implementation`, `Spec => ImplementsWriteService`. The
driver decides by the front of `writes_`, the promise by the oldest request that
waits; `Mirrors` (in `Lemmas_proof`) says that the queue holds just the
requests that wait, oldest first, and that requests are issued in order. Its
lemmas say that pushing, popping, refusing and overflowing preserve it, that the
front is the oldest (`FrontIsOldest`) and that the length of the queue is the
number of waiting requests (`LengthCounts`). That a transmission is one of at most
three comes from `Retransmission`. `NoOvertaking` carries `Ordering` over to the
driver.

The same part proves `Forwards` (`NeverBackwards`): the pump is never taken back
to an older write, with answers at any time and requests that arrive when their
sender has long given them up. The pump carries out what it finds on the line, so
the invariant has to order the line: the writes on it are in the order they were
issued (`WritesIn`, `InOrderUpTo`), none is newer than the newest that was sent,
and none is older than the last one carried out (`InboxInv`). A poll appends a
write that is at least as new as all of them, because the queue only ever sends
its oldest (`NewestIsSent`), and the pump takes from the front. A write is known
on the line by the words of its frame, hence `WireIsWord`.

Part 3 is about the bytes. `Types` (`TypeOK`) needs `LineOK`: the UART and `mrx_`
hold bytes whatever damage does to them. That follows from the lemmas on what the
pump sends (`FramedFacts`, `EchoFacts`, `ReadReplyFacts`) and from `TrafficInv` and
`AskedInv`: on the bus there are only reads of polled registers and writes of
requests, so every answer has one of four forms. Its hypothesis
`ChecksumIsWord`, that the checksum of bytes is a 16-bit number, is the return type
of `crc16_modbus()`; the checksum is otherwise any function.

Part 4: `Acknowledged` (`AckedWasApplied`) and `Attributed` (`Attribution`). A
Modbus answer carries neither the register nor the request, so what is shown is
that on an undamaged line the bytes on their way are always one whole answer to
the request that is out. `TalkInv` says it as three phases: nothing is on its way
(`Silence`), the request is with the pump (`Underway`), or what is in `mrx_` and
what is still to come are together an answer to it (`Coming`) and, if it is a
write, one that the pump has carried out. A call of `loop()` that reads a part leaves `Coming` in place,
for no prefix of an answer is cut as a frame of its own; one that completes it
leads to `Silence`, as does a time-out. That the echo concludes the request it
echoes needs the queue (`AtFront`): unless one was pushed out, the pending write is
still at the front. The hypotheses:

* `garbled = 0`, no byte damaged: with damage, both properties hold just as far
  as the checksum notices it. TLC checks them with the true checksum and one
  damaged reply;
* `Prompt`: an answer comes within the 5 s between polls or never. Without it both
  are false, see section 6;
* `Roomy`: `mrx_` has room for the longest answer, 9 bytes of its 256, and no
  polled register is 0. Register 0 can be polled only if the YAML lists it, and is
  then asked for as register 65535, whose answers would be shown under 0.

`NibeSlave_proof`, with an invariant in parts, one for each piece of state:

* `Coverage`: the ring holds each polled register exactly once. `RingInv` says
  that `reads_` and `polled_` have one length and the same members; a turn of the
  ring (`Turned`), by `ensure_polled()`'s search or by a read poll, keeps both, and
  `BootInv` that registers join only while `modbus_` is FALSE;
* `Rotation`: `AgeInv`, a register has waited for no longer than it has come
  forward from the end of the ring, bounds the wait by its length;
* `Implementation`: the promise about writes with one attempt;
* `Typing`.

`NibeFraming_proof`:

* `Types` (`TypeOK`): `rx_` keeps within its 512 bytes, whatever the line does, and
  begins with a 5C, or is empty, when the scan has stopped; a length byte never makes
  the scan read beyond what is there;
* `BufferStaysSmall` (`BufferBounded`): less than one longest frame waits between
  two calls. When the scan stops, it waits for the rest of a frame whose length
  it has read, or for the length itself;
* `SqueezeRestores`: `Squeezed` undoes the pump's doubling for data of any length in
  which no two bytes in a row are 5C (with such a pair it does not, see section 6);
* `Delivery` (`CleanDelivery`): on an undamaged line every message is handed over
  once, in order, with its data. `CleanInv` says that `rx_` and the line together
  are the frames from the next message on, whole, and that no whole frame is
  left in `rx_` when `loop()` returns. That a frame with 5C in its data is cut at its
  true length and passes its sum follows from the lemmas on frames. Its
  hypothesis `Sound` excludes the pairs of 5C, and says that what one `loop()` reads
  fits into `rx_` beside a part of a frame: a part has at most `MaxLen` + 5 = 133
  bytes and `rx_` takes 512, so at most 379 bytes may have come in since the last
  call, which at 9600 baud takes 0.4 s, where `loop()` is called every few
  milliseconds. (ESPHome's UART keeps 256 bytes unless told otherwise;
  `esp32_s3_rs485.yaml` gives it 1024, and there a longer stall makes `loop()` drop
  the oldest bytes, frames among them.)

Two inductions are needed here, over data and over the position in a recursive
function. The library's induction theorems take an operator as parameter, which
the provers cannot instantiate. `SetInduction` has a *set* of numbers in the place
of the operator, and follows from the well-foundedness of the numbers (`WFMin`);
`Recursion` derives from it that a function defined by recursion up to a bound
exists and satisfies its equation, which is what a recursive definition of
TLA+ (a `CHOOSE`) does not give for free. Both are in `Lemmas_proof`, and so is
`SmallestExists`, for searches that stop at the first hit; the checksum, the walk
through a message and the names rest on them too.

`SharedQueue_proof`: `NoUnderflow` (`NeverUnderflows`) and `OnlyQueuedIsTaken`
(`TakenWasQueued`). `first <= last` is far from inductive: a task stores a cursor
it loaded before, which may take back what the other task has stored in between.
How far back depends on how much the other can do during one call: end its own
and begin one more (`MayBegin`). `FirstInv` and `LastInv` therefore relate a loaded
cursor to the stored one with the stores the other task has left (`PopsLeft`,
`PushesLeft`, `Spare`), and `EnoughInv` says that there are as many requests in the
queue as pops have been decided upon. The three that `QueueAssumption` asks of
the capacity are what this count needs. The second theorem adds what the slots
hold: all below the last cursor are whole requests (`FilledInv`), as long as no two
pushes have met.

`Entities_proof`, part 1: `WishesGranted` (`WishGranted`). The property speaks of
registers no request waits for, so the invariant must say what the last request
will leave behind: of the requests that wait for a register the newest asks for
what was wished last, and if none waits the register holds it (`Coming`). Pushing
makes a new newest; a request pushed out, lost or not confirmed is the oldest,
which is the newest only if it is the only one (`PopComing`).

Part 2 is about the operators of `Values`, for every register and every number.
`Nearest`: what `control()` sends lies in the register's range, no other number of
the range is nearer to what was set, and the entity shows just that number; the
register has a range and a factor that divides `Unit`. `ModbusReadsBack` and
`NibeReadsBack`: the words of a number, in any of the six sizes, in either word order
or kind of message, are read as that number. The one signed byte
that is not read back, -128 sent as 128, is excepted as in section 6.

Parts 3 to 7 are about the states of `Codec`. What TLC checks there on small
messages is proved for messages of every length and for every catalog.
`CodecInv` is the invariant behind all of it: the bytes are bytes, the items are
registers with numbers that fit them, and an announcement starts with the name of
a model as its pump spells it, with a mark behind it if it goes on. What
`CodecAssumption` asks of the data is what the catalog satisfies: a register's factor
divides `Unit`, its minimum is not above its maximum, and the numbers it holds fit its
size. `Writable` leaves out ranges that the size cannot hold: only nine registers of
the catalog have one (u32 registers of the VVM S320 with a signed range), and none
of them is written.

* Part 4, `NearestWritten` (`WritesNearest`): from `Nearest` and the two theorems on
  reading back. Both buses carry the same number to the pump (`Taken` says which
  number the words of a message are), and none that `Reach` covers is nearer.
* Part 5, `TrueReadings` (`ReadsTrue`). `Message` and `Readings` are both joined item by
  item (`Joins`); the code instead walks along the words. `HeardIsWalk` says that
  `Heard` is the start of a walk that satisfies `Walks`, the recursion of
  `on_frame_()`. `HeardReads` then goes through the items by induction: what is heard
  of the whole message is what should be heard of the first items, followed
  by what is heard from the word behind them on. One item is one step
  (`ItemReads`) because `Need` asks for just the words it is made of; so the walk cannot fall out of
  step with the message, whatever registers, known, unknown or out of range, follow
  one another. A message that is cut off ends in an item that is too short for its
  step, and adds nothing.
* Part 6, the checksum. Exclusive or is defined by sums of bits
  (`BitsOf`, `BitsMade`); that it is associative, commutative and its own inverse
  (`XorAlgebra`) is proved bit by bit, first for bytes, then for words. One shift of
  the register is linear and one-to-one (`ShiftLinear`, `ShiftInjective`): it loses
  the lowest bit, and the polynomial has its highest set where the shift
  leaves a zero. Eight shifts are so too (`EightShiftsFacts`). From this
  follow `TableIsCrc` (`FastCrcIsCrc`): the upper byte only moves down, and the lower is
  looked up; `ChecksumIsStandard` (`FramesDivide`); and `NoDamagePasses`
  (`DamageIsNoticed`): registers that differ go on to differ, as the rest of the
  message is the same for both. For `ChecksumIsStandard` the two sides are far apart: the code
  shifts a word to the right for each byte, the standard divides a polynomial bit by bit.
  `Mirror` turns the word round; `MirrorTakes` shows that one bit of the division is one
  shift of the mirrored word, and `OneBit` to `MirrorTakesByte` that four and eight are,
  by the linearity of the shift. So `RemainderIsCrc`: the remainder is the mirrored
  `Crc`, for bytes of any number. After two more bytes the register is zero just when they
  are its low and its high byte (`TwoMore`, `ZeroWhen`), hence a frame is divisible just when the
  code's comparison holds (`SoundWhen`), and what `poll_one_()` seals is.
* Part 7, `EveryNameRecognised` (`NamesRecognised`). `FirstMark` says where the text is cut;
  that the cut is behind the name uses that names hold no marks and that a
  mark follows them.

`Device_proof`, part 1: `Typing`, `Stability` (`OnlyUsersSwitch`), `Transport`
(`MastersHaveTransport`), `NibeChoice` (`NibeChoiceHonoured`). What carries the
protocol over a reboot is the record in flash, so the invariant says at any time
what the next boot would make of it: what this run does (`Settled`), or what the
last one did (`Kept`), unless a user has saved a mode since. `MasterFc`
(`MasterKeepsFc`) needs no invariant: of all steps under a running master only
the save of NIBE mode touches the model.

Part 2: `DeviceRuns` (`DeviceSpec => Spec`) makes the theorems above hold of
the whole device. `Distinct` (`OneEntityEach`), `Slots` (`SlotsSuffice`), `Selections`
(`SelectionSound`), `WholeRequests` (`SavedWhole`) and `Page` (`PageShowsEntities`) follow
from one invariant. Its
heart is the loop invariant `MadeOf(b, s, i, es)` of `create_entities()`: the
entities `es` come from the numbers of `s` before the i-th, are fewer than `i`, no
two share an object id, and every number passed that could become an entity finds
its object id among them. `OneRound` is the step of the loop. That a register has
one entity follows from the object ids, which the catalog gives by register. The
page is right because its rule for the kind of a register comes to the same as that of
`create_entities()` for every register that has an entity, and because what is in
flash is, once booted with, what the loop has gone through. A request is saved whole
because the numbers kept are always those posted (`Noted`): the repeated ones are
there already, and one that is refused ends the request.

Left to TLC:

* all liveness: it needs fairness and ENABLED, which the prover does not do;
* `AckedWasApplied` and `Attribution` once a byte has been damaged (`CleanDelivery`
  speaks of undamaged lines only). `NoDamagePasses` says that a frame with one damaged
  byte is refused when it is cut as a frame; but a damaged function code makes the
  driver cut elsewhere, and of the pieces a 16-bit checksum can say nothing for sure.

Every invariant and every safety property of the passing runs is stated by a theorem;
the list in `PROJECT.json` says which.

## 6. Where code and documents disagree

Each is a run that TLC ends with a counterexample.

| run | property | what happens |
|---|---|---|
| `ModbusUnsentGivenUp` | `AbandonedWasSent` | a *read* times out for the third time and a write that was queued meanwhile is dropped, unsent |
| `ModbusDesync` | `RepliesGetThrough` | after one damaged byte the buffer is out of step for good, if registers read the slave's address; with other values, as in `MCModbusLive`, it recovers |
| `FramingEscape` | `CleanDelivery` | two 5C in a row in the data lose a byte; single ones, as in `MCNibeFraming`, are restored |
| `ModeChoiceLost` | `ModbusChoiceHonoured` | an announcement before the reboot undoes the user's choice of Modbus |

Seen while modelling, without a run:

* a full queue pops the write that is on the wire, and its echo then pops the
  next, which is reported done unsent (`AckedWasApplied` is therefore stated for
  queues that have not overflowed);
* a reply that comes after its timeout is taken for the next register's of the
  same length and function code (`Attribution` is checked with prompt answers);
* a NIBE token that waited while `loop()` was late, or behind a damaged length
  byte, is answered after its slot, against
  `src/docs/superpowers/plans/2026-09-16-nibe-bridge.md:13`, "TX only inside poll slots":
  `on_frame_()` knows no time. The model does so too; no property forbids it;
* choosing NIBE on the page makes the running Modbus driver forget the model:
  until the reboot it writes with the function code of another model, or with
  FC06 to a pump that knows FC16 only, against
  `2026-09-19-generic-modbus-rtu-design.md` (section 8) and the comment at
  `heatwhisper.cpp:384` (`MasterKeepsFc` has this as its exception);
* a boot with NIBE saved and no name keeps the YAML's model;
* entities are not marked stale after a give-up, and no NACK (15) is sent on a bad
  sum, though the design documents say so; the startup reset of the alarm may be
  pushed out of the queue like any write;
* a register with min = max = 0 has no range for `control()` and the bounds 0 to 0
  in Home Assistant, so that only 0 can be set; 647 writable registers of the
  catalog are such;
* register 0, "Error Number" of a Lambda pump, is offered by the page and refused
  by `handle_save_()`, together with the rest of the request;
* the page sends the registers it lists: those of another model drop out of the
  selection when it is saved;
* a register that is written with swapped words (`wo` = 1) is read so and written
  the other way round; no writable register of the catalog has it today;
* a signed byte sent as 128 is -128 on Modbus and 128 on the NIBE bus, where the
  code follows its reference;
* a number without a range shows what was typed until the next reading; a select
  keeps its last option while the pump holds a number that is no option;
* two pushes to `writes_` that meet can lose one request, or send a register the
  value meant for another; two size checks that meet can let the queue grow past
  its limit (`TakenWasQueued` excepts the first; the second does no harm).

## 7. Not modelled

* The memory model below `SharedQueue`: stores that the other core sees in another
  order, and the moments when a `std::deque` changes nodes.
* 32-bit floats: values are rationals. A number above 2^24 loses its last digits
  in the code.
* What ESPHome does: filters of sensors, the moment when preferences reach the
  flash, the web server, the reading of the URL.
* The page (`picker.h`) and its JSON. Outside `ModelNames` the name of a model is a
  value that the catalog knows or does not.
* Catalog generation and data, YAML packages, release scripts: they run at build
  time and have no state; the models take a catalog as a constant.
* Timing in milliseconds: the 5 s are a step that may or may not be due.

## 8. Plan

Done: the models of all components that run on the device, the refinements, and
the proofs of section 5: every invariant and action property of the runs is
a theorem. What is left:

1. Proofs: that the two drivers together with `Entities` keep `WishGranted`,
   `WriteService` being the interface.
2. The composition of `NibeFraming` and `NibeSlave`, for what a burst of frames
   costs the pump in answers that come after their slots.

The runs are kept few, one for each question: a new component takes its run from
merging those of an old one.
