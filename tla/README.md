# A TLA+ model of the communication and memory benchmarks, and of Snappy

The repository measures the costs of communication and memory: `HW1/part2` sends
packets over UDP with a small stop-and-wait library and measures round trips,
bandwidth and the effect of dropped packets; `HW1/part1` measures TCP round
trips, caches, locks, memory, disk and compression; `HW1/timers` measures clocks.
`snappy/` is the compression library that one benchmark of `part1.cpp` links.

This directory models the programs of `HW1` and the core of Snappy, checks them
with TLC and proves what it can with TLAPS.

## Inventory

| Component | State | Operations | Hard behaviour | What makes it correct |
|---|---|---|---|---|
| UDP session library, `part2/Socket.h` | per side: socket, `accepted_connection_`, peer address, receive timeout, drop percentage | Bind, Accept, Connect, WriteData, ReadData, SetDropPercentage, Close | loss, duplication, late answers, retransmission, no sequence numbers, a peer address every `recvfrom` overwrites | what the server counts as delivered was read, in order; one client per Accept; both sides end |
| UDP programs, `SocketServer.cpp`, `SocketClient.cpp` | phase, iteration, buffer offset, drop percentage | three phases of calls | two copies of one plan, no message that says which phase begins; results are ignored | same number of calls and sizes on both sides, offsets inside the buffers, packets that fit a datagram |
| TCP programs, `client_server/*.c` | handshake, trial number, byte streams | handshake, echo of NUM_TRIALS packets | partial reads and writes, end of stream, full kernel buffers, ignored errors | framing: each side reads what the other wrote for that trial; equal packet sizes; no deadlock |
| `Generic.h` | none | read_full, write_full, get_packet_size, CPU pinning | short reads and writes, end of stream, overflow, an argument changed in place | exactly `len` bytes are moved; the size is the one asked for |
| `part1.cpp` | running min, max, sum; the buffer of the cache loops | ten latency loops | a clock that is set back, unsigned arithmetic, sums kept from one loop to the next | the sum is the time that passed, min and max are of this benchmark, min <= avg <= max, reads inside what was filled |
| `timer_precision.cpp` | readings of a clock, turns of a waiting loop | wait for a tick, cost of a reading | the clock stands still or is set back, wrapping differences | the wait ends and is short; what is reported is a tick |
| Snappy: compressor | hash table, scan and emit positions, output | CompressFragment, FindMatchLength, Compress of a Source | 16-bit positions, colliding hashes, stores and loads past the end, fragments cut anywhere and taken back at Skip | output decodes to the input, nothing outside the buffers, blocks are the input |
| Snappy: decompressor | fragment or `scratch_`, bytes peeked, literal under way | RefillTag, DecompressAllTags, ReadUncompressedLength, IncrementalCopy, RawUncompress, Uncompress, snappy_uncompress | tags cut by fragments, lengths parsed by two pieces of code, overlapping copies with room counted once | the result depends on the stream only; every bound is the one that was compared |
| Snappy: writers | array, iovec, list of blocks, or a count | Append, TryFastAppend, AppendFromSelf, CheckLength, Flush | buffers of any size, copies that reach back over several, unsigned wrap, wide stores | each writer is a `DecompressionWriter`; none stores outside its buffers |
| Snappy: sources, sinks, C wrappers | position | Peek, Skip, Append, GetAppendBuffer | fragments and buffers of any size | modelled by what their callers may meet |
| `random.cpp`, `part2/server.c`, `part2/client.c` | | | | not built by any makefile |
| `utils/` | | | | straight-line I/O |
| `snappy_unittest.cc`, `snappy-test.*` | | | | test drivers |

A server and its client interact through datagrams or through one TCP connection
only. Within a process everything is sequential: there are no threads and no
callbacks but those by which Snappy calls a Source, a Sink or an allocator of its
caller. `part1.cpp` calls Snappy, and compares what it gets back.

## The modules

| Module | Models |
|---|---|
| `Socket` | `Socket.h` with the mains of part2: one `ServerSocket`, any number of `ClientSocket`s, the network |
| `ReliableChannel` | what a session promises: one packet per ReadData, in order, and WriteData returns afterwards |
| `Benchmark` | the plans of `SocketServer.cpp` and `SocketClient.cpp`, over a `ReliableChannel` |
| `PingPong` | the TCP echo programs over byte streams, with read_full and write_full |
| `EchoRounds` | what they promise: messages go out and come back one at a time |
| `PacketSize` | get_packet_size |
| `Statistics` | min, max and sum in uint64, used by `Measure` and `TimerPrecision` |
| `Measure` | the benchmarks of `part1.cpp`, in the order of main, and the statistics of the TCP server |
| `TimerPrecision` | both programs of `timer_precision.cpp` |
| `SnappyFormat`, `Memory` | tags, literals, copies and a reference decoder; overwriting and repeating bytes |
| `FindMatchLength` | both versions of FindMatchLength |
| `Compressor` | CompressFragment with EmitLiteral, EmitCopy and the hash table |
| `BlockCompressor` | Compress of a Source to a Sink |
| `CharTable` | char_table, as ComputeTable of the unit test computes it |
| `Decompressor` | SnappyDecompressor on a Source |
| `IncrementalCopy` | IncrementalCopy with IncrementalCopySlow |
| `Uncompress` | snappy_uncompress, snappy_validate_compressed_buffer, Uncompress to a string and to a Sink |
| `DecompressionWriter`, `WriterCalls` | what a decompressor wants of a writer, and the calls it makes |
| `ArrayWriter`, `IOVecWriter`, `ScatteredWriter` | SnappyArrayWriter with SnappyDecompressionValidator; SnappyIOVecWriter; SnappyScatteredWriter with SnappySinkAllocator |
| `MCSocket`, `MCPingPong`, `MCPrograms`, `MCCompression`, `MCDecompression` | values for TLC; the last three put components side by side (see *The runs*) |
| `SocketProofs`, `PingPongProofs`, `ProgramsProofs`, `CompressionProofs`, `DecompressorProofs`, `WriterProofs`, `DecompressionProofs` | theorems about the modules they are named for |
| `SnappyFormatProofs` | lemmas about the reference decoder |

A comment `(with ...)` before an operator marks a mutated form of the definition
that follows. The specifications do not use it; `PROJECT.json` says which property
fails when it takes the definition's place.

### Socket

An action is one system call with the code up to the next one, which is where the
processes and the network can interleave.

* **Server** (`SocketServer.cpp` main). `Bind`; `AcceptReceive`, `AcceptReply`
  and `AcceptError` are the `recvfrom` and the `sendto` of the ReadData inside
  Accept, and its failure; `WriteBegin` is the head of WriteData, with the
  SetDropPercentage the program may call before it; `WriteSend`, `WriteDrop`,
  `WriteFail` are the three ways through the loop's transmission; `WriteReceive`
  and `WriteTimeout` are its `recvfrom`; `ServerClose`.
* **Client** (`SocketClient.cpp` main). `ConnectSetup` to `ConnectTimeout` are
  Connect with the WriteData of its handshake; `ReadRefused`, `ReadReceive`,
  `ReadAck`, `ReadTimeout` are ReadData; `ClientClose`.
* **State.** `sPeer` is `client_addr_`, overwritten by every `recvfrom`; `sTimeo`
  and `cTimeo` are the SO_RCVTIMEO option: `short` is 50 ms, `long` 50 000 s.
  A client that completed Connect is recognised by `long`. `confirmed` and `got`
  are history: which acks ended a WriteData, what each client received.
* **Data.** A datagram is what the code tests of it. On the way up that is its
  first word: the handshake, the ack or something else. On the way down it is the
  ack, or the number of the WriteData call whose packet it is (the code does not
  send that number; the model needs it to say which packet was read). Sizes and
  offsets are in `Benchmark`; contents are left out.
* **Network.** `up` and `down` count the copies of each datagram in flight; any
  may be delivered next, which is reordering. `Lose`, `Duplicate`, `Stray` and
  the `Fault(..)` disjuncts of other actions are bounded by `MaxFaults`, one
  budget per kind of fault. A program that is no client (`Stray`) sends words that are
  neither a handshake nor an ack, and to the server only: that a stranger shakes hands
  or acks, or that its datagram overwrites a client's `server_addr_` (lines 410 and 441),
  is outside the environment that the model assumes. DropPacket is not a fault: with a percentage between
  1 and 99 it chooses freely, without a budget.
* **Timeouts.** `ShortTimeout` lets 50 ms pass either when nothing is under way,
  so that no answer could come, or, on the budget `early`, although one is: that
  is the retransmission racing the answer. The long timeout expires when the
  server has exited, or on the budget `stall`.

### PingPong

An action is again one system call: `Listen`, `Connect`, `Accept`; `Write(p)`
and the two reads move any number of bytes that the kernel's buffer of `Cap`
bytes allows, and `Moved` is the loop of write_full and read_full around them.
When a call has moved all its bytes, `Continue` goes on to the next call of main.
`op`, `msg`, `left` say which call each program is in; message 0 is the packet
size, message m the packet of trial m. Of a byte in flight the model keeps the
number of its message.

* The client's `packet_size` is filled byte by byte from the low end
  (`LowBytes`), which is what it works with if its unchecked read fails.
* `CallError` follows the three kinds of error handling in the code: the server
  exits in its handshake, repeats a read of a trial in full, ignores the failure
  of a write; the client ignores all.
* `ReadEof` is the loop of read_full at the end of the stream: read returns 0,
  nothing changes, and the loop goes on for ever. `WriteBroken` is SIGPIPE.
* `Crash` kills a process at any moment; a suffix of what it had written may be
  lost with it.

### The programs that measure

* `Benchmark`. `Server` and `Client` are the two copies of the plan (sizes,
  iterations, percentages), translated separately; `sAt` and `cAt` say in which
  loop, turn and iteration each program is and how far into its buffer it reads or
  writes. A step is a call of WriteData or ReadData, on a session that keeps the
  promise of `ReliableChannel`; under losses, `Socket` has the same order of calls.
* `Measure`. `stage` runs through the benchmarks of main; the actions follow one
  loop round: the first reading of the clock, the timed operation, the second
  reading with the update of the statistics, and after the last round the printed
  figures. `moved` is how far the clock has moved since `start` was read: negative
  if it was set back, which makes the difference wrap. The benchmarks print
  fractions, kept as pairs of numbers.
* `TimerPrecision`. Of the true time the model keeps how long the present tick of
  the clock has lasted (`phase`) and the readings relative to that in `start`.
  `Wait` is a round of the loop that runs one empty turn more each time.
* `PacketSize`. The number and the suffix of the argument; cutting the suffix off,
  the product in `int`, its conversion to unsigned, and putting the suffix back as
  a capital letter, over two calls with the same argument.

### Snappy

* `FindMatchLength` keeps of the two regions only which positions are equal. The
  64-bit version is `Spec`, the other one `Next32`, which ends with the first
  different byte of a half word or, on big-endian processors, goes byte by byte.
* `Compressor` works on sequences of bytes. A step is a call of EmitLiteral, a
  round of the scan, a match, a call of EmitCopyAtMost64, or the update of the hash
  table. Bytes that a fast path reads or stores past the ones it needs are counted
  (`readEnd`, `reach`). HashBytes is a parameter: any function of a word.
* `BlockCompressor`: byte i of the input is i. `peeked` is the fragment that Peek
  returned last; a Skip takes it away, so that using it afterwards finds nothing.
  What CompressFragment makes of a block is left open but for its length.
* `Decompressor`: `buf` is [ip_, ip_limit_), `slack` the bytes of `scratch_` that
  may be loaded behind it. The source hands out any fragments. The writer is that
  of `DecompressionWriter`: it refuses what exceeds the expected length or reaches
  before the start.
* `IncrementalCopy`: a buffer in which byte i holds i at first; a store outside
  the buffer would enlarge the domain of the function.
* `Uncompress`: four entry points, one per `api`. What follows the length header
  is described by how many bytes it produces, how many of them the last element
  does, and whether the stream ends after an element.
* The writers: a step is a call, or one round of the loops of Append,
  AppendFromSelf, SlowAppend, SlowAppendFromSelf or Flush. `done` is history: the
  content after the calls that succeeded. All bytes of literals are different.

## The runs

| Run | Instance | Shows |
|---|---|---|
| `session` | 1 client, 4 calls; 2 lost handshakes, 2 lost packets, free DropPacket on both sides | `ReliableSession`: the session implements `ReliableChannel`, including that it goes on |
| `slow` | 1 client, 3 calls; 2 early timeouts, 2 lost handshakes, 2 lost packets | `BothFinish`: both programs end |
| `losses` | 1 client, 3 calls; one loss of each kind | `ConnectedFinishes`: a client that connected ends |
| `faults` | 1 client, 3 calls; one of every fault but `stall` and `stray` | `TypeOK`, `ConfirmedWereRead`, `NeverAhead`, `FinishedWereRead` |
| `crowd` | 2 clients and a stranger, 2 calls; 2 early timeouts, one stray datagram, lost reply, failing send, stalled wait | `OneClientConnects`, `ReadsAreData` |
| `connect_failure` | 1 client, one failing send | violation of `ConnectReportsFailure`, see below |
| `echo` | packet sizes 1, 2, 4, 7 with buffers of 2 and a header of 3 bytes, 3 trials, one killed process | `EchoesInRounds`: `PingPong` implements `EchoRounds` |
| `echo_exit` | the same and size 0, nothing fails | `BothExit`, and no deadlock |
| `echo_faults` | the same, one failing call and both processes killed | `TypeOK`, `Framing`, `HandshakeAgreed`, `Lockstep` |
| `programs` | `Measure`, `TimerPrecision`, `Benchmark`, `PacketSize` | see below |
| `compression` | `FindMatchLength` (both versions), `Compressor`, `BlockCompressor` | see below |
| `decompression` | `Uncompress`, `IncrementalCopy`, `Decompressor`, the three writers | see below |

The last three put side by side the components that do not interact in the code:
a variable `part`, chosen in the initial state, says which of them runs, and the
others wait in one of their initial states. Each property is about the part that
runs, so that a counterexample is one of that component alone.

**`programs`.** `SumIsElapsed`: the sum of the recorded differences is the time that
passed modulo 2^64, however often the clock went back. `ExtremesHold`: while it did
not, min and max are those of the benchmark's own times, the first one included.
`ReadsAreWarm`: the timed loops over the caches read inside `buf` and only what was
filled. `FiguresAreSound`: only outputs that are right are counted; every average is
the time that passed for each operation that was timed, on every clock and with the
reads of the disk that fail; minimum, average and maximum are in order if the clock
never went back, and for the caches, on every clock, exactly if their divisors are the
same or nothing is left of the time; the cost of a reading is that of one and the wait
takes as few turns as can be, but for as many as the clock was set back.
`DiffIsTicks`: a round of timer_precision reports a tick, on a clock nobody sets.
`PlansAgree`: server and client call with the same sizes, call by call, stay in
their buffers, and send what fits a datagram. `SizeIsAsked`: get_packet_size
finds the size asked for, also at the second call, exactly if it is not negative and
below 4 GB, and puts the argument together again whatever it is.
`ProgramsEnd`: the wait for a tick ends even if the clock is set back, and both UDP
programs get to their end.

**`compression`.** `LongestMatch`: the result of FindMatchLength is the longest match
and the flag says whether it is shorter than a word, in all three loops and both
versions. `Assertions`: those of CompressFragment (a candidate lies before the position
it is compared with, all bytes of a match are equal, and the others), and the types. `RoundTrip`: at
every step, what was written decodes to what was taken of the input. `InsideBuffers`:
the fast paths stay in the input and in MaxCompressedLength bytes of output, and the
buffers that Compress allocates for one block suffice for all. `BlocksAreInput`:
Compress takes from its source what is available and no more, its blocks are just
that, the number it returns is what the sink got, and the length in the header is that
of the input exactly if it fits 32 bits. `Terminates`: Compress returns.

**`decompression`.** `LengthsAgree`: the two readers of the length accept the same
headers and find the same number in them, whatever the bytes. `NeverOverrun`: the
bound the array writer gets is never more than its destination has. `CallsAreExact`:
a call succeeds for just the legal streams and hands over just their bytes.
`InsideBuffer`, `ResultIsPattern`: IncrementalCopy leaves the buffer nowhere, and
leaves what a copy byte by byte leaves. `StreamIsDecoded`: however the source cuts
its bytes, what is buffered is what comes next, a tag and the four bytes behind it
can be loaded, and the result is the reference decoder's. `WritersAgree`: what the
iovec writer counts is what its buffers hold, bytes that found no buffer fail the length
check, the validator's verdict is the array writer's, a sink gets what was written.
`WritersImplement`: each of the three writers implements `DecompressionWriter`.
`TypesAndSizesOK`: the types, with the size of every buffer. `PartsEnd`: IncrementalCopy,
the decompressor and the calls of the iovec writer return.

### Why the bounds are enough

* `Socket`'s acks carry no sequence number, so an ack can be wrong by one WriteData
  per duplicated or retransmitted packet; three calls with one fault of each kind
  let a stale ack of call 1 end call 2 and a stale ack of call 2 end call 3, and two
  early timeouts let both of two packets be sent twice. Two clients and one stranger
  give every order of handshakes around the one Accept, and a loser whose
  retransmissions WriteData consumes.
* `PingPong`'s sizes lie below, at and above what one buffer (2) and both buffers
  together (4) hold; with a header of three bytes the client can be left with none,
  one or two of them, and the sizes 1 and 4 make the low bytes equal to the size or
  to 0. Three trials are enough for one that follows a trial that followed the
  handshake.
* `Measure`: `W` = 64 stands for 2^64; a clock that moves by 0, 1 or 3 or goes back
  by 2 wraps a difference, and the sum of four rounds wraps back. The caches are
  8, 16 and 64 units with strides of 4, so that L1 and L2 do not fill what is left
  of L3. `TimerPrecision`: readings that take less and more than a tick (4), a clock
  set back by less than and by a whole tick, twice.
* `Benchmark` keeps the sizes and percentages of the code; only the iterations are
  fewer, 2, 3 and 18 for 500, 2000 and 200. The buffer of the third phase has a
  packet per iteration but is used up by the 18 percentages: 18 is the tightest.
* `PacketSize`: every number of an `int` of 10 bits, with a "kilo" of 8, so that
  products with both units overflow.
* `FindMatchLength`: words of 3 and half words of 2 bytes, all patterns of up to 9
  bytes: three whole words, and every remainder.
* `Compressor`: 900 blocks around the numbers at which the code changes its way: 15
  bytes of margin, literals of 60 and 61 bytes, copies of 4, 7, 8, 11, 12, 64, 67
  and 68 bytes, offsets of 2047 and 2048, periods that overlap, tables of 4 to 32
  buckets with collisions. The block size is the code's.
* `BlockCompressor`: blocks of 4, inputs of up to two and a half blocks, fragments
  shorter and longer than a block, and two bytes that lie past Available().
* `Uncompress`: headers of up to six bytes, each of which goes on or does not, with
  the last digits around the overflow of 32 bits; room for nothing, for some and for
  all. Large numbers are cut to one value, `Huge`, above every room.
* `IncrementalCopy`: all patterns up to 18, lengths and rooms around each multiple
  of 8 and around the fast path's bounds.
* `Decompressor`: every tag byte in one context, and all pairs and many triples of 14
  elements (six forms of literals, eight of copies, some of them illegal), cut off at
  every byte, in fragments of 1, 3, 5 and 26 bytes in any order.
* The writers: a fast append stores 2 or 4 bytes instead of 16; blocks of 4, iovecs
  with empty, small and large buffers; lengths and offsets that cross none, one and
  several of them, literals of length 0; offsets of 0 and before the start. These values
  and those of `Decompressor` and `Uncompress` are given in `decompression.cfg`.

The theorems remove the bounds for the properties they cover.

### Fairness

Both programs of a pair run on a kernel that schedules them: weak fairness of each
program's steps, a timeout that is due included. In `Socket` strong fairness of
`WriteSend` and `ConnectSend` says that `rand()` does not drop every retransmission
for ever (percentages are at most 99), and strong fairness of receiving an ack that
stays in the queue says that `recvfrom` takes datagrams from a queue: one that waits
is not overtaken for ever. The network owes nothing: a datagram may be lost as often
as the budget allows, and since the budget is finite a later retransmission arrives.
`PingPong` and `Benchmark` have only weak fairness of the two programs; nothing is
assumed of which of them is faster or of how many bytes a call moves.

The other components are one sequential program each, and weak fairness says that
it goes on. In `TimerPrecision` this is not enough by itself: the wait ends because
the empty loop takes longer each time, which it does as the makefile compiles
without optimisation.

**Deadlock** is checked except in `echo_faults`: after a failed call both programs
may wait for bytes that never come, for instance when the client skips a read and
both write more than the buffers hold. A program that has returned stutters by an
action of its own (`Returned`, `Exited`, `CopyOver`).

### What the code does not guarantee

These would be false, and are left out or stated with their condition.

UDP and TCP programs:

* `ConnectReportsFailure` (run `connect_failure`, the finding in `PROJECT.json`):
  `ret = WriteData(..) < 0` at `Socket.h:369` tests a value that WriteData has
  itself reduced to 0 or 1, so that a failing `sendto` counts as a connection.
* A second client or another program can take over a session: its datagram makes
  its sender the `client_addr_` of the packets that follow. `NeverAhead` and
  `FinishedWereRead` are therefore about one client, and `crowd` claims
  only who may connect and what is read.
* The server acks a handshake once. If that reply is lost, both WriteData loops
  send for ever. `slow` has no lost replies; `losses` is about clients that
  connected.
* If the ack of the last packet is lost and the client has exited, the server
  sends for ever.
* With a lost or late ack a client can read a packet twice and end without the
  last one: `session` has neither, and `faults` bounds by how much.
* A drop percentage above 99 or below 0 on the command line (`Socket.h:82`) drops
  everything; the runs use valid ones. `rand()` times a time modulo 100
  (`Socket.h:69`) is even three times out of four, so that a percentage is not the
  share of dropped packets.
* Bind ends without a `return` (`Socket.h:141`), and Accept compares a handshake
  that a failed ReadData never wrote (`Socket.h:156`).
* A killed peer leaves the other TCP program in an endless loop or dead by
  SIGPIPE: `BothExit` is about runs in which nobody is killed.
* A packet size above 1 MB (`SocketServer.c:73`) exceeds the buffer of both TCP
  programs; `Generic.h:59` says that it has 512 kB.
* get_packet_size overflows from 2048m on. On a build where `int` wraps, the conversion
  to unsigned makes this good below 4 GB; 4096m is 0 bytes, and a negative number a huge
  one. `SizeIsAsked` says for which arguments the size is right, and that it is not for
  any other.

`part1.cpp`:

* The L2 and L3 averages divide by a count of accesses (the L3 one by that of
  L2, line 278) and their min and max by the size of L1 (lines 211 and 292):
  `PrintedInOrder` says that they are in order only if these numbers are the same, or
  nothing is left of the time.
* Min and max have the time of the empty loop subtracted, in unsigned numbers: with
  an empty loop that took longer than the accesses (lines 129 to 132) they wrap.
* A disk read that is short or fails is timed as a megabyte (line 487: `ret < 0 &&`
  never reports a short one): `AverageIsTime` counts all of them. The name of the file is taken from a string that
  no longer exists (line 475).
* If the clock is set back in one of the rounds, the difference of this round is huge
  and the average can lie anywhere; of the minimum and the maximum only their order is
  left.
* Memory is read at a stride of 1 MB where the comment at line 423 says 64 bytes.

Snappy:

* Peek may return more than Available() (`snappy-sinksource.h:128`); the decompressor
  takes it all (`snappy.cc:772`). The sources of `Decompressor` do not do so; those of
  `BlockCompressor`, which does compare, may.
* A literal whose length is written as 0xffffffff has 2^32 bytes according to the
  format, and none by the 32-bit sum at `snappy.cc:724`. `Decompressor` has the sum;
  `ResultIsReference` has this as a condition (`LengthWraps`), the run has a stream with
  such a literal, and the runs of the writers have calls with a length of 0.
* SlowAppend counts a block as full and fails before there is another, so that
  `Produced()` may count it twice (`snappy.cc:1386`): UncompressAsMuchAsPossible may
  then return more than the bytes that are valid (`snappy.h:93`). `WritersAgree`
  says what the sink holds then, and nothing of the number returned.
* Compress writes the length of its input as a 32-bit number (`snappy.cc:859`): of an
  input of 4 GB or more it writes the remainder, and what it returns says nothing of it.
  In `BlockCompressor` this is `Uint32s`, 9 in the run, whose longest input has 10 bytes.
* What a failed call leaves in a sink: the scattered writer hands over the block that it
  had begun to fill with a refused literal. `Uncompress` has this up to the expected
  length; where more than the rest of a block is missing, the code stops at the end of
  the block (`snappy.cc:1381`), and of a literal that the source cuts it may have taken
  some pieces. In the run the refused element begins at most one byte before that
  length, where all this is the same; and `CallsAreExact` claims of a failed call only
  that a sink has no more than the expected length.
* The default GetAppendBufferVariable hands out the scratch buffer it was given, and
  UncheckedByteArraySink whatever was asked for (`snappy-sinksource.cc:100`), which is
  as much as `snappy-sinksource.h:78` asks for only if the array is that large.
* Two comments differ from the code: `format_description.txt:79` says that the
  compressor works in blocks of 32 kB, which are of 64 kB (`snappy.h:197`); the room
  IncrementalCopy asks for, 14 bytes by the picture above line 187, is more than the
  11 that the expansion of any pattern stores.

## The proofs

Each proof module extends the module it is about; a theorem follows from an
inductive invariant, of which the parts that TLC can evaluate were checked before
they were proved. The assumptions are the named ones of the modules: what numbers
the constants are, that a time fits 64 bits (`WideAssumption`,
`DifferencesAssumption`), that L1 and L2 fit what is used of L3
(`CachesAssumption`), that an iteration exists for each drop percentage
(`DropsAssumption`), that a block has at most kBlockSize bytes (`InputsAssumption`)
and its hash lies in the table (`HashAssumption`), that some number is the first that
the header cannot hold (`HeaderAssumption`), and that streams are bytes.

`SocketProofs`, for all sets of clients and strangers, numbers of calls,
percentages and fault budgets:

* `TypeCorrect`: `TypeOK`, which is inductive.
* `ConfirmationIsPaid`: `ConfirmedWereRead`. Counting acks that ended a WriteData
  against reads is not inductive; the invariant `Covered(c)` adds the acks of `c`
  in flight and the one it is about to send: together they never exceed its reads
  and the network's copies.
* `TheServerIsNotAhead` and `WhatFinishedWasRead`: `NeverAhead`, `FinishedWereRead`
  for one client. `AheadInv` counts the calls of WriteData as well: every call but
  the one under way was ended by an ack of that client, or by a `sendto` that
  failed. With `Covered(c)` no packet can be in flight whose number is beyond the
  next read's, but for the copies and failures.
* `OneClientIsServed`: `OneClientConnects`, by `HandshakeInv`: before the server's
  only ReadData nobody has been answered and only handshakes are under way; after
  it, all replies in flight and all connected clients are those of the one peer
  that was answered.
* `ReadsAreDataAlways`: `ReadsAreData`, by `Fresh(c)` and `SingleReply(c)`: the
  one reply Accept sends is either on its way, or has ended Connect, but not both,
  unless the network copied it.
* `TheSessionIsReliable`: every step of a session is one of `ReliableChannel`, or none,
  under the mapping in `MCSocket`: the half of `ReliableSession` that is not liveness,
  for any number of calls and of lost handshakes and packets. Its hypothesis `Alone` is
  what the run `session` sets: one client, no stranger, no other fault. By `SessionInv`:
  from Accept on, the packet of a WriteData, its ack, and the handshake that Connect
  repeats when a packet overtook the reply add up to at most one, and only while the
  server waits; so the ack that ends a WriteData is the one its packet was answered with.

`PingPongProofs`, for all packet sizes, header and buffer sizes, numbers of trials:

* `TypeCorrect`: `TypeOK`.
* `HandshakeAgrees`: `HandshakeAgreed`, with errors and crashes, by `HeaderFirst`:
  while the client is reading the packet size, none of its answer is under way.
* `MessagesAreFramed`: `Framing`, by `RoundInv`: while no call has failed, the two
  programs are in one of four positions of a round (`Sending`, `Arriving`,
  `Echoing`, `Returning`), in each of which one direction is empty and the other
  carries at most what its reader still lacks of this message, or packets have no
  bytes (`Void`). That the bytes in flight and those still to be written do not
  exceed those still to be read is what makes it inductive under partial calls, and
  crashes only lower the left side.
* `TrialsAreEchoed`: `Lockstep`, after an error too, by `EchoInv`: the bytes that the
  client has taken, with those on their way to it, are no more than the server has
  sent, and the reverse.
* `RefinesEchoRounds`: with no failing call and no empty packets, `PingPong`
  implements `EchoRounds` under the mapping at the end of `PingPong`; each of the
  four positions enables exactly one of its four actions.

The proofs about `PingPong` allow at most one failing call (`FaultsAssumption`):
after two in the handshake the values of bytes, which the model does not keep,
would matter.

`ProgramsProofs`:

* Of `Measure`, for all steps of the clock, cache sizes and rounds: `TheSumIsTheTime` and
  `TheExtremesAreOfTheTimes`, by an invariant that says what the statistics are before
  the first time is recorded and that what is about to be recorded is a difference the
  clock can have; `TheCachesAreWarm` needs only that L1 and L2 fit in what is used of L3;
  `FiguresAreInOrder` compares the sum with its divisor times the extremes; a cache is
  timed once, so that its three figures are fractions of one number, and in order exactly
  if the denominators are equal or the number is 0, on every clock.
* Of `TimerPrecision`, for every resolution, time of a reading and of a turn:
  `TheWaitIsShort` bounds the turns of the wait by the length of a tick and the number of
  set-backs: the `n`-th attempt takes `n` turns, all readings since the clock was last
  set back lie in one tick, and each set-back can hide one attempt that was long enough.
  `ARoundMeasuresATick` and `TheCostIsOfOneReading` follow from where in a tick each
  reading was taken, with the wrapped differences removed by `DifferencesAssumption`. A
  set-back spoils one cost, which the maximum keeps; the minimum is that of a reading as
  soon as more costs were taken than the clock was set back.
* `TheSizeIsAsked`, for every width of an `int`: product and conversion together are a
  remainder, which is the product exactly if this is below 4 GB and not negative; the
  suffix that is put back has the unit of the one cut off.
* `TheProgramsAgree`: for all numbers of iterations, by `UdpInv`, in which the client is
  where the server is, or one call ahead of it while the ack is due; `AtPlace` says for
  each of the three phases how far into its buffer a program may be.
* `TypesAreKept` and `TheFiguresAreSound` are about the programs side by side, as the run
  checks them. The second collects `FiguresAreInOrder`, `TheWaitIsShort` and
  `TheCostIsOfOneReading`, and adds that every average is the elapsed time for each
  operation that was timed, whatever the clock and the disk did.

`SnappyFormatProofs` has what the proofs about Snappy need of the reference decoder,
which is a recursive function of the position. That such a function exists is
`WellFoundedInduction`'s theorem; what it makes of a particular stream follows by the
least position at which a claim fails, which needs no induction theorem. `DecodingGoesOn`:
when a stream that decodes is continued by one more element, the result is continued
by what this element adds.

`CompressionProofs`:

* `ContractHolds`, for all words and lengths and both versions of FindMatchLength: all
  before `matched` is equal, and the loop of single bytes starts with a whole word (or
  half word) behind it or less than that to go; the flag is right for this reason.
* `InputIsCutIntoBlocks`: `BlocksAreInput`, for all sources and block sizes. `BlocksInv`
  says where the bytes of the block are, in the source's fragment or in `scratch`;
  `CountInv` that the number written is the sum of the lengths in the sink and of the
  one to five bytes of the header.
* `BuffersAreNotOverrun` and `NoAssertionFails`, for all inputs up to a block, all hash
  functions and sizes of tables: `PlacesAreRight` (where the scan may be when),
  `TableIsBehind` (every entry is a position before the one it may be compared with)
  and `OutputIsShort`: six times the output is at most seven times the input it stands
  for, and 5 while a literal waits for its copy. A literal costs a byte more than its
  length up to 60 bytes, and the copy after it, of at least four bytes in at most three,
  pays for it; this is where MaxCompressedLength's n + n/6 comes from. That all bytes of
  a match are equal is part of `EchoInv`.
* `CompressedIsDecoded`: `RoundTrip`, by `EchoInv`: what was written decodes to the part
  of the input that it stands for, and all that is left of a match is equal to the bytes
  `offset` before. Each emitted literal and copy is one more element for
  `DecodingGoesOn`. No stale or colliding entry of the table changes a byte, since the
  four bytes are compared.
* `TheCompressorGetsOn`: two steps for each byte of a block (and 3) are enough for
  CompressFragment, and four for each byte of the input (and 2) for Compress.

`DecompressorProofs`, for all streams, and for all sources, however they cut them
(`AnyFragmentsDecode`): `StreamInv` says that the bytes in `buf` are what the stream has
next (`Buffered`); that stitching goes on with what the tag in `scratch_` lacks
(`Stitching`); and that the reference, put where the decompressor is, makes of the rest
of the stream what it makes of the whole (`SoFar`). The entries of char_table are
compared with the format one by one (`TableIs`). With `CompressedIsDecoded` this is the
round trip: what one half of the library writes the reference decodes, and what the
reference decodes the other half decodes. `TheStreamIsUsedUp`: ten steps for each byte of
the stream, and 8, are enough.

`DecompressionProofs`:

* `StaysInside` and `CopiesPattern`, about IncrementalCopy for all patterns, lengths and
  rooms: the memory has the period of the call up to `op`, and the distance between `op`
  and `src` is 1, 2, 4 or 8 times that period. `PeriodGrows` is the heart: a store from a
  multiple of the period away extends the period, if none of its bytes is taken from
  among those it stores.
* `ReadersOfTheLengthAgree`, `DestinationIsNotOverrun`, `TheCallsAreExact`, for all
  headers, well-formed or not, streams and buffers: the invariant relates what one reader
  has read so far, digit by digit, to the header whose end the other one has found, so
  that the length with which the room was compared is the one that bounds the writer.
* `TheStreamIsDecoded`: `AnyFragmentsDecode` for the two instances of `Decompressor` that
  the run checks.
* `TheTypesAreKept` and `ThePartsAreSafe`: all invariants of the run `decompression`, of
  the parts side by side, for all values of the constants. The types need that a digit
  of a length is below 128 and the last below 16 (`TypesInv`), so that no number is
  beyond the one that stands for large ones.
* `TheCopyIsUsedUp` and `ThePartsGetOn`: IncrementalCopy, the decompressor and the calls
  of the iovec writer get on with every step.

`WriterProofs`, for all calls, literals of length 0 and offsets of 0 among them, expected
lengths, buffers and block sizes (`WritersAssumption`): `TheWritersAgree` and
`TheWritersImplement`. Each invariant is written with the *goal* of the call under way:
the content it will leave if it succeeds (`Wanted`). A step that completes the goal is
the step of `DecompressionWriter`; every other one is a stutter.

* `ArrayInv`: the first bytes of the array are what the calls have written, and the
  validator has counted as many until both give up.
* `IOVecInv`: the buffers hold the goal as far as `total_written_`, across their ends
  (`Filled`); the bytes taken for an append come next in the goal, and the place to copy
  from lies `offset` bytes before them, so that a copy may take bytes which it has itself
  written a round before. Once a call found no buffer, the last one is full and the
  total short of the expected length, for good: this is why the check of the length
  fails (`SpoiledIsIncomplete`).
* `BlocksInv`: the blocks hold the goal, or the literal that was refused, up to
  `op_ptr_`; all blocks but the last are whole, and the last one reaches the expected
  length. What a refused literal leaves is in the invariant by the existential in
  `BlocksKeep`; it is also the one state in which the last block is counted twice.

What the flattened buffers hold is defined by sums of lengths; that such a recursive
function exists is again `WellFoundedInduction`'s theorem, and that the sums grow
follows by the least position at which they do not.

The theorems about getting on each define what a part has *left to do* as a number
(`MatchToDo`, `FragmentToDo`, `InputToDo`, `ToDo` and `StreamToDo`, `CopyToDo`,
`IOVecToDo`), by which they show that it is a natural number in every reachable state and
that every step of the part makes it less. The bytes that are left are not enough for
this, since some steps take none: a scan that begins, a tag that is stitched together
from fragments of one byte, a literal of no bytes, a copy that goes past its end. So each
byte counts for several steps, and each place in the code for the steps that may follow
before a byte is taken. No such part can loop, whatever the values of the constants.

**Only model-checked:** everything under fairness (`ReliableSession`, `BothFinish`,
`ConnectedFinishes`, `BothExit`, `ProgramsEnd`, `Terminates`, `PartsEnd`), since neither
liveness nor ENABLED is within the prover's reach. What is safety in `ReliableSession` is
`TheSessionIsReliable`, and what is safety in `Terminates` and `PartsEnd` is
`TheCompressorGetsOn` and `ThePartsGetOn`: what remains is that a part which has not
ended can take a step, which is the absence of deadlocks that the runs check, and does
take it, which is fairness. What a recursive definition makes of its argument by induction over it is
not proved where the least counterexample does not suffice; no theorem here needs it.

## Not modelled

* Contents of UDP packets; packet sizes beyond `BUFF_SIZE`, where the behaviour of the
  TCP programs is undefined.
* CPU pinning and sockets' addresses; reports of errors on the terminal.
* The distribution of `RandomNumber`, of which only the choice is kept.
* What a Source or a Sink does itself (`ByteArraySource`, `Sink::GetAppendBuffer`):
  the models have what the callers may meet. `GetUncompressedLength`, `RawCompress`
  and the C wrappers around it only pass their arguments on.
* Big-endian loads and stores other than in FindMatchLength: these modules take bytes
  apart, so that only the order in the stream is left.
* `random.cpp`, `server.c` and `client.c` of part2, which no makefile builds; the
  utilities; the unit tests and benchmarks of Snappy, which were read for what they
  say of the code under test.

## Plan

What is left, in this order:

1. That `Uncompress`, in which a stream is the number of bytes it produces, implements
   `Decompressor` with the writers at that level of detail.
2. Crashes of the UDP programs, which at present end only by themselves.
