# yamashnik: a verification project

yamashnik serves files from a PC to Yamaha MSX workstations ("KUVT") in a
classroom network. A workstation runs a replaced MSX-DOS kernel, the *Net-BDOS*,
which turns the disk functions of CP/M and MSX-DOS into remote calls over a
YM3802 serial adapter; the PC program `spy` answers them out of its current
directory. The same PC program sends ROM, BIN and BASIC programs and copies
files over an older packet protocol.

All program code is in `src/sw/spyvspy/`. `src/kicad/` is the adapter's
hardware. Paths below are relative to `src/sw/spyvspy/`.

## 1. The system

| component | code | state it keeps | operations |
|---|---|---|---|
| wire formats | `spy.cpp` 334-356, response patterns in `spybdos.h`, routines of `spy_bdos_e900.asm` 392-662, `spydata.h` | none: four tables | - |
| host RPC loop | `spy.cpp` 208-480, `spy.h` | receive state, poll intents, the request with its pattern and cursor, the response | Poll, ReceiveRequest, RxHandler, eat, emit, Serve |
| workstation disk call | `spy_bdos_e900.asm` 130-206, 392-875 | program counter, registers C and DE, the FIFO of the adapter | drain, listen, ESC, answer, send, receive, return |
| serial port | `serial.cpp` | descriptor, timeouts | Setup, SendByte, waitRx with intents |
| Net-BDOS entry | `spy_bdos_e900.asm` 83-128, 208-391 | CAPS lamp, keyboard work area, saved stack | range check, dispatch, FNNET |
| file server | `spybdos.h` | the files of the directory, the FCB that travels with each call, drive | 17 functions, 5 stubs |
| directory search | `dosglob.h`, `util.cpp`, name conversion in `spydata.h` | directory handle, pattern | SearchFirst, SearchNext, match, dosname, GetFileName |
| packet protocol | `sendpacket.cpp/.h`, `commands.h` | receive buffer and position, FCB of the last answer | SendPacket, ReceivePacket, CheckPacket, RxHandler |
| file copy | `ncopy.cpp` | position in the file, FCB | pingPong, sendFile |
| program sender | `basicsend.cpp` | ROM patches, block sequence | sendROM, sendBIN, sendBASIC, sendBlocks, netSend |
| bootstrap | `spy.cpp` 20-206, `spy_bootstrap.asm` | workstation memory | upload of regions, loader loop |
| console | `spy_bdos_e900.asm` 208-391, 1040-1250 | look-ahead character F336h/F337h, keyboard buffer | CONST, CONIN, functions 1, 6, 7, 8, Bh |
| warm boot | `spy_bdos_e900.asm` 877-1040 | checksum of COMMAND.COM | reload through 0Fh, 1Ah, 27h |
| line editor | `inputline.inc` | template, edit buffer | function 0Ah |
| command line, log | `msxnet.cpp`, `diags.c` | options, verbosity | main |

How they interact. A program calls address 5; the entry sends disk functions
to `DiskIOFunc`, which blocks until the host polls it, then writes the function
code, the arguments and waits for the reply. `Spy::Serve` polls, receives a
request through `SerialPort::waitRx`, whose callback (`RxHandler`) feeds
`SpyRequest::eat`, gives it to `NetBDOS::ExecFunc` and sends what
`SpyResponse::emit` finds in the response pattern. The two ends share nothing but
the line. They hold the formats of requests and replies in four separate places
(the table of the host, its response patterns, the workstation's send and
receive routines). No byte is framed, numbered, checked or repeated on this link.

What is hard. Two programs on one line, each with loops that skip what they do
not expect; the host retries its polls on a timer, the workstation empties its
FIFO at two moments; a FIFO that overflows while the workstation does something
else; ESC in the middle of a poll; a host restarted at any moment; replies that
nobody takes; positions in files that are kept in the caller's FCB, so that the
server's answers depend on what the caller does with them; in the packet
protocol, an acknowledgement that any packet satisfies. `PROJECT.json` lists
these hazards one by one with the line where each bites.

What makes each component correct:

* *link*: a call is executed exactly once with its own arguments; what a side
  takes as a code, an argument or a reply is one; every call returns.
* *formats*: what one side sends is what the other expects, for each function.
* *file server*: sequential, random and block access agree about positions; a
  file written is the file read back; a missing file is reported, not fatal.
* *search*: a search reports every matching file that stays, nothing else, and
  nothing twice; what it reports can be opened.
* *packet protocol and copy*: the copy equals the file, or the copy is reported
  as failed.
* *program sender*: the blocks sent cover the program once, the last is marked.
* *bootstrap*: no upload overwrites the loader that is receiving it; memory is
  what was sent.
* *warm boot*: COMMAND.COM is started whole or not at all, but for what `CommandStarted` names.
* *console*: no key is lost or seen twice between status and input.
* *line editor*: the line stays in the caller's buffer; what is rubbed out is what
  was written; the template that is recalled is the line that was entered.
* *entry*: every function number either dispatches within the table or is
  refused, and the entry's side effects (lamp) are undone on every way out.

## 2. Modules

| module | what it is |
|---|---|
| `SpyWire` | the four format tables, as functions of the BDOS function; `Agrees(f)` |
| `SpyLink` | the link: host loop, workstation call, line, FIFO, timeouts, ESC, restart |
| `SpyLinkSafety` | the functions whose formats agree, the inductive invariant `InStep`, and the refinement mapping to `RemoteCall` |
| `RemoteCall` | the abstract specification: what a program may rely on |
| `SpyLinkProofs` | proofs that hold for any formats and any timing |
| `SpyLinkSafetyProofs` | proofs that host and workstation stay in step and implement `RemoteCall` |
| `MCSpyLinkGaps` | statements of the source's comments about single functions |
| `FileServer` | the file server and the FCB that travels with each call |
| `FileServerProofs` | proofs that a file is read as a whole and what was written stays |
| `MCFileServer` | symmetry of file names, for TLC |
| `PacketScripts` | what the copy, the program sender and the bootstrap send, packet by packet |
| `PacketLink` | the packet protocol under these senders, with a workstation |
| `PacketLinkProofs` | proofs about acknowledgements, copies and started programs for files of any size |
| `MCPacketLink` | files to send, for TLC |
| `NetBdos` | the entry of the Net-BDOS, the console with its look-ahead, the CAPS lamp and the exit by ESC, against the keyboard interrupt |
| `NetBdosProofs` | proofs about keys, lamp and dispatch, and that reads end |
| `DirSearch` | searches, against users who change the directory; handles; names |
| `DirSearchProofs` | proofs that searches are complete and right |
| `MCDirSearch` | names and patterns, for TLC |
| `Startup` | the upload of memory to the loader, and the warm boot |
| `StartupProofs` | proofs that the upload is right and the loader survives it |
| `MCStartup` | layouts of the memory, for TLC |
| `LineEditor` | function 0Ah: the line, its template, the cursor |
| `LineEditorProofs` | proofs about the line, its template and the cursor |
| `MCLineEditor` | old lines, for TLC |

`SpyLink` uses `SpyWire`; `SpyLinkSafety` and `MCSpyLinkGaps` extend
`SpyLink`, and `SpyLinkSafety` instantiates `RemoteCall`. `PacketLink` extends
`PacketScripts`. `FileServer` stands alone: it is what `Exec` of `SpyLink` does to
files, with the link taken as the remote call that `RemoteCall` promises; so does
`DirSearch` for functions 11h and 12h. `NetBdos` is what happens on the workstation around a
call and between calls: in it the host just comes (`Polled`), and the phases between belong
to `SpyLink`. `LineEditor` takes its keys from the console of `NetBdos` one by one. `Startup`
comes before all of them.

### SpyLink and the code

| variable | in the code |
|---|---|
| `hPhase` | where `Spy::Serve` stands: `poll`, `pollF4` (the two bytes of a poll), `wait` (in `waitRx` for FFh), `getfunc`, `rxdata` (states SPY_GETFUNC, SPY_RXDATA), `exec`, `emit`, `dead` (the process has ended) |
| `hReq` | `SpyRequest`; `call` and `intact` are history: the call the code belongs to, and whether every item came from that call |
| `hWant` | the rest of `m_rxpattern` from `m_rxcursor` on |
| `hTx` | what `emit()` has still to send |
| `searched` | whether an 11h has set `Globor::m_dir` since the host was started |
| `wPhase` | where `DiskIOFunc` stands: `drain`, `listen`, `match` (own number read, F4h awaited), `pong`, `drain2`, `sendcode`, `call` (in the routine of the function), `lost` (in a chunk whose length was never meant) |
| `wFunc`, `wTx`, `wWant` | register C; the arguments still to send; the reply still to receive |
| `up`, `dn` | what is on its way to the host; the receive FIFO of the workstation |
| `asked`, `served`, `broken`, `restarts` | history and the bound on restarts |

A unit on the line is one byte, or one *chunk*: two length bytes and as many
bytes as they say. The code of both sides does nothing between two bytes of a
chunk, so in step a chunk is one unit; out of step a reader that expects a byte
takes one byte of it and leaves the rest (`scrap`). Data bytes may have any value:
where a loop compares a byte (`MayBePong`, `MayBeOwnNo`, `MayBeF4`, `MayBeZero`),
a data unit may be equal or not. The tag `call` on a unit is never read by an
action of the workstation or by the guards of the host; only `hReq.intact`
(history) and the properties look at it.

Host actions: `PollNo`, `PollF4`, `HearPong` (RxHandler in SPY_POLL), `GiveUp` (the
intents of `waitRx` are used up, in Poll or while the function code is awaited; in
SPY_RXDATA the loop of `ReceiveRequest` starts over, so nothing gives up),
`GetFunc`, `RxUnit`/`RxGarbled` (`eat`), `Exec` (`ExecFunc`), `EmitUnit`, `EmitEnd`,
`Restart`. Workstation: `Call`, `DrainUnit`, `DrainStop`, `HearNo`, `HearF4`,
`Escape`, `SendPong`, `SendCode`, `SendUnit`, `RecvUnit`/`RecvGarbled`/`RecvLost`,
`Return`. `Took` keeps that bytes which the completing `read()` returned beyond the
request are dropped. `MayKill` names the calls by which the host may die: a file function whose
file cannot be opened (`fclose(0)`), 12h before any 11h in this run of the host (`m_dir` has no initial
value), and an unknown code, which leaves the response pattern uninitialised, so
that `emit` sends nothing, junk, or dies.

**Timely, Quiet, broken.** The host waits 100 ms for each answer (ten intents of
`waitRx` for a poll); the workstation answers within microseconds when it is
listening. `Timely` restricts `GiveUp` and `Restart` to moments when nothing is on
its way that the workstation or the host would finish within that time (`Quiet`).
With `Timely = FALSE` they may happen at any moment, and `broken` records that one
did. The properties that need the timing say so: they are of the form
`~broken => ...`.

**External.** The YM3802 FIFO (`Arrive`): it keeps the order and loses what arrives
when it is full. `EmitUnit` never overflows it while a call waits for the reply:
`emit()` is paced byte by byte and the receive loop polls the FIFO all the time.

### FileServer and the code

The class `NetBDOS` (`spybdos.h`) keeps nothing between two calls. A position and
the size that ends a file are in the caller's FCB, which comes with each request and
goes back with some replies.

| variable | in the code |
|---|---|
| `size` | the files of the directory the host was started in: length in bytes, or `NoFile` |
| `fcb` | the FCB: extent, current record (a byte), random record, record size, file size |
| `alive` | the host has not died in `fclose(0)` |
| `reply` | function, record reached and result of the latest call |
| `track` | history: what the position should be, what was read, whether the FCB's size is current |

One action per function: `OpenFile`, `CloseFile`, `CreateFile`, `DeleteFile`,
`RenameFile`, `GetFileSize`, `SequentialRead`, `SequentialWrite`, `RandomRead`,
`RandomWrite`, `BlockRead`. `MakeFcb`, `SetPosition` and `SetBlock` are the program,
which may write the fields of its FCB between calls. `OthersChange` is everybody else: users of the
host, and the workstation's programs with other FCBs; one FCB is enough, because
the server joins calls only through the files.

Only lengths are modelled: which record a call reaches and whether it is there is
what the code computes; bytes go through unchanged. `Radix` stands for 128 in all its
uses (bytes of a record, records of an extent, turnover of the record counter), so
that a small value crosses an extent soon. `Dies` keeps that five functions call
`fclose` for a file that was not opened: the program ends or, with a C
library that takes it, goes on. `Written` with `MayFill` keeps that `fwrite` fills a
buffer, whose way to the disk `fclose` decides. A random write does not
send the FCB back, so that it knows the file no longer when the write went beyond
its size (`knows`).

### PacketLink and the code

`PacketScripts` has the packets of one file in their order, with what the sender
does about each that is not acknowledged (`unacked`): `pingPong` sends again,
`SendPacket` goes on with the next block, `sendSHEXHeader` leaves the file, the
others end the program.

| variable | in the code |
|---|---|
| `jobs`, `file`, `script` | the loops over file names in `ncopy` and `netSend`, and what is left of the current file |
| `waiting` | in `ReceivePacket` |
| `rxFcb` | `m_RxData`: the FCB of the last answer that `CheckPacket` has parsed |
| `rxWhole`, `rxPart`, `rxCut` | the receive buffer of `RxHandler`: whole answers, the beginning of one more, and whether the first has lost its beginning to an earlier wait |
| `net`, `line` | packets to the workstation; answers to the host |
| `station` | files, sector buffer and program memory of the workstation |
| `early`, `lost`, `unparsed` | history and bounds: waits that ended while an answer was coming; packets the workstation did not get; FCBs that nobody looked at |

Actions of the host: `NextFile`, `Send`, `Hear` (the bytes read so far end like a packet: that
is the acknowledgement, whatever it is), `HearPart` (they do not), `Overrun` (more
than 256 bytes: the buffer is emptied), `GiveUp` (`waitRx` has used its intents).
Reads may end anywhere, also within an answer. Packets are units: bytes, the
escape codes and the checksum decide only whether a packet arrives (`Lose`) and are
left out. The workstation's receiver is in its ROM, not in this repository: `Execute`
and `Lose` are external, taken from what the senders expect of it - packets are
executed in order, each is answered, and answers to a create or a write carry the
FCB behind what was done.

`PacketAssumption` says what the programs do: the bootstrap comes first or not at all
(in `msxnet` a copy or a sending of files ends the program), a program has at least one byte (`netSend` stops at an
empty file; a BIN whose end lies before its start is left out), and one answer fits into
the receive buffer.

### NetBdos and the code

One thread runs programs and the Net-BDOS; the keyboard interrupt of the BIOS and the user come
at any moment.

| variable | in the code |
|---|---|
| `phase` | where the thread stands: `spin` (waiting in functions 1 and 8), `conin` (in CHGET), `toggleStore`..`restoreLamp` (between the instructions of ToggleCAPS and RestoreCAPS), `listen` (waiting for a poll), `run` (CustomDispatch), `escGet`, `escPut`, `escSet` (ClearKeyboardBuffer), `astray` (jumped past the end of DispatchTable) |
| `fn`, `acc` | registers C and A |
| `caps`, `lamp` | CAPST, and the light |
| `buffer`, `put` | the keys between GETPNT and PUTPNT; HL in ClearKeyboardBuffer |
| `latch` | F336h/F337h: the one character of look-ahead |
| `stopDown`, `escDown` | what BREAKX and the keyboard matrix show |
| `taken`, `again`, `told`, `presses`, `dropped`, `stale`, `escAt` | history |

Actions: `Enter` (range checks and dispatch), `ConstStatus`, `FuncB`, `Func6`, `SpinEnds`, `ConIn`;
for a disk call `StoreCaps`, `OutLamp`, `Polled`, `Run`, `EscSeen`, `EscGet`, `EscPut`, `EscSet`; the
user's `TypeKey`, `HoldStop`, `LetEscGo`, `PressCaps`. `Const(nz)` keeps that after a key was fetched
the flag Z is what CHGET leaves, which is not documented: any value. Keys are numbered in
the order typed, which lets the properties tell them apart; 0 is the character of STOP.
Output of characters changes none of this state and is left out.

### DirSearch and the code

| variable | in the code |
|---|---|
| `dir`, `folds` | the files of the directory; whether the host's file system ignores case |
| `mdir` | `Globor::m_dir`: never set, null, or open |
| `stream` | what `readdir` has still to return: any order, with or without what changed meanwhile |
| `pattern` | `Globor::m_pattern` |
| `phase`, `entry` | within `SearchNext`; the name `match` accepted |
| `free` | handles the host program may still open |
| `reply`, `used` | the latest answer, and the latest use of a reported name |
| `found`, `since`, `stay`, `searches` | history |

A request is `SearchFirst` or `SearchNext`, one `Read` per entry of the directory, and `Size`, so that users'
`HostCreate` and `HostDelete` fall between them. `OpenFound` and `DeleteFound` are functions 0Fh and 13h
with the name that was reported. A name is two parts and three flags: the conversions of `Util::dosname` and
`extractFileName` are modelled by what they do to these - capitals, the dot that is always
written, and longer names, which `match` refuses.

### Startup and the code

| variable | in the code |
|---|---|
| `lay` | addresses in `memory.ram` and of the loader's file, lengths of the files sent |
| `region`, `sent` | where `Spy::Bootstrap` stands: which `SendMemory`, how far in it |
| `line` | the byte or word on its way |
| `phase`, `hl`, `bc` | where the workstation stands; registers of the loader |
| `mem` | memory, until the first warm boot; each byte is tagged with what it came from |
| `dies` | whether the host's C library ends the program at `fclose(0)` and `fseek(0)`, or bears them |
| `file`, `opened`, `tpa`, `got`, `resident` | COMMAND.COM on the host; FileSize in its FCB; what is at 100h; what the last 27h brought; what the checksum finds |
| `changes`, `exits`, `escapes` | bounds |

`SendItem` is the host. `TakeItem` and `TakeByte` are the loader, which counts before it
looks whether it is done and goes astray (`lost`) once it has overwritten itself. Each byte it reads is
a call, whose return address is pushed on the stack BASIC has left (`Called`, `Slot`). `Launch` patches the memory (`Patched`) and calls
`Init` and functions 0Dh and 09h of the Net-BDOS, which write SaveDE (in the Net-BDOS), STORESP F304h, CurrentDMAAddr F23Dh,
both stacks (below D5D3h and DC00h) and the work area of the BIOS: the constant `Scratch`.
`Checksum`, `OpenCommand`, `LoadCommand` and `Run` are WARMBOOT; `Exit` is a program
that ends, `FileChanges` users of the host, `EscapeCall` the user at the workstation. A host that dies of a missing file
leaves the workstation in its call (`hung`), which ESC does not end there. A sum of words may be right for other contents
(`resident = "alike"`).

`Fits` says for which layouts the upload is right, and is the precondition of the properties: the kernel begins
before the loader, which is below the work area, or behind all of it; neither the
Net-BDOS nor the program nor the stack meets the loader. The source fixes one layout of what is sent, of which `Fits`
holds; where the stack is, BASIC decides.

### LineEditor and the code

| variable | in the code |
|---|---|
| `line`, `room` | LineBuffer up to IX (register B counts it, as a byte); register C |
| `tmpl` | the old line in the caller's buffer; its length is register E |
| `off`, `ptr` | the place in the template: register D, a counter, and HL, a pointer |
| `insert`, `start`, `col`, `secret` | InsertMode, Var_F238, CursorPos_F237, SecretMessageFlag |
| `phase`, `todo` | the loop over keys, or RecallLine with that many bytes to go |
| `full`, `newline`, `astray` | history |

One action per handler of a key. RecallLine is one `RecallByte` for each byte, because it goes through the same
checks as typing. A handler that waits for one more key (CTRL+A, SELECT, CTRL+L) is one
action with it: nothing else runs on the workstation then but the keyboard interrupt. Bytes are of four
kinds (`Chars`), which differ in what the handlers do with them: the head 01 of a graphic
character, a letter, a control character, a tab.

## 3. Runs

| run | instance | what it shows |
|---|---|---|
| `calls` | the 17 functions whose formats agree, two calls, missing files, a restart, number 1, fair | `TypeOK`, `InStep`, three safety properties, the refinement `KeepsPromise` of `RemoteCall` with its fairness, and `CallReturns` (unless the call has killed the host); number 1 is the byte that 0Eh leaves on the line |
| `untimely` | four functions, patience at any moment, a restart at any moment, missing files | `IntactOnce` holds without any timing |
| `files` | two files, others who change them, blocks of two record sizes | `TypeOK`, the invariant `FcbFitsFile`, and the three properties below |
| `sessions` | copies and programs of every kind, four early ends, one lost packet, fair | `TypeOK`, `InTurn`, three properties of what arrives, and `Ends` |
| `workstation` | a number of each class, three keys, a buffer of two, two presses of CAPS, fair | `TypeOK`, five safety properties of keys and lamp, and `ReadReturns` |
| `line` | buffers of 2 and 4 bytes, a byte of 6 values; three old lines | `TypeOK` and five properties of the line |
| `search` | four names, two patterns, two handles, two changes, a restart | `TypeOK`, `SearchComplete`, `ReportedRight`, `FoundReached` |
| `startup` | nine layouts of 32 bytes, two changes of COMMAND.COM, two programs, two ESC, fair | `TypeOK`, `MemoryAsSent`, `CommandStarted`, and `Prompt` |
| `call_formats` | functions 24h, 26h, 28h and 30h, one call | they are not what the table of requests and responses in `spy.cpp` says |
| `file_results` | one file that may be missing, a disk that may be full | the host dies of a call for a file that is missing |
| `position_after_random` | one file | the sequential position after a random read is not at the record that was read |
| `file_tail` | one file that does not fill its last sector, nothing lost or late | the end of the file is not copied |

Properties of the link, each about several steps of both sides: `ExactlyOnce`,
`RequestFraming` (what the host takes for a code or argument is one), `OwnReply`
(what a call takes for its reply is its own), `IntactOnce`, `KeepsPromise` (calls are executed
once each, in order, and return after it, until one of the `Deadly` ones has ended the host) and
`CallReturns` (a call returns, or it is one by which the host has died). `InStep` implies the
first three and more: what is proved of it is in section 4.

Properties of the file server: `ReadsTellTheEnd` (a read that succeeds gives a record of
the file even when others cut it; one that fails was at its end), `WholeFileRead` and
`WholeFileInBlocks` (who reads from the first record to the reported end has read
everything; together `ReadsComplete`), `RecordsKept` (what was written with success stays). They hold because
the position and the size in the FCB fit the file, through any mix of calls, which is
`FcbFitsFile`.

Properties of the packet protocol: `InTurn` (without early ends, an acknowledgement is that
of its own packet), `CopiesRight` (a copy that the host goes on from is on the
workstation, whole sectors and length, unless a data block was lost), `ParsedAnswersInTime`
(the sectors are right with up to three early ends, as long as every answer with an FCB was the first
in what its wait received), `StartedWhole` (no
program is started in part) and `Ends`. Each states the exact conditions under which
the code is right. `CheckPacket` looks at the beginning of the buffer only: an FCB that comes behind a late
acknowledgement in one read, or in a buffer that overruns, is never seen (`unparsed`), and then
one early end is enough for a sector to overwrite the one before it. Where that does not
happen it takes a fourth early end; one is enough
for a wrong length at the close, with "done" reported; a lost data block makes a
wrong copy that nobody notices, since `SendPacket` ignores the missing
acknowledgement.

Properties of the workstation: `KeysInOrder` (keys reach programs in order and once, through any mix of
status calls, reads, STOP and ESC; what function 6 may give twice is named), `KeysLostOnlyByUser`,
`EscClears` (also when keys arrive while the buffer is being cleared), `StatusKept` (who was
told of a key does not wait for one), `CapsTrue` (key, CAPST and lamp agree, but for the races that
the two routines have with the interrupt), `ReadReturns`.

Properties of the search: `SearchComplete` (every matching file that stays is reported), `ReportedRight` (nothing else,
nothing twice), `FoundReached` (for which names the file found is the one a program then opens or
deletes). Of the start: `MemoryAsSent` (when the launch begins, every region is there to its last byte and nothing
else has changed, but for the two bytes of the loader's stack; at the first warm boot also, but for
what the launch patches and its calls write), `CommandStarted` (what is started is all of COMMAND.COM, unless
the last 27h read nothing or was left by ESC, or memory has the same sum),
`Prompt` (a workstation comes up while COMMAND.COM is there, also after it was not, unless the host has died of
that; which also says that the loader survives the upload).

Properties of the line editor: `RoomKept`; `ColumnRight` (the cursor is where the line ends, so that a
tab is rubbed out to where it began); `PlaceRight` (counter and pointer agree); `PairsWhole` (no half of a
graphic character); `RecallComplete` (recalling gives the whole old line). Their
preconditions name the exceptions: a buffer of 255 bytes, a place that has passed 255 (`astray`), CTRL+J.

Bounds. `FifoSize` 3 or 4 instead of 32 bytes: the hardest content is one stale byte
and a poll, three units; a fourth makes room for the longest tail of a reply next
to them. A larger FIFO only holds more whole polls, which the drain removes alike.
`MaxCalls` 2: a call can disturb the next one only (through what it leaves in the
FIFO), and a third meets the same channel contents as the second.
`MaxRestarts` 1: the restarted host has no memory. `OneByteRead` lets at most
two bytes of a chunk be taken singly, enough for each of the loops to take a byte
of one for its own and to leave the rest to the next reader. The safety theorems
below do not depend on the first three bounds.

`Radix` 2 and `MaxRec` 3 let records cross an extent; `SizeCap` 5 is exceeded by the
file that three records fill, and `HostSizes` 3 is a file whose last record is partial.
`Rates` 1 and 2 divide a record and are one. That the record counter
is a byte is in the theorem `FileTypesCorrect` for 128 as for 2.

`BlockMax` 2 and `Sector` 5 give three blocks to a sector, the last one shorter, as 56
and 128 do: the number matters, since it is what makes three early ends harmless. `RxMax` 8
with answers of 3 and 1 bytes lets as few late answers as TLC can afford
overrun the buffer. `MaxEarly` 4 is one more than is tolerated. `MaxLost` 1: what
each kind of loss does shows with one packet. Files of one and two sectors, the second
one with a rest, and programs of one to three blocks, ending at and between
multiples of the block, meet every packet the scripts hold.

`workstation`: a buffer of two keys is overrun by three; two presses of CAPS are one before and one inside a
routine. `Numbers` has one of each class: 1, 6, 7 (8 is as 1), a disk call (0Fh), one of the table (1Ah), 31h, and one refused (32h).
The theorems hold for all numbers, and those of `LineEditor` for bytes of 256 values. `line`: `Byte` 6 and `Tab` 2 let counters and columns turn over within
the length of a line; `FollowAstray = FALSE` ends a call whose place has passed the last
value, whose template is garbage from then on. `search`: twins that differ in case, a name without a dot, one that is too
long; the second search takes the last handle. `startup`: the loader below the kernel (as the source has it), in the kernel, and behind
the Net-BDOS; programs that end before the loader and at its first byte; stacks in the kernel, the
Net-BDOS, the program, the BIOS and memory that is not sent; four layouts for which `Fits` does not hold. `Scratch` has addresses of
each part above the loader. `MaxEscapes` 2: one ESC at an open and one at a read, or two of a kind.

Deadlock is not checked: in `calls`, `untimely` and the runs of `FileServer` because the host may die there
(and the workstation wait for ever); `workstation` and `startup` because a thread that has gone astray stops, `line` and `search`
because their bounds use themselves up; those of `PacketLink` because the
program ends; the violation runs of the link because their point is what
stops. What must not stop is said by `CallReturns`, `KeepsPromise`, `Ends`, `ReadReturns` and `Prompt`.

Fairness. `WF(HostStep)` and `WF(StationStep)`: both programs run when they can; no
fairness on `Restart`, `Escape` and `Call`, which users do. `SF(DrainStop)`: the drain
loop samples the FIFO every few microseconds, and it is empty for most of the
100 ms between two polls; weak fairness would let each sample coincide with
the one millisecond in which a poll is in the FIFO. `CallReturns` thus assumes a
host that is running and polls this workstation (`HostNo = OwnNo`), which is what
the code needs.

`FairSpec` of `NetBdos` is `WF(Thread)` and of `Startup` `WF(System)`: the processors run; the user, programs and the
host's users do as they like. `Prompt` says nothing of a COMMAND.COM that is missing: at the open or the
read of one the host dies in `fclose(0)` or `fseek(0)` and the workstation waits without a limit, or, with a C library that
bears it (`dies = FALSE`), the open is tried again and the read counts as one of an empty file.

`FairSpec` of `PacketLink`: both programs run, and `waitRx` ends when nothing comes
(`WF(Quiet /\ GiveUp)`). Early ends and losses are finite by their bounds, and `Ends` needs that:
`pingPong` has no limit, and while pings go unanswered it never comes to the line
`ncopy.cpp:40` that reports it.

## 4. Proofs

Constants are arbitrary: any numbers called, any host names, any memory and layout of it, any `FifoSize`, `MaxCalls`, `MaxRestarts`, any numbers,
`Timely` or not, any record, block and buffer sizes. Assumptions:
`LinkAssumption`, `FileAssumption`, `ScriptAssumption`, `PacketAssumption`, `NetBdosAssumption`, `DirAssumption`, `StartupAssumption` and `EditorAssumption` (types and sizes of the
constants) and, for `SpyLinkSafetyProofs`, `FuncsAgree` (programs call only functions for
which `Agrees`); TLC evaluates all of them in the runs.

* `TypeCorrect`: `Spec => []TypeOK`. The last conjuncts are not typing: a side in a
  receive loop still has an item of the format to wait for.
* `ExecutedIntactOnce`: `Spec => []IntactOnce`, for all functions, also those whose
  formats differ, and without timing. The inductive invariant `OnceInv` adds that the
  codes in the channel are those of calls made, in increasing order and later than
  the request being received and all requests executed, so that losing, mixing and
  misreading bytes can drop a request but never repeat it.
* `StayInStep`: `Spec => []InStep`, with `InStep == ~broken => Together`. None of the
  safety properties is inductive: whether the next unit is the one expected depends
  on the whole contents of channel and FIFO. `Together` says what these are, as
  what is left: `Requesting` - the channel and, after it, the workstation hold exactly the
  rest of the request; `Replying` - the FIFO and, after it, the host hold the rest of the
  reply, then only what a drain will skip; `Answering` - between answer and
  code nothing but the answer is on the line; `FreshPoll` - a poll's end in the FIFO of a
  listening workstation is that of the poll the host waits on; `AtRest` - outside a
  call everything in the FIFO can be skipped.
* `FileTypesCorrect`: `Spec => []TypeOK` of `FileServer`, for every `Radix` from 2 on: the
  record counter stays in a byte.
* `FcbAlwaysFits`: `Spec => []FcbFitsFile`. `ReadsTellTheEnd` and the others are about the
  latest reply and not inductive: why the record reached is the next one, and
  why a record refused is not in the file, depends on all calls before. `FcbFitsFile` says
  what they have left: the position counts the sequential calls, across extents; the
  FCB's size covers every file that nobody else changed; what was read is all that is
  before the position.
* `ReadsTellEnd`, `FileReadWhole`, `FileReadWholeInBlocks`: the three properties of reading, from
  `FcbFitsFile` and the arithmetic of records and remainders; `FilesReadToTheEnd` joins the last two.
* `WritesStay`: `RecordsKept` for a disk that does not fill up (`~MayFill`); the run
  `file_results` shows that the assumption is needed.
* `AcknowledgedInTurn`: `Spec => []InTurn` of `PacketLink`, for any files, sizes, lost packets
  and splits of reads. The inductive invariant `TurnInv` adds that a wait belongs to a
  packet of the script, without which an end of the wait could leave an answer behind.
* `PacketTypes`, `CopiesWhole`, `NoneStartedInPart`: the types, `CopiesRight` and `StartedWhole`, for copies and programs
  of any size. `CopyInv` holds while no wait ended early and no data block was lost: the script is the rest of
  the copy's packets; the FCB kept by the host names the record that the next write is for; disk and buffer of the
  workstation are what the packets before the one to be executed make of them (`Progress`); and a wait with
  nothing on its way belongs to a packet that was lost, so that the host does not go on from it. The
  arithmetic is in `BodySector` and `BodyIndex`: which record and which block the packet `k` of all sectors
  belongs to. `FlowInv` reads what is on its way and then the rest of the script as a sequence of steps of a loader
  that is at each of them in a state where it is `Safe` to take; it is split like the
  property: with nothing lost, acknowledgements do not matter; with packets lost, it is the packet without an
  answer that the sender does not go on from.
* `LateAnswersComeInTime`: `ParsedAnswersInTime`, for any `Sector` and `BlockMax`, and with its condition that no FCB stayed
  unparsed. `LateInv` needs no history, since
  what is late is still there. At most as many packets and answers are on their way as waits ended early, and one more while the
  host waits (`Pending`). The FCB of the next sector comes with the answer to the write that was sent as many
  packets ago as blocks of the sector were sent (`FcbComes`), so that at the next write, after `SectorPackets` of
  them, as many early ends cannot have kept it away. What the workstation's disk and buffer become once
  it has executed all that is on the net, block by block (`Leads`), is what the packets sent make of them (`StoreComes`).
* `CallsExactlyOnce`, `RequestsFramed`, `RepliesOwn`, `RepliesBeforePolls`,
  `PollsAnswered`, `ReturnsExecuted`: six safety properties of the link, the first three checked by
  `calls`, from `InStep` and `TypeOK`.
* `NoneWaitsInVain`: `NobodyWaitsInVain`, what is left of `CallReturns` without fairness. `InStep` says of each
  pair of phases what is between the two sides; here it says that it is not nothing.
* `PromiseUntilBroken`, `LinkImplementsPromise`: the refinement of `RemoteCall`, one case for each action of the link.
  A call by which the host may die (`MayKill`) is one of `Deadly`, and `alive` is that it has not.
  `Call` and `Escape` are its `Call` and `Abandon`, `SendCode` is `Submit`, `Exec` is `Execute` and `Return` its
  `Return`; all other steps of the link stutter. That `Submit` finds all earlier
  calls executed and that `Exec` executes the next one is `InStep`. `PromiseUntilBroken` needs no assumption about time: it
  is about each step up to the first untimely one. Under `Timely` there is none, which makes it `Promise!Spec`.
* `WorkstationTypes`, `KeysNeverSwapped`, `NoKeyLost`, `EscEmptiesBuffer`, `StatusTrusted`, `CapsAndLamp` (from
  `CapsFollowsKey` and `LampTrue`), `OnlyOneAstray`: the safety properties of `NetBdos`, for any buffer and any numbers. None
  but the first is inductive. `Pieces` says how keys given, look-ahead and buffer follow each other, the
  look-ahead between the other two and in two places at once only after function 6; `EscMark`
  what ClearKeyboardBuffer has in HL, whatever is typed meanwhile; `LampRight` what register A holds before the
  lamp is set. `OnlyOneAstray` is about every number from 0 to 255: 31h alone passes the checks and has no entry.
* `OneHandleASearch`, `NothingMissed`, `NothingMadeUp`, `NamesLeadBack`, `SizesTold`: the properties of
  `DirSearch`, for any names, patterns, handles and changes. `SearchInv` is inductive: while a search is open, a file that was there all
  the time is reported, is at hand in `entry` or is still to be read (`Left`); and what is still to be read was not
  reported unless it was deleted (`Once`). `NamesLeadBack` compares what `Util::dosname` takes away with what `extractFileName` adds.
* `StartupTypes`, `CommandWhole`, `LoaderSurvives`, `UploadRight`: `Startup` for a memory of any size and any
  layouts of it. `Upload` is inductive where `Fits` holds: the loader has taken some items of some region and stands where
  these have brought it (`LoaderAt`), the host has sent those or one more (`HostAt`), and every address has
  the contents that the last region written there gave it (`MemIs`). A region that satisfies `Fits` misses the loader and has
  neither no byte nor 65536 (`GoodRegion`), so that no register wraps; and the calls of the loader write on their stack
  alone, which `Fits` keeps from the loader (`CallRight`). `CommandWhole` needs no layout: between
  the read of COMMAND.COM and the jump to it nothing looks at the file.
* `EditorTypes`, `EditorRoom`, `EditorPlace`, `EditorPairs`, `EditorRecall`, `EditorColumn`: all six invariants of
  `LineEditor`, for any byte and tab that divides it, buffers, columns and old lines; the last three for old lines
  without halves of graphic characters (`OldLinesWhole`) and the last two for buffers of fewer than 255
  bytes (`ShortBuffers`). `EditorRoom` is inductive by itself: the checks cannot wrap there. `PlaceInv` says where the
  pointer is also behind the template; `Pairs` what a recall may leave for its next byte, half of a graphic
  character whose letter follows and has room (`HalfRecalled`), and that a recall does not stop between the two
  (`LastRecalled`); `RecallInv` what has been taken so far. `ColumnInv` compares the cursor with `ColumnAfter`, which is a
  recursive function: its equations (`ColumnStep`), that a prefix has the same columns (`ColumnPrefix`) and that
  bytes may stand for columns (`EchoRight`) are proved by induction over sets of numbers (`SetInduction`, from the
  library's theorem that every such set has a least member).

* `ReadsEnd`: `ReadReturns`, from a fairness without ENABLED: `CanRun` is written with the guards of the actions in
  `Thread`, and `ThreadRuns` says that again and again the thread runs or cannot. By the guards `CanRun` is ENABLED of
  a step of `Thread`, so that `ThreadRuns` is what `FairSpec` assumes. A read is a chain of at most three phases; in each
  the user can only lengthen the wait, and the next instruction of the thread leaves it.

Only model-checked: the liveness that takes a number of steps without a fixed limit (`CallReturns`, `Ends`, `Prompt`) and the
fairness part of `KeepsPromise`. They need an induction over temporal formulas, or ENABLED, both out of the
prover's reach. And what the violation runs find.

## 5. What the runs found

Seven places where the code does not do what its comments, or the interface it
implements, say; `PROJECT.json` quotes the lines.

| run | what |
|---|---|
| `call_formats` | 24h is never answered; 26h falls through into 27h; 28h sends its arguments in the other order; 30h sends nothing and makes the host wait for ever. Each of the four violates `CallsAsTabled` alone |
| `file_results` | `fclose(0)` after a failed open |
| `position_after_random` | a random read stores a byte offset, cut to 8 bits, as current record |
| `file_tail` | a copied file loses its last, partial sector |

The reply byte of 0Eh, for which nobody waits, is harmless in step: `calls` includes
0Eh, with a workstation whose number is that byte, and the drain of the next call skips it.
The functions of the first row, and codes unknown to the host, are why `FuncsAgree`
excludes 24h, 26h, 28h and 30h; the second is why `CallReturns` excepts calls that `MayKill` the host.

Observations that contradict no line of the source, but which a property had to except:

* 31h passes both range checks and is dispatched to the word behind `DispatchTable` (`DispatchedInTable`).
* A call left by ESC leaves the CAPS lamp inverted until the next press or call; so may a
  press inside RestoreCAPS, and a press while CAPST is copied is lost (`CapsTrue`).
* Functions 1 and 8 wait for a key in the buffer although one is in the look-ahead (`StatusKept` is
  about functions 6, 7 and 0Bh); function 6 may give a key that stays in the look-ahead (`again`).
* In a full buffer of 255 bytes CTRL+A with a letter finds room (`RoomKept`); typing on past 255 characters turns the
  place in the template over (`astray`); a search for a letter may stop inside a graphic character
  and split it; the erasing of a line stops at a column that may be whole turns of 256 off.
* A name in small letters, or without extension, is reported in capitals and with a dot, and
  leads to no file or to another one where the host distinguishes case (`FoundReached`).
* Each search keeps its directory open: after as many searches as there are handles, no file
  can be opened until the host is restarted (`HandlesAccounted`).
* 12h before any 11h reads an uninitialised directory handle, which may end the host (`MayKill`).
* A write whose data reaches a full disk only at `fclose` is reported as done (`spybdos.h:508`): with `MayFill` alone,
  too, `ResultsTrue` does not hold, and `RecordsKept` excludes it.
* An answer with an FCB that comes behind another in one read is not looked at (`unparsed`): after one early end the
  next sector overwrites the one before.
* A COMMAND.COM of D500h bytes or more is read again and again. An empty one is started as if
  it were there, and so is one that was empty when it was opened, because 27h compares with the size of
  then, and one that is emptied or, where the host bears that, deleted between open and read. ESC during the 27h
  of the warm boot leaves it with A = FFh, which is taken for the end of the file: what is at 100h is started, part
  of a COMMAND.COM that is too long included.
* The loader runs with BASIC's stack: where that is in memory that is sent, its calls write over two bytes of it.
* A program that was uploaded to 100h is never started by the loader.

## 6. Not modelled

What is left, in this order:

1. Of the file server, absolute sectors (2Fh, 30h) and disk parameters: contents of single replies; their
   requests and replies are in `SpyWire`. The stubs without effect keep no state.
2. Of the line editor, STOP, XOFF and the printer in the echo loop: they delay the output and change
   neither line nor template.
3. Of the packet protocol, bytes: escape codes and checksums decide whether a packet arrives.

Left out for good: logging, option parsing, `tpa.asm` (a sample caller) and
the hardware. Byte loss on the RPC line is not modelled: neither
side recovers from it, both wait without a limit, so there is no
property to hold.
