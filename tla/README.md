# A TLA+ project for rcopy and server

`rcopy` copies a file from a machine that runs `server`, over UDP, with a
sliding window and selective reject. The server forks a child for each
request; the child reads the file in chunks, keeps the chunks of the window in
a ring, and sends them; rcopy writes what arrives in order, keeps what arrives
too early in a ring of its own, asks for a missing chunk with SREJ and
acknowledges with RR (the number it expects next). Every packet goes through
the error injection of libcpe464, which drops packets and changes bytes.

This directory models the two programs as they are coded, checks the models with
TLC on small instances and proves the main results for every size with TLAPS.

## Inventory

| Component | Code | State | Operations | Must be correct |
| --- | --- | --- | --- | --- |
| Packets, checksum | `communication.[ch]`, `checksum.c`, `send_rr`, `send_SREJ` | the sum of a packet | `build_packet`, `in_cksum` | what arrives unchanged is accepted, what has a changed byte is not |
| Circular buffer | `buffer.[ch]` | `CircularBuffer` | `buffer_init`, `buffer_add`, `buffer_free` | no slot is taken that is still needed |
| Sender: the server's child | `server.c` 144-354 | window, file position, state, attempts | `handle_send_data`, `handle_wait_EOF_ack`, `process_rr_srej_eof`, `resend_packet` | what is resent is what was asked for; acknowledgments are read; it ends |
| Receiver: rcopy's data phase | `rcopy.c` 250-495 | buffer, `RecvState`, output file | `handle_inorder`, `handle_buffer`, `handle_flush` | the output is a prefix of the file; an exit means a complete file |
| File name exchange, rcopy | `rcopy.c` 72-199 | attempts, the server's address | `filename_exchange`, `process_filename_response` | a true answer; an end after ten requests |
| File name exchange, server | `server.c` 56-141, 356-409 | attempts, the children | `processFilenameAck`, `fork` | one transfer per request; it goes on listening; killing it and starting it again harms no transfer |
| Network, error injection | `safeUtil.c`, `libcpe464/` | socket queues, random events, message number | `safeSendto`, `sendtoErr`, `processEvents` | none promised: it loses, damages, repeats, reorders |
| Error settings | `SettingsManager.cpp`, `network-hooks.c` | environment overrides, event lists, seeds | `sendErr_init`, `setUserMode_*`, `forkMod` | an override wins over the program, in every process |
| Poll set | `pollLib.c` | the array of descriptors, its sizes | add, remove, grow, `pollCall` | a ready socket is found, and nothing else |
| Sockets, name lookup | `networks.c`, `gethostbyname.c` | none | wrappers of system calls | - |
| TCP examples | `myServer.c`, `myClient.c` | not built | - | - |

The two programs share nothing but packets. Inside a process there is one
thread; the concurrency is between the server's first process, its children and
rcopy, whose packets cross on their way, and each of which may time out while the
other's answer is coming. A fork copies what a process has: poll set, descriptors,
event lists, message number.

What is hard in this code: two rings of the same size that reuse a slot without
looking at it; window edges that are set from what the other side says;
acknowledgments read at three places; an EOF packet that counts as a chunk the
first time it is seen; retransmissions that are asked for once; and time-outs
that are the only way out of several losses; a request that is repeated and then served
twice; an address that every received packet replaces, before it is looked at; and
library settings that a server sets again in every round of its loop; and processes that are
killed, which nobody is told. `PROJECT.json` lists each of these
hazards at its line with the properties that would catch it.

## Modules

| Module | Models or states |
| --- | --- |
| `Packets` | flags, `build_packet`, RR and SREJ, a damaged packet |
| `Network` | the two socket queues, the fate of a sent packet, duplication and reordering |
| `Window` | `CircularBuffer`, `buffer_init`, `buffer_add` |
| `Server` | the child process, from the fork on |
| `Rcopy` | rcopy from RECEIVE_DATA on |
| `Transfer` | both with the network: specification, safety properties |
| `TimedTransfer` | the same with the seconds of both polls; properties about time |
| `FileCopy` | the abstract specification: an output file that grows by the next chunk, completion, giving up |
| `ShelteredInv` | the inductive invariant of the sheltered setting |
| `PacedTransfer` | a buffer size larger than the window, with the history variable `overrun` |
| `Exchange` | rcopy's `filename_exchange` |
| `Listener` | the server's first process: requests, answers, forks, kill and restart |
| `Session` | rcopy, the first process and two children, from the first request to the end, with kills and failed calls |
| `Checksum` | `in_cksum` turn by turn, for the sender and the receiver of one packet |
| `SessionInv` | the inductive invariant of a session |
| `PollSet` | the functions of `pollLib.c` on a record |
| `ErrorInjector` | settings, events and seeds of one process, on a record |
| `ServerProcesses` | the processes of the server with their descriptors, poll sets and error injection |
| `BasicTheorems` | lemmas about the ring, the queues, and one step of the child or of rcopy |
| `TransferProofs` | theorems about a transfer: on any network, sheltered, paced |
| `TimedProofs` | theorems about a transfer in time, with their inductive invariants |
| `LossProofs` | a transfer outlives any one fault, and however many packets are lost, each costs a second at most |
| `SessionProofs`, `PromptProofs` | theorems about a session: with any timing; with prompt time-outs, with its inductive invariants and the transfer inside it as an instance of `LossProofs` |
| `ProcessProofs`, `ChecksumProofs` | theorems about the processes of the server and about the checksum |

`Server`, `Rcopy`, `Exchange` and `Listener` extend `Network`, and the first two
`Window`. `Transfer` extends `Server` and `Rcopy`; `Session` instantiates all four,
each once for every process it talks to. `ServerProcesses` extends `PollSet` and
`ErrorInjector`. `Transfer` instantiates `FileCopy` with `copied <- out` and a
status computed from `rcv`.

### From code to model

*Data.* A chunk is its position in the file. A packet keeps its sequence
number, its flag, and a payload that is a chunk number, the number an RR or
SREJ carries, or nothing. A packet with a byte changed is `Corrupted`: the
checksum always detects one inverted byte, which `Checksum` models and
`ChecksumProofs` proves, so this is all its receiver learns.
A slot of a ring that was never filled holds `Uninit`; using one is a choice
between no payload, some payload and a crash, as its length is whatever
`malloc` left.

*The child* (`srv`). A step is the code between two places where it may meet the
outside: `SEND_DATA` (the test of `while (current < highest)`), `DRAIN` (the loop
on `pollCall(0)`), `WINDOW_FULL` (the loop on `pollCall(1000)`), `WAIT_EOF_ACK`
(about to send EOF) and `EOF_POLL`. `SendData` is `read_file_to_buffer` with
`send_data`; `DrainRecv`, `FullRecv` and `EofRecv` are `process_rr_srej_eof` with
the retransmission it may make; `FullTimeout` and `EofTimeout` are the time-outs
with the retransmission and the count. `buffer_init` is called with the buffer
size as the initial end of the window, as the code does.

*rcopy* (`rcv`). A handler that reads a packet is one step with all it does:
write or store, send RR or SREJ, next state. `handle_flush` reads nothing and
sends several packets, so it is a step per turn of its loop and one for its
end: the child may run between.

*Time-outs.* In `Transfer` a poll may time out whenever its queue is empty, that
is, however quickly. In `TimedTransfer` the polls have clocks: a tick of time passes
when nobody has anything to do, `Second` ticks make a second, the child's poll ends
after one second and rcopy's after `ClientSeconds`, and not before. `MaxLag` ticks may
also pass while a process has something to do, so polls can begin at any distance from
each other. `Session` has no clocks: its prompt time-outs are those that come when
nothing else can happen. In both, a child that spins in `handle_send_data` (`Spinning`:
`current` beyond `highest`, see `window_spin`) holds up nobody: time goes on and rcopy
gives up, as it does on a child that has gone.

*Checksum.* The two calls of `in_cksum` on a packet, by its sender and by its receiver,
run over the same positions, so a step of `Checksum` is a turn of both loops. The bytes
are chosen as the loops reach them, one of them may be inverted on the way, and the
checksum field is guessed at the start: the packets that exist are those for which the
guess is what the sender's loop returns.

*The output file* (`out`) is the sequence of chunks written; a payload of no
bytes leaves it as it is.

*The file name exchange.* A request has no payload, because every repetition is
the same; what `processFilenameAck` sees of a packet is whether it is long enough to
be a request, so `Listener` tells requests from rcopy's other packets by their flag.
A packet too short ends the process (`CRASHED`): its name length is negative and
`strncpy` is called with it. The answer comes first (`AcceptRequest`), the fork after it
(`Fork`), and the fork may fail (`ForkFailure`, always at `MaxChildren`): `FORK` is the
place between the two. `RefuseForWant` is an `fopen` that fails for want of a
descriptor, of which the process loses one with each request. In `Exchange` the packets that count
as a yes are those of `process_filename_response`: FILENAME_ACK and DATA; the DATA
is thrown away.

*Addresses.* Only `Session` has more than one process that rcopy talks to. Each has
a queue of its own; `peer` is the address rcopy sends to, which each `recvfrom`
replaces before the packet is looked at, and `origins` holds the sender of each
packet in rcopy's queue.

*Kills and restarts.* The first process has no other end than a kill, and `test.sh`
kills and starts it between its tests. In `Session` any process may be killed at any
moment, the first one also between an answer and its fork; a killed rcopy is in `DONE`, a
killed child in `KILLED`. A first process that has gone may be started again, with an
empty queue, because the new process has a new socket on the same port; its children have
sockets of their own and go on. `crashes` holds what has happened, at most `MaxCrashes`
events.

*Processes of the server.* In `ServerProcesses` the protocol is left out and what a
fork copies is kept: descriptors (the lowest free one is given), the poll set, and
the error injection. `Environments` are the values of
`CPE464_OVERRIDE_ERR_DROP` and `_FLIP` by what the parser makes of them, and whether
`_SEEDRAND` is set. A text without a number, the empty text included, asks for
random events, as `-1` does. Which random event is drawn for a packet, if any, is a
choice, so the rate is left out. `port` and `debug` do not reach the
protocol: `networks.c` calls `bind` and `socket` directly.

Left out: printing, `eof_seq_num` (a copy of a field of the packet in hand),
`buffer_free`, packets with flags these processes do not send.

## Settings

Some properties hold on any network and for any sizes. Others need conditions that
the code does not enforce, and the models name them:

- `Sheltered`: acknowledgments may be lost but not damaged, because a damaged one
  makes the child resend a packet that may not be outstanding; and packets are not
  duplicated or reordered by the network. Data packets may be lost and damaged,
  acknowledgments lost, queues may overflow, and time-outs may come at any moment.
- `FitsRing`: `BufferSize <= WindowSize`. The initial end of the window is the
  buffer size, and only then does it fit the ring.
- `Paced`, in place of `FitsRing`: the child has not sent more than a window of
  chunks beyond the last acknowledgment it read. Most calls have a buffer size
  far larger than the window and depend on this; `PacedTransfer` says what holds
  until it fails (`overrun`).
- Standard input is not hung up, for the poll set: `poll` reports a hang-up of
  descriptor 0 through every entry that was removed or never added.

The violation runs show what goes wrong when a condition is dropped.

## Runs

Every bound is a constant: `WindowSize`, `BufferSize`, `NumChunks`, `MaxAttempts` and
`MaxRequests` (10 in the code), `QueueCap` (a socket queue), `MaxFaults` (how many
packets meet a bad fate), `MaxChildren`, `MaxCrashes` (kills and failed calls), `Second`
(ticks), `ClientSeconds` (10 in the code) and `MaxLag`, `ByteSize` (256 in the code) and
`Lengths`; for `ServerProcesses` also `MaxRounds`,
`MaxMessages`, `MaxDescriptors`, `MaxTime` and `PollSetSize`. With a window of three
there is a slot before and after a wrong one; with five chunks slots are used
twice, and the EOF packet falls on a slot that was used. Three faults are a loss,
the loss of its repair and one more. A second child is what a repeated request can
do; a third adds nothing that a second does not. `PollSetSize` 3 with sockets 0 and
3 has a descriptor inside the set and one exactly at its size. Two kills are one of each
end, or of a process and of the one that took its place. With two ticks to a second polls
can begin half a second apart; four attempts and `ClientSeconds` 4 keep the code's
relation of ten times one second to once ten, and five faults are one more than the
attempts. Bytes of two bits are the smallest for which a packet is shorter than there
are words, as in the code; the lengths are odd, even and that of an RR.

| Run | Specification, setting | What it shows |
| --- | --- | --- |
| `fifo_safety` | `FairSpec`, sheltered, window 3, 5 chunks, 3 faults | the output file is a prefix of the file, complete on exit; both rings keep what is needed; the window is never overrun nor moves back; `Transfer` implements `FileCopy`; both processes end and acknowledgments are read (`FairSpec`); the invariant of the proofs |
| `any_network` | `Spec`, all faults, window 3, 5 chunks | `AckedWasReceived`: no RR or window edge ahead of what rcopy expects; `KeptForRcopy`: though late RRs move the window back, no slot rcopy still needs is reused; `NoEarlyExit` |
| `paced_safety` | `PacedSpec`, window 3, buffer size 6 | as `fifo_safety`, until the child overruns its ring |
| `timed_transfer` | `TimedSpec`, 5 faults, 4 attempts | the file after any one fault; a loss costs a second at most; rcopy gives up before the child only if as many packets were lost as the child has attempts, and otherwise only in the one gap nobody repairs; the child goes in time |
| `session_drops` | `PromptSpec` of `Session`, 3 packets lost anywhere, 2 kills or failed calls | a true answer, a child for a request and another only for a dead one, a correct file, an end of all processes, a listener that goes on; the file after any one loss; without a loss no failure but for a process that died |
| `slow_answer` | `SlowAnswerSpec`, a packet lost or damaged, a kill or a failed call | with two children at once: `ChildrenAcked`, `NoEarlyExit`, and `SessionInv`, the invariant of the proofs |
| `server_processes` | `Spec` of `ServerProcesses`, every environment | a child finds its packets and nothing else; overrides win in every process; drops and flips stay equally likely |
| `checksum` | packets of 7, 8 and 11 bytes | a packet is accepted as it was sent, and rejected with one byte inverted |
| `window_spin` | `FairSpec`, no faults, buffer size 4, window 2 | violated: `AcksAreRead` |
| `damaged_ack` | `Spec`, acknowledgments damaged | violated: `Integrity` |
| `second_answer` | `PromptSpec` of `Session`, a damaged FILENAME_ACK | violated: `SessionIntegrity` |
| `parent_crash` | `SlowAnswerSpec`, no faults | violated: `KeepsListening` |

Deadlock is checked in every run. The states without a step of a process are named:
`Terminated` (both have exited), `Idle` (nothing but the listener is left, and it has
nothing to read) and `RoundsExhausted` (the bound of `ServerProcesses`).

### Fairness

`FairSpec` assumes weak fairness of the child and of rcopy: each is a process the
operating system keeps scheduling, and each of their steps ends (a poll has a
limit). Nothing is assumed of the network. `TimedSpec` assumes the same of the two
processes, and that time goes on (`Tick`). That no time passes while a packet waits to be
read, beyond `MaxLag` ticks, is the one assumption about speed: a packet and its answer
are fast against a second, as on the machines the test script uses. It says nothing
about lost packets, and nothing of a child that spins, beside which time goes on.
`TimedSpec` has no duplication and no reordering.

`PromptSpec` of `Session` is the same assumption without clocks. A time-out of the child
(one second) comes only when no packet is on its way to it and none will be sent without
it, one of rcopy's data phase (ten seconds) only when each child has gone or spins, and one
of a request (one second) only when nothing is on its way and the listener and all children
wait or spin; `SlowAnswerSpec` lets the answer to a request take longer than that. The processes
and the listener are scheduled fairly, and a process that is about to fork forks or fails to.
No kill is fair, and no restart: nobody need start the first process again. Safety is
checked without promptness, except where it is about it (`TimedTransfer`,
`GivesUpForTheDead`) or where two children make it false (`OneChild`, `SessionIntegrity`,
`ServedAfterOneLoss`, `KeepsListening`).

### What the violated properties say

- `window_spin`: `server.c:384` passes the buffer size as `highest`. With, say,
  window 10 and buffer 1000 the child sends up to 1000 chunks before it asks
  for an acknowledgment; the first RR then sets `highest` behind `current`, so
  both loops of `handle_send_data` are skipped and the child spins without
  polling. (With a short file, or with a drained RR before each chunk, it does
  not get that far, which is why the tests can pass.) It takes `BufferSize >=
  WindowSize + 2` and more chunks than the window. rcopy then gives up after ten
  seconds, with nothing lost and nobody dead, and the child never goes: with a window
  of 1 and a buffer of 3 TLC finds `GivesUpAfterChild`, `ChildLeavesInTime` and, in a
  session, `GivesUpForTheDead` violated. So the runs that check these have equal sizes
  and the theorems about them assume that the buffer size fits the window.
- `damaged_ack`: `server.c:243` resends `window->lowest` also when everything sent
  is acknowledged. The slot holds an older chunk, or none.
- `second_answer`: `rcopy.c:382` looks at no flag but EOF. After a damaged
  FILENAME_ACK rcopy asks again, takes the first child's DATA for the answer, and
  the second FILENAME_ACK, sequence number 0 and no payload, is written as chunk 0.
- `parent_crash`: the same late FILENAME_ACK makes the well-known port the address
  rcopy acknowledges to, and `server.c:117` computes a name length of -4 for an RR.

Three more observations have no run of their own. In `BUFFER` rcopy never repeats its
SREJ, and in the EOF phase the child resends nothing but the EOF: the loss of an SREJ
and of its repair near the end of the file leaves the transfer incomplete, which is
the one exception `GivesUpOnlyInGap` allows. The number of an RR is taken without a
test that it moves forward, so a reordered RR moves the window back, possibly below
`current`, where the child spins; `Sheltered` excludes it, and `any_network`, which has it,
shows that at least no chunk is overwritten that rcopy still needs. And `ServedAfterOneLoss` needs a file that is not empty: of an empty
one, the child sends only EOF, which `filename_exchange` rejects but whose sender it
repeats its request to.

## Proofs

All theorems hold for every value of the constants that satisfies the
assumptions the modules name (sizes positive, file length and faults natural
numbers; for `Session` also at most two children).

*One step.* `BasicTheorems` says what one step of the child (`ServerNextEffect`) and one
of rcopy (`ClientNextEffect`) do to the queues, whatever other packets are in them:
types, which packets are added, where the lower edge of a window comes from, when rcopy
exits. They are proved action by action from lemmas on what a send, a receive and a ring
operation return. The proofs about a transfer use them directly, those about a session
through instances.

*On any network.* `TypeCorrect` (`TransferProofs`) follows from the two.
`AckedWasReceivedAlways` and `NoEarlyExitAlways` need one
strengthening, `EofIsLast`: an EOF packet on its way has the number of chunks as
its sequence number and was sent after the whole file was read. With it an
EOF that rcopy takes for the last one is one beyond all chunks. `KeptForRcopyAlways` adds
to it that neither `current` nor `highest` is more than a window ahead of what rcopy
expects (`KeptInv`), however far back an RR moved the window: so a chunk only takes the slot
of one that rcopy has passed. It assumes `FitsRing`, for the initial `highest`.

*In the sheltered setting.* `Integrity` is far from inductive: it says nothing
about the packets that are coming. `ShelteredInv` adds, in named parts, a chain
of inequalities from the lower edge of the window over the acknowledgments in
flight (ascending, at most the number rcopy expects) to the data packets in
flight (genuine, less than a window ahead of it) and the contents of the two
rings. Two numbers less than a window apart share a slot only if they are equal
(`SlotInjective` in `BasicTheorems`), so neither ring can lose a chunk.
`RingInv`, which is `ShelteredInv` with the invariants of any network and
`WindowBound`, is proved from one lemma for each action of the child and of rcopy,
and uses `TypeOK`. From it follow `ShelteredInvAlways`, `IntegrityAlways`,
`CompleteOnExitAlways`, `RetainedForResendAlways`, `NeverOverrunAlways`,
`BufferedIsAheadAlways`, `WindowMovesForwardAlways` and, step by
step, `TransferImplementsFileCopy`. `Sheltered` and `FitsRing` are assumptions of
these theorems, not of the modules.

*Any buffer size.* The lemmas use `FitsRing` in one place, to know that a step of the
child stays `Paced`. The last part of `TransferProofs` takes that from `overrun =
FALSE` instead and proves `PacedInvAlways`, `PacedIntegrityAlways` and `PacedWindowAlways`
for every buffer size.

*In time.* A timed transfer is a transfer (`TimedIsTransfer`), so the theorems above hold
of it. `TimedProofs` adds what the clocks can have reached, for every `Second`,
`ClientSeconds`, `MaxLag` and number of faults:

- `NeverSpins`: with `FitsRing` the child does not spin, because the RRs in its socket are
  in order and none is behind its window (`InStep`), so `highest` is never pulled below
  `current`. `ChildLeavesInTimeAlways`, `GivesUpAfterChildAlways`
  and `GivesUpOnlyInGapAlways` need it.
- `ChildLeavesInTimeAlways`, with `FitsRing`: once rcopy has gone the child works off its
  socket, which takes no time, and then counts (`LeavingInv`).
- `BothWaitForLossAlways`: the child and rcopy both wait only if a packet was lost, when
  a queue holds a window (`RoomForWindow`) and `MaxLag < Second` (`ShortLag`). It rests on
  `NoLossInv`: while nothing has been lost the packets on their way to rcopy are the ones it
  expects next, without a gap, the acknowledgments are one for each packet it took, and
  what the child has sent is either way on its way (`Conserved`).
- `GivesUpAfterChildAlways`: a wait of rcopy is shorter than a second for each packet lost
  (`WaitingInv`), so with `MaxAttempts <= ClientSeconds` the child goes first, or as many
  packets were lost as it has attempts. It assumes `FitsRing`, `RoomForWindow` and
  `ShortLag`.
- `GivesUpOnlyInGapAlways`, in the sheltered setting: every attempt of the child costs a
  loss. A time-out finds both queues empty and rcopy waiting, so what follows is one packet
  and its answer; `FullRetry` and `EofRetry` list where the two can be, and that one more
  has been lost than attempts were counted when they are nowhere. The exception is the
  gap in the EOF phase. The proof uses `RingInv` and needs a queue of at least two packets.

*After one fault.* `ArrivesAfterOneFaultAlways` (`LossProofs`) is the safety half of
`CompleteAfterOneFault`: with at most one packet lost or damaged, rcopy does not end without
the whole file. `NoLossInv` describes the transfer until the fault; after it, the state is
in one of six modes, each of which says packet by packet what is on its way. `Straight`:
all in order but for one packet that rcopy has not missed yet, or for one acknowledgment.
`Damaged`: a damaged packet is still in the queue. `GapAsked`: rcopy has missed it and
buffers what comes behind it. `GapResent`: it is on its way again. `Flushing`: rcopy writes
what it buffered. `Again`: the child has sent its lowest packet again after a time-out.
There is one lemma for each mode and process, and what holds in all modes is that nobody
waits for the second time: the child has not counted more than one time-out, and rcopy's
clock is that of `WaitingInv`. So the theorem needs `MaxAttempts >= 2` and `ClientSeconds
>= 2` (10 in the code), because one fault does cost one of each. Of the sockets it asks for
a window and one packet more (`RoomForRepair`), the packet that is sent again.

*A second for each loss.* `LossCostsASecondAlways` (`LossProofs`) compares the time a whole
run has taken with all that was lost in it, so its invariant says of the losses which have
been paid for. `Debt` counts what rcopy still misses: the chunks that were sent and that it
neither holds nor has on their way to it (`Holes`), and one more if the child waits for
an acknowledgment that nothing on its way will make rcopy repeat (`Owed`). `DebtInv`: the
time passed and a second for everything owed are no more than a second for each loss, the
lag, and what the poll both are waiting in has lasted. Only a loss adds to the debt, and
adds one; a step of either process adds nothing, and a time-out, which is the only thing
that costs a second, finds something owed and sends it. There are two ways out of
the invariant, and none back: rcopy waits in `BUFFER` for a chunk the child will not send again
(`GapLost`), or the child has gone while it waits (`Alone`). From both rcopy only gives up.

Besides the hypotheses of the sheltered setting, `FitsRing` and `ShortLag`, the theorem
assumes that no packet finds a socket full (`[]SocketsHold`; the second acknowledgment of
`handle_flush` included), as a packet an overflow drops is not one the network lost. The
program needs that too: with `QueueCap = 1`, a window of 3, a buffer of 3 and 5 chunks,
TLC finds a file that takes longer than its losses. In `timed_transfer` the queues
reach 5 and 3 of their 8 places. TLC checked `DebtInv` for windows of 1 to 4, files of up to
7 chunks and 1 to 4 attempts before the proof.

*A session.* `SessionProofs` proves `TypeCorrect`, `ChildrenAckedAlways`,
`NoEarlyExitAlways` and `AnswerIsTrueAlways` under `Spec`, that is for any losses, damage,
kills, failed calls and time-outs, and `SlowAnswerSafe` carries them over to the
specifications of the runs. The inductive invariant `SessionInv` says of each child that
it has sent what it has read, is past the end only at the end of the file, was born only
for a file that exists, and that neither its window nor an RR in its queue is ahead of
rcopy (`ChildInv`); of the packets on their way to rcopy that an EOF has the number of
chunks and was sent after the whole file was read by some child, that data and a
FILENAME_ACK mean there is a file, and a FILENAME_ERROR that there is none or that it
could not be opened (`NewsInv`). The last conjunct is what makes `AnswerIsTrue` inductive:
an answer may be on its way while its sender is killed and started again. There is one
lemma for each kind of process (`ChildAKeeps`, `ChildBKeeps`, `ListenerKeeps`,
`ClientKeeps`) and one for kills and failures (`MisfortuneKeeps`).

*A prompt session.* What `PromptProofs` proves of `PromptSpec` has two
hypotheses: packets are lost but not damaged (`OnlyLost`), and fewer are lost than the
answer and every chunk of the first window (`FewLosses`: `MaxFaults <= NumChunks` and
`MaxFaults <= BufferSize`). Without the first, `second_answer` is a counterexample, and
without prompt time-outs `parent_crash`; without the second, a child whose whole first
window is lost is left behind when rcopy asks again. Kills, failed calls and restarts are
not restricted.

`PromptInv` says that what one request brought about is over before rcopy asks again: the
listener has at most one request and no other packet (`ListenerInv`), a second child is born
only when the first was killed (`BirthInv`), until rcopy has an answer nothing has been
sent to a child, and if nothing is on its way to rcopy then the answer and every chunk
read so far were lost (`AskingInv`, the part that counts faults), and once it receives,
neither a request nor an answer is left (`ReceivingInv`). `KeepsListeningAlways` and
`OneChildAlways` follow.

`SessionIntegrityAlways` needs the proof about a transfer once more, inside a session.
`PromptProofs` instantiates `LossProofs`, and with it the other theorems about a transfer, with the numbers and the
queue of the child that serves, before its birth those of a child that has yet to begin,
after a kill those of one that has stopped; the answer of the listener, which the transfer
knows nothing of, is a packet that cannot be read. `ServedInvAlways` says that `RingInv` holds
of this view until rcopy has ended: every step of the session is a step of the view, or
takes a packet from its queues, or stops a process, or leaves it as it is, and
`TransferProofs` has a lemma for each (`RingStep`, `RingQueue`, `RingStop`,
`RingBirth`). `FitsRing` is a hypothesis here as it is there.

`GivesUpForTheDeadAlways` says of the same view that it is a transfer without a loss.
While nothing is lost and the first child lives (`UnharmedInv`), the answer of the listener
is the first packet in rcopy's queue and all that the child has sent so far is behind it
(`BehindAnswer`); once rcopy has read it, `NoLossInv` of `TimedProofs` holds of the view. So
the child never waits while rcopy does, neither of them counts a time-out, and rcopy ends
with the file. `HeardInv` is the part before that: the first request is answered unless
the listener is killed over it. Besides `OnlyLost` and `FewLosses` the theorem needs
`BufferSize <= WindowSize`, or the child may spin, and
`RoomForAnswer`: a socket holds a window, and the answer with a first window. That is a
condition on the program, not only on the proof: with `QueueCap = 1` and `BufferSize = 3`
the first window overflows the socket that still holds the answer, no packet is lost on the
network, and TLC finds rcopy giving up.

`ServedAfterOneLossAlways` adds one loss to it. Before rcopy has read its answer, the answer
and the first window of the child are on their way, one of them missing at most
(`FirstWindow`), from then on the view is in one of the modes of `LossProofs`
(`FileStillComes`). If the answer is the packet that was lost, rcopy takes
the first DATA packet for it and throws it away: from then on that chunk is the missing one. `HeardOnceInv` counts the requests: a second one means that the first, or its answer
and all behind it, was lost, so what the second brings about arrives. The theorem needs
two attempts and two requests at least, and room for a window and one packet more in a
socket (`RoomForOne`). `FewLosses` excludes the empty file, for which the property is false
(see above). TLC checked the invariant on seven small settings before the proof.

*Checksum.* `GenuineAcceptedAlways` and `FlipDetectedAlways` hold for every even size of a
byte and every length below a word. Adding back the carries (`Folded`) leaves a
sum as it is modulo the largest word, so the answer is 0 exactly for a multiple of it
other than 0. `ChecksumInv` says that the receiver's sum less the sender's is the
field, if no byte was inverted, and otherwise misses it by less than the largest word and
not by 0, which is no multiple.

*Processes of the server.* `ChildFindsItsPacketsAlways` (`ProcessProofs`) rests on
lemmas about the four operations of the poll set: a set has at most one descriptor
it asks about, growing keeps that, removing leaves none, and `pollCall` on such a
set reports the descriptor exactly if it is readable. `OverridesWinAlways` needs the
strengthening that the random events of every process are among those the
environment leaves possible. `MixIsKeptAlways` counts the drops and the flips among the
random events as cardinalities of sets of positions, of which an appended event adds one
(`AppendCounts`), and `ProcessesTypeCorrect` puts the parts together. All hold for every size
of the poll set, every number of inherited descriptors, every drop list and any number of
rounds and children.

*Model-checked only.* `Termination`, `AcksAreRead`, `SessionEnds` and that rcopy ends in
`CompleteAfterOneFault` are liveness properties under fairness, which this prover
does not handle.

## Not modelled

- Overflow of `int` window edges; sequence numbers are natural numbers.
- Several clients at once: `Session` has one rcopy, so no requests of different
  clients in the listener's queue.
- A hung-up standard input (`pollLib.c` returns the lowest descriptor).
- The number of descriptors: the first process leaks one with each request, and
  `Session` has what that leads to, one `fopen` that fails, but no count of them.
- The rate of the error injection and its random numbers; that children of one second
  have the same seed is seen in `ErrorInjector` and is not a property.
- Drop lists as fates of single packets of a transfer: `Network` lets any packet meet any
  fate, so a list only removes behaviours. (Test 6.1 of `test.sh` exports a list that
  its `run_copy`, line 104, unsets again.)
- Two inverted bytes in one packet: `errorFlipBits` inverts one, and more than one can
  escape a sum of words.
- The NOTE of `checksum.c` lines 38-41 on packets of odd length: the lines after the
  loop handle them, and that is what `Checksum` models.
- The functions no program here calls: `send_Err`, `recv_Mod` and the TCP part of libcpe464.
- Sockets, name lookup, argument checks, the TCP examples.

## Plan

Done: the transfer, the whole session with kills and restarts, the processes of the
server and the checksum, each with its proofs, and the transfer in time.

What is left would be, in this order:

1. Two copies of rcopy and one listener, for the requests of different clients in one
   queue. `Session` has the variables of one rcopy; the lemmas of `BasicTheorems` serve any
   number.
2. A hung-up standard input as a setting of `PollSet`, and what a child and rcopy then do.
