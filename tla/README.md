# WALI: models, checks and proofs

WALI, the WebAssembly Linux Interface, is a thin system call interface for Wasm
modules. The repository holds the specification of the interface (type layouts and
system calls, in Python), generators that turn it into bindings, a differential test
suite, toolchain scripts, and applications that are compiled for WALI, the largest of
them OpenSSH. The engine and the C library are git submodules and not part of it.

This directory models the parts of the repository that have logic of their own. TLC
checks the models on small instances and TLAPS proves the main safety properties for
all values of the constants.

## Inventory

| Part | State | Operations | Modelled by |
| --- | --- | --- | --- |
| ABI type registry, `spec/wali/spec/abi.py` | `struct_defs`, the layout being computed | one `StructDef(...)` after another, `resolve_size`, `resolve_alignment`, `validate` | `AbiLayout`, `AbiTables` |
| MQTT client, threads, `applications/mqtt-app/mqtt.c` | three semaphores, `deliveredtoken`, the sample buffers, every thread's position | `main`, `subscribe_thread`, `publish_thread`, `delivered`, `msgarrvd`, `connlost` | `MqttApp`, `StopAndWait` |
| MQTT client, statistics, same file | the samples, index, accumulator, counter | `cmpfunc`, `summary_stats` | `RttStats` |
| Differential test runner, `tests/run_tests.py`, `tests/common/hooks_main.c`, `wali_start.c` | loop positions, exit codes, fixtures and environment files on disk, results | `run_test_case_execution`, `run_test_suite`, `main`, the hooks wrapper | `TestRunner` |
| System call table, `spec/wali/spec/syscalls.py` | constant tables | argument reduction | planned |
| Binding generators, `spec/autogen.py` | none, they write text | classification of arguments per target | planned |
| Toolchain generator, `toolchains/gen_toolchains.py` | none | renders templates | not modelled |
| Makefiles, setup and binfmt scripts | files | calls of external tools | not modelled |
| Unit tests, examples, compiler ports | none | straight lines of system calls | not modelled |
| OpenSSH, session channels: `channels.c`, `nchan.c`, `session.c`, the two loops | per end: channel states, buffers, windows, descriptors, cleanup callback; the command | open, exec, data, EOF, EOW, CLOSE, exit status, window adjustments, timeout | `SshChannel` |
| OpenSSH, packets and keys: `packet.c`, `kex.c`, `kexgen.c`, `dispatch.c` | per end: keys, sequence numbers, compression, queue, dispatch table | send, receive, (re)keying, handover to the privileged process | `SshTransport`, `PacketStream` |
| OpenSSH, authentication: `monitor.c`, `monitor_wrap.c`, `auth2*.c` | two copies of `Authctxt`, the monitor's permissions, terminals | requests of the child, methods, verdicts, terminals | `SshAuth` |
| OpenSSH, SFTP: `sftp-client.c`, `sftp-server.c` | requests in flight, marks, errors, the file | download, upload, crossload, read, write, truncate, interrupt | `SftpTransfer` |
| OpenSSH, listener: `sshd.c`, `srclimit.c` | startup pipes and flags, counts, per-source table, pending signals | the accept loop, restart, children's reports | `SshdListener` |
| OpenSSH, the rest | agent, multiplexing, configuration, keys, tools | | not modelled, see below |
| x11test, submodules | | | not modelled |

How the parts interact. The registry is loaded first; the generators read it together
with the system call table and write bindings for the engine and the C library. The
unit tests are compiled twice, natively and against those bindings, and the runner
compares the two. The MQTT client is one of the applications: it uses threads,
semaphores and a library that calls back from a thread of its own, so it exercises the
part of the interface that is hardest to get right, and its own logic is concurrent.
OpenSSH is the other large application: a listener that forks a monitor per connection,
which forks an unprivileged child; the two talk over a socket pair, the child talks to
the client over packets, and channels and SFTP run inside the packets. It exercises
processes, signals, pipes, polling and terminals.

What is hard, and what makes each part correct:

* *Registry.* A layout is computed once, from what is known at that moment. It is
  correct if fields do not overlap, are aligned in every element of an array, and stay
  what their types resolve to; a load must come to an end. Explicit offsets, packed
  structs, nested structs, duplicates and alias cycles are the cases that matter.
* *MQTT threads.* A spin loop, a semaphore and a callback hand tokens over; semaphores
  are counted up and down by threads that do not know of one another, and are destroyed
  while the library may still call back. Correct means: no token is lost, a publisher
  goes on only after its own delivery, samples go into allocated memory and are complete
  when the statistics are computed, nothing is used after its destruction, and the
  process ends.
* *Statistics.* Unsigned arithmetic with options nobody checks. Correct means: reads
  inside the buffer, no division by zero, and results that lie where the samples lie.
* *Runner.* Early returns between setup and cleanup. Correct means: a run starts from a
  clean fixture, what is left behind is reported, and the exit
  code tells the truth.
* *Channels.* Two loops that only see each other's packets close a channel from both
  ends, while a command, its pipes and a user do what they like. Correct means: no packet
  breaks the protocol, no output and no exit status is lost, the two views of a window
  agree, and a finished session ends.
* *Packets and keys.* Both ends may ask for new keys at any time, packets wait in a queue
  meanwhile, and the server's state moves to another process
  half way. Correct means: every packet can be decrypted and is expected, the order is
  kept, the session id never changes, and a rekeying ends.
* *Authentication.* The monitor trusts nothing its child says, and both keep score.
  Correct means: a login was earned before the monitor, the two agree, a child that
  follows its program is never taken for an attacker, and terminals are given back.
* *SFTP.* Many requests in flight, answers short, reordered or bad, an interrupt. Correct
  means: success is only reported for a complete copy, what is left of a failed download
  can be resumed, and a transfer ends.
* *Listener.* Counts kept by what pipes say, signals between tests and waits. Correct
  means: limits hold, no signal is slept through, a restart waits for exactly the children
  it must wait for, and slots are freed.

`PROJECT.json` lists the hazards one by one, each at its line, with the properties that
cover it.

## Modules

### `AbiLayout`: the load of the type registry

Importing `abi.py` executes `StructDef` statements in order. `BeginStruct` enters
`__post_init__`; `NextField` begins an iteration of the loop of
`compute_struct_layout`; `ResolveRecurse`, `ResolveSizeReturn`, `ResolveAlignmentReturn`
and `ResolveRaise` are the calls of `resolve_size` and `resolve_alignment`, one step
each, because both only recurse in tail position (up to a factor that `walk.mult`
accumulates); `PlaceField` is the rest of the iteration; `FinishStruct` checks the two
assertions and registers the struct; `Validate` is `validate()`. Every exception leads to
`"failed"`. Python's recursion limit is the constant `RecursionLimit`. The functions
`resolve_size` and `resolve_alignment` state the same recursion as a whole; the
invariant `LayoutsCoherent` compares the two.

`(x + a - 1) & ~(a - 1)` is written as a division (`AlignUp`); `MCAbiLayout` has an
assumption that compares it with the mask on every alignment that occurs.

`AbiTables` holds the tables `abi.py` really has: primitives, aliases, arrays and the
structs in their order, with their `expected_size`. `MCAbiLayout` loads them and then any
two further definitions.

### `MqttApp` and `StopAndWait`: the threads of the MQTT client

One action per statement that touches shared state. `main` is a position and a loop
counter; the subscribers and publishers are functions from thread to position; the
callback thread of the library is `cb`, since the library runs one callback at a time.
A library call succeeds only while the connection lasts (`CallSucceeds`), may fail if
`MayFail` allows it, and then `exit` ends the whole process, as `SUBSCRIBE`,
`UNSUBSCRIBE` and `PUBLISH_MESSAGE` do.

* Joining a thread a second time is undefined; the model lets the call return or the
  process die.
* Using a semaphore outside its lifetime is undefined; `misused` remembers it and the
  model goes on with the last value.
* `stored` (tokens `delivered` stored and no publisher has read) is a history variable.
* External, modelled from how the code uses it: the broker and the network
  (`BrokerMessage`, `BrokerKill`, `ConnLost`, `CbAck`), and message ids, which the
  library hands out in turn so that one is not reused while it is still in use
  (`FreshTokens`).
* Left out: payload bytes, clocks, logging, option parsing.

`StopAndWait` is the abstract protocol the handshake is meant to be: publish, deliver,
acknowledge, in turn. `MqttApp!Protocol` instantiates it for one publisher: a message is
outstanding while the publisher spins or is about to post, and the slot is full from the
store of the token until the post.

### `RttStats`: the statistics

The width of a word is the constant `WORD`; indices and results are taken modulo it and
the accumulator modulo its square, as `uint32_t` and `uint64_t` are. The samples are
differences of two clocks cut to a word, so that a negative round trip is a large sample,
as in `msgarrvd`. `Qsort` yields the order of `cmpfunc`, or any permutation where the
subtraction in `cmpfunc` overflows. `max_iter`, `rtts` and `pos` are the code's
`MAX_ITER`, `rtt_ts` and `i`, under names that `MqttApp` does not have. The loops take one step per iteration; `"outside"`
and `"divided"` are the two places where the code is undefined. `sqrt` is the integer
root its result is cut to.

### `TestRunner`: the differential test runner

Three nested loops (tests, engines, CMD lines) around the steps of
`run_test_case_execution`. The wrapper of `hooks_main.c` runs `test_setup` and then
becomes the test by `execvp`, so that its exit code is either the setup's or the test's.
Every step may go wrong the way the code allows: a missing binary or engine command, a
setup or a cleanup that fails (half way or not), a timeout in the setup or the test,
output that is not UTF-8, a signal. `wali_start` is what `wali_start.c` makes of the
results of `wali_init`, `test` and `wali_deinit`, cut to the eight bits of an exit status;
the first and the last are the engine's and return 0 natively. `HookValues` has no multiple
of 256 but 0, as no hook of `tests/unit` returns one: such a failure would look like a
success.
A fixture is identified by the test and the CMD line that make it.

### `SshChannel`: a session channel

A handler of `channels.c` or `nchan.c` is an operator from the channel's record to its
record after the call, under the handler's own name; packets it sends are appended to a
field. A packet that arrives is one `Receive...` action with everything its handler does.
`Turn` is the rest of an iteration of `client_loop()` or `server_loop2()` in the order of
the code: `channel_output_poll`, reaping the command (`session_exit_message`, which sends
the status of a command that exited and the signal of one that was killed), preparing
the poll (where the inactivity timeout closes a channel), reading and writing the
descriptors, adjusting the window, collecting dead channels. Which descriptors are ready
and how much a call reads or writes is any choice. Data is counted and not spelled out.
A killed command (`"killed" \in broke`) leaves the client without a status: it ignores
`exit-signal` and ends with -1 (`clientloop.c:1493`). The third branch of
`session_exit_message`, for a status that is neither, is in the operator, but
`waitpid(-1, &status, WNOHANG)` returns no such status and no action passes one.
External: the command and the user (`WriteStream`, `CloseStream`, `ChildExit`), the
connection.

### `SshTransport` and `PacketStream`: packets and keys

The state of a peer is a record with the fields of `session_state` and `kex` that matter:
keys, sequence numbers, the position of the compression streams, the queue, `rekeying`,
the flags of `struct kex` and the part of the dispatch table that key exchanges change. A
key is the pair of cookies its hash is computed from, so that two ends have the same key
only if they hashed the same two KEXINITs. `Receive` reads a packet, decrypts it (or
fails) and runs its handler to the end. `CheckRekey` and `ManualRekey` ask for new keys;
any packet may do so too. `Handover` moves the state from the unprivileged process to the
privileged one, as `ssh_packet_get_state` and `ssh_packet_set_state` do; between the two
nothing is read. Authentication is one request and its answer here.

`PacketStream` is what the layers above rely on: two queues, in order, nothing lost. The
refinement mapping takes as pending what is in the queue of one end followed by what is
on its way.

### `SshAuth`: authentication with privilege separation

The monitor and the child each are a record. A call of the child to the monitor blocks
until the answer has come, so that a request of the client is one action: the child's
`input_userauth_request` with all the requests it makes of the monitor. `monitor_read`,
the permission table and each `mm_answer_...` have operators of their own. Between two
packets either process may end: the client leaves, the grace time is over, or the child
becomes faulty (`BecomesFaulty`) and from then on sends any request in any order (`Stray`).
`earned` is a history variable with the methods and keys the monitor verified. After the
login the same actions continue with terminals. A list of `AuthenticationMethods` keeps its
place when an earlier one is dropped, where the code moves it up; the order in which the
lists are visited is the same. The build has neither PAM, BSD auth nor GSSAPI.

### `SftpTransfer`: copying a file

One client, reading from a server or a local file and writing to a server or a local file,
for the three kinds of transfer. A file is its length and the positions that hold what the
source holds there. The loops take one step per iteration or per answer; the last part
(`Check`, `Truncate`, `Close`) is three steps, because `interrupted` may change between
its reads. A failing write may have written a part, a truncation may be refused, and a file
that is written may fail when it is closed, without what was written last having been
stored (`Unstored`). Requests that are made with nothing else in flight (stat, open,
fsetstat, close) belong to the step that makes them.

### `SshdListener`: the accept loop

`Top`, `Poll`, `Accept` and `Exec` are the stretches of the loop between the points at
which a signal can come in. A connection stands for its socket, its pipe and its child. A
signal is pending while it is blocked and is received when `ppoll` unblocks it. `Exec`
replaces the process: the new one knows nothing of the old one's children. `accept`,
`pipe`, `fork`, `socketpair` and `execv` may fail. The random early drop is a choice
among what `arc4random_uniform` can return. The per-source entry of a connection is
identified by its descriptor, for which the model takes the slot. `AllowUncounted` is each
`return 1` of `srclimit_check_allow` that stores no entry; the connections in `Unnamed` are
those for which the address cannot be had, and `uncounted` remembers who got in that way.

## Runs

All runs say `CHECK_DEADLOCK FALSE`: each of these programs comes to an end.

| Run | Instance | Shows |
| --- | --- | --- |
| `abi_layout` | the real tables, then two structs of one or two fields with an alias cycle, arrays, an inline array, a pointer and an unknown name; explicit offsets, packed, expected sizes, duplicates | The tables load and validate (`TablesLoad`); `FieldsDisjoint`, `FieldsAligned`, `LayoutsCoherent`; the load ends (`LoadEnds`). |
| `mqtt_pair` | one subscriber, one publisher, QoS 1, two samples, two pubkills | `TokenVisible`, `SamplesComplete`, `SemaphoresAlive`, `Terminates` (once `MAX_ITER + 1` messages have come), and `StopAndWaitHolds`, the refinement with its fairness. |
| `mqtt_many` | two of each, QoS 1, failing calls, lost connections | `HandoverExclusive`, `PostAfterDelivery`. |
| `rtt_stats` | words of 8 bits, up to four samples, ratios from 0 to 250 | `StatsDefined`, `MeanInRange`. |
| `runner_suite` | two tests (one without hooks), two CMD lines, two engines | `LeftoversReported`, `SetupsFresh`, `ExitCodeFaithful`. |
| `ssh_channel` | with and without a pty, one unit on each stream, a command that exits or is killed, failing writes on the client, a timeout on the server | `NoProtocolError`, `PacketOrder`, `ExitStatusFirst`, `OutputComplete`. |
| `ssh_channel_ends` | output of three units through a window of two | `WindowHonoured`; `SessionEnds`. |
| `ssh_transport` | two packets from each end, four requests for new keys at any time | `EveryPacketHandled`, `OnlyKexDuringRekey`, `SessionIdFixed`, `RekeyEnds`, and `StreamHolds`, the refinement of `PacketStream` with its fairness. |
| `ssh_auth` | eleven configurations, two keys, four attempts, three terminals, a faulty child | `LoginEarned`, `SameVerdict`, `MonitorTrusts`, `TtysReleased`. |
| `sftp_transfer` | all kinds of transfer of a file of five units in requests of two, at most two in flight, two faults, an interrupt | `RepliesMatched`, `CopyFaithful`, `PrefixLeft`, `TransferEnds`. |
| `sshd_listener` | three connections, two from one address (one of them possibly without an entry), two slots, one per source, one SIGHUP and one SIGTERM | `LimitHonoured`, `RestartSafe`, `SignalsHandled`, `SlotsFreed`. |
| `sftp_upload` | uploads, one failing write | refutes `GotEverything`, see the next section. |

Bounds, and why they are enough. `MaxMsgs` exceeds `MAX_ITER` by at least one where the
end of the subscription matters, since it is the message after the last sample that
signals. `MaxToken` leaves a fresh token while others are in the callback, in
`deliveredtoken` or with a publisher (in `mqtt_many` a publisher may have to wait for one;
the proofs have no such bound). `MaxKills = 2` in `mqtt_pair` sends one request to stop
more than there are publishers. Two publishers are the smallest number for which one can
disturb another; the proofs cover any number. In `rtt_stats` the ratios include ones that
drop nothing, some, exactly all and more than all, with products that overflow the word,
and the samples include negative ones. Two engines and two CMD lines are the smallest
suite in which a leftover can be met by the same run again and by another run.

In `ssh_channel_ends` the window is smaller than the output, so that the session cannot
end without adjustments; in `ssh_channel` one unit per stream is enough for data to be in
a pipe, in a buffer or on the way when something closes. Four rekeyings let each end start
one while the other's is going on, and both again right after it. In `ssh_auth` the
number of tries is one or two and the attempts exceed it; three terminals exceed the two
sessions the monitor has room for. A file of five units in requests of two ends with a
short read, and two requests in flight can be answered in either order. Three connections
are one more than the listener has slots, and two from one address one more than it allows;
four connections were tried as well.

Fairness, and why the code justifies it. In `AbiLayout` there is one thread, and weak
fairness says that it goes on. In `MqttApp` every thread keeps running (weak fairness per
thread). The acknowledgement and the two kinds of messages reach the callback thread by
one socket served in order, so one that waits is handled although others keep arriving:
strong fairness of `CbAck`, `CbMessage` and `CbKill`. No fairness is assumed of the broker
and the network, for messages, pubkills, failures or lost connections: `Terminates` starts
from the message that makes the subscriber leave its wait. In `SshChannel` each end keeps running
its loop (weak fairness per loop); nothing makes the command write or exit, and
`SessionEnds` starts from its end, and without a pty from the end of its output. In `SshTransport` each end reads what arrives, and the
login and the handover go on; nothing makes anybody send or ask for keys. In
`SftpTransfer` client and servers answer as long as the connection lasts. In
`SshdListener` the loop runs, a forked child closes its sockets and reports or dies, and
`LoginGraceTime` ends a child that does not authenticate (weak fairness of `GiveUp`);
clients and signals are free.

## Disagreements with comments and documentation

Shown by a run:

* `sftp_upload`. `sftp-client.c:2213` "we got everything". Each answer overwrites
  `status` (line 2174). A write that fails, followed by the good answer to one that was
  already sent, leaves `status` good; the upload goes on, takes the file for complete and
  returns success, with a block missing.

Met while modelling, at the lines named; the properties above are stated so that they do
not depend on them:

* `mqtt.c:69` "Wait till last delivered thread acknowledges deliver token". With two
  publishers, the second one's `deliveredtoken = 0` (line 212) wipes out a token its owner
  has not read; the owner spins for ever and never posts the semaphore.
* `mqtt.c:171` "Wait til receive buffer fills up". The post comes with message
  `MAX_ITER + 1`; after exactly `MAX_ITER` messages the subscriber waits for ever, and so it
  does when a pubkill stops those who publish before that message.
* `mqtt.c:173` "Stop local publish threads when sub ends". One post stops one publisher.
* `mqtt.c:364` "Merge all threads". Only the last thread created is joined, once per
  thread.
* `tests/README.md:40` "one full setup → test → cleanup cycle". After a timeout, or a
  cleanup hook that fails, the fixture stays. A set-up that fails with the same code on
  both sides counts as a pass, and `test()` never ran.
* `channels.c:3376` "we must 'fake' consumption ... Otherwise the connection might
  deadlock". This is done for data, and not for extended data whose descriptor failed
  (`channel_handle_efd_write`, line 2245, and `channel_input_extended_data`, line 3438):
  the bytes in the buffer are never counted as consumed, and the window they took is lost.
  `ssh_channel_ends` therefore has no failing writes.
* `auth2.c:722` "This should not happen, but would be bad if it did". With
  `AuthenticationMethods` and an account with an empty password, the monitor names the
  first password request "none", which is in no list, and ends the session here
  (`Aligned` excludes it).
* `monitor.c:345` "Shouldn't happen". With `PermitEmptyPasswords`, whatever the account's
  password is, the child forwards the client's first "none" as a password. When it fails,
  the monitor counts it (`monitor.c:338`) and the child does not (`auth2.c:440`), so that
  the `max_authtries`-th failure after it ends here and not in the child's own
  `auth_maxtries_exceeded`. `MonitorTrusts` excuses exactly this: empty passwords are
  permitted, "none" was tried, and the child was about to count its last failure. One
  configuration of `ssh_auth` reaches it, with a password that is not empty.
* `auth2-pubkey.c:296` "key options inconsistent with existing". Two keys that force
  different commands: the monitor ignores what `auth_activate_options` returns
  (`monitor.c:1485`) and counts the second key, the child takes the success back. The
  verdicts differ: the monitor waits for the key state, or has a method less in its lists,
  and the child asks for another method. `Aligned` excludes keys that disagree, one
  configuration of `ssh_auth` has them, and without that conjunct TLC finds `SameVerdict`
  violated in five steps. In either process `auth_opts` is NULL from then on
  (`auth.c:832`). The next read ends the process, which is an end at any time
  (`ClientGone`), or finds zeros, where address 0 is an address: no command and no
  permission, which is what `merged_command` and `merged_pty` return.
* Root with `AuthenticationMethods` and `PermitRootLogin no` or `forced-commands-only`:
  the child asks `auth_root_allowed` before it updates its lists, the monitor after, so
  that their lists differ after a partial success. The monitor also activates the options
  of a key whether or not its signature is good. Logins still have to be earned
  (`LoginEarned` has no exception); `SameVerdict` and `MonitorTrusts` exclude these
  configurations (`Aligned`).
* `sftp-client.c:1752`. A second failing local write of a download takes the branch for a
  good one and moves the mark at which the file is cut.
* `sftp-client.c:2044`. A resumed upload starts its marks at 0, so that the first answer
  already counts as reordered: if it is interrupted or fails, the remote file is truncated
  at 0 and what was there before is gone.
* `sftp-client.c:2246`. An interrupted upload looks at `status` only and returns success
  for an incomplete file.
* `sftp-client.c:2226` and `1838`. A refused truncation is logged and not reported: a file
  that was longer and is overwritten in place keeps its tail, and the transfer returns
  success. A failed download that cannot be cut keeps its holes.
* `sftp-client.c:1883` and `2689`. A download and a crossload ignore the result of closing
  what they have written; an upload does not (line 2241). `NothingIgnored` lists these
  cases, and `CopyFaithful` is about all others.
* `srclimit.c:77`. A connection whose client has reset it before `getpeername` is allowed
  and not entered: it comes on top of `PerSourceMaxStartups`, and `LimitHonoured` is about
  the connections that are entered. Its slot counts for `MaxStartups` all the same.
* `sshd.c:1273`. When `socketpair` fails, the per-source entry stays.
* `sshd.c:1179`. Signals are unblocked before `execv`; a SIGTERM in between is lost. The
  new listener counts unauthenticated connections from zero.
* `sshd.c`, comment of `should_drop_connection`: "dropped for startups > max_startups";
  the code drops from `max_startups` on, which its use of the array needs.

## Proofs

| Module | Theorem | Says |
| --- | --- | --- |
| `AbiLayoutProofs` | `TypeCorrect` | The load is well typed, for any tables and definitions. |
| | `DisjointCorrect` | `FieldsDisjoint`. |
| | `AlignedCorrect` | `FieldsAligned`. |
| `MqttAppProofs` | `TypeCorrect` | Well typed, for any number of threads; no semaphore falls below zero. |
| | `ExclusiveCorrect` | `HandoverExclusive`, for any number of publishers. |
| | `DeliveryCorrect` | `PostAfterDelivery`, for any number of publishers. |
| | `SingleTokenVisible` | `TokenVisible` with one publisher. |
| | `SingleStopAndWait` | With one publisher the handshake implements the safety part of `StopAndWait`. |
| | `SingleSamplesComplete` | `SamplesComplete` with one subscriber, for any number of publishers and samples. |
| | `SingleSemaphoresAlive` | `SemaphoresAlive` with at most one publisher, for any number of subscribers. |
| | `StatsTypeCorrect`, `StatsDefinedCorrect`, `StatsMeanCorrect` | `StatsTypeOK`, `StatsDefined` and `MeanInRange` of `RttStats`, for any width, buffer and options. |
| `TestRunnerProofs` | `TypeCorrect` | `TypeOK`, for any suite. |
| | `LeftoversAreReported`, `SetupsAreFresh` | `LeftoversReported` and `SetupsFresh`, for any suite, hooks and engines. |
| | `ExitCodeCorrect` | `ExitCodeFaithful`, for any suite with engines of different names. |
| `SshdListenerProofs` | `TypeCorrect`, `CountersExact` | `TypeOK`; `startups` and `listening` count the pipes watched and the reports awaited. |
| | `RestartIsSafe`, `LimitIsHonoured` | `RestartSafe` and, for the connections that are counted, `LimitHonoured`, for any number of connections, slots and limits. |
| `SshTransportProofs` | `TypeCorrect` | Both peers and the packets on their way are well typed. |
| | `PacketsHandled`, `RekeyingIsExclusive`, `SessionIdStays` | `EveryPacketHandled`, `OnlyKexDuringRekey` and `SessionIdFixed` (an action property), for any number of packets and rekeyings. |
| `SshAuthProofs` | `TypeCorrect` | Both records are well typed, and the counts of attempts, failures and terminals keep their limits. |
| | `LoginsAreEarned` | `LoginEarned`, for any configuration, keys and number of attempts, the child faulty or not. |
| | `TerminalsReleased` | `TtysReleased`, for any number of terminals and sessions. |
| | `VerdictsAgree`, `ChildrenTrusted` | `SameVerdict` and `MonitorTrusts`, for any `Aligned` configuration, keys and number of attempts. |
| `SftpTransferProofs` | `TypeCorrect` | `TypeOK`, for any size of file, block and window of requests. |
| | `AnswersMatched` | `RepliesMatched`. |
| | `CopiesFaithful`, `PrefixesLeft` | `CopyFaithful` and `PrefixLeft`, for any sizes, short reads, orders of the answers, failures (but for those the code ignores, see `NothingIgnored`) and interrupts. |
| `SshChannelProofs` | `NoErrors`, `PacketsOrdered`, `ExitStatusComesFirst` | `NoProtocolError`, `PacketOrder` and `ExitStatusFirst`, for any window, packet size and output, with failing writes, timeouts and signals at any time. |
| | `WindowsHonoured`, `TypeCorrect` | `WindowHonoured` and `TypeOK`, for the same: no peer sends what the other has no room for, no length falls below zero. |
| | `OutputIsComplete` | `OutputComplete`, for the same: a channel that was closed in order has delivered all that the command wrote. |

*`AbiLayoutProofs`.* `FieldsDisjoint` and `FieldsAligned` speak of registered structs
only. The inductive invariant adds `PartialLayout`, the same facts for the struct being
laid out: its fields end at or before `current_offset`, and `max_alignment` is a multiple
of every field's alignment. That multiples are kept under `max` rests on alignments being
1, 2, 4 or 8, which comes from the assumption on primitives (`abi.py:28`).

*`MqttAppProofs`.* `HandoverExclusive` is not inductive: nothing in it says why only one
publisher can find its token. The invariant adds `Ownership` (every
token on its way belongs to exactly one spinning publisher and is in one place:
unacknowledged, in the callback, or stored) and `Phases` (the handover is free, taken by
the callback, stored, or seen by one publisher, which fixes the value of
`qos1_pubmutex`), and `NotCreated` for the time before `main` has started a thread. The
theorems about one publisher assume `NUM_PUBS = 1`, without which they do not hold (see
the first of the disagreements about `mqtt.c`). The same goes for the last two:
`SingleSamplesComplete` assumes `NUM_SUBS = 1` because `main` joins only the last thread it
created, so that with two subscribers it may compute the statistics while the first one
still waits; `SingleSemaphoresAlive` assumes `NUM_PUBS <= 1` because one post stops one
publisher and only the last is joined, so that another may outlive the semaphores. Both
rest on `ThreadInv`, which says which threads have been created and which have been joined
at each position of `main`; `Recorded` adds what the callback has stored by the time the
subscriber is woken.

*The statistics, in `MqttAppProofs`.* The invariant follows the first loop: `Progress` ties the counter to
the index, and `Bounds` says that the accumulator lies between the number of samples read
times any lower and times any upper bound of them. From the upper bound `WORD - 1` it
follows that the accumulator never overflows, and from both that the quotient is between
two of the samples.

*`TestRunnerProofs`.* The invariant ties the position in the three loops to what is known
by then: the results of a finished CMD line are in the table under the engine's name, the
counts are the counts of what the table says, and a fixture on disk belongs either to the
run that is going on or to one that has been entered as failed. `ExitCodeCorrect` has the
hypothesis `DistinctNames`: `run_tests.py:238` keeps the results by name, so that of two
engines of one name only the second is counted, and the exit code says nothing of the
first. The other three theorems do without it.

*`SshdListenerProofs`.* `RestartSafe` and `LimitHonoured` are about children; the code looks
at counts and flags only. The invariant says what they count (`CountsExact`), that every
child which still has the listening sockets open is one whose report is awaited
(`Expected`), that every counted child with a pipe is covered by an entry of the per-source
table (`Covered`), and that an address never has more entries
than it may have (`Bounded`). A restart then waits for `listening` to be zero, which leaves
no such child.

*`SshTransportProofs`.* Whether a packet can be decrypted and is expected when it is read
depends on everything that was sent before it and on what its reader has done since. The
invariant takes the stretch of packets on their way apart. Each peer is in one of four
phases of a key exchange (idle, KEXINIT sent, agreed, NEWKEYS sent), and the phases of
both determine which packets of the exchange can be on their way and in which order
(`Exchange`); the cookies in them and in the peers are those of the two KEXINITs
(`Cookies`); the key, sequence number and compression position of each packet follow from
those of the packet before it, the first from what the reader has (`Sealed`, by `Chain` and
`NextSeal`); `Login` says where the peers are in the login and the handover, `SameId` that
both have the id of the first exchange. Each handler is first shown to come to a few small
steps (put a packet into the stream, take one out, install keys, start an exchange), and
each small step to keep the invariant.

*`SshAuthProofs`.* The monitor changes only by answering one request or by exiting, whoever
asks, so that the facts about a login are an invariant of its record alone (`MInv`): what is
left of a list, together with what was earned, makes up the list (`Progress`); a key with
which something was earned is marked as used, and a key that is allowed is not (`OnceEach`);
a monitor that has taken the user in is `Entitled` to. `Progress` is what a complete list is
deduced from: the last method of a list completes it only because the earlier ones can be
found, in order, in what was earned (`ReachedNext`). For the terminals the child is needed
as well: until it exports the key state none of its requests takes the monitor past the
login (`Early`), and afterwards both sides change their sets alike (`Tie`).

The two theorems about agreement compare the records of a child that follows its program
and of its monitor. Where the two stand is one of four situations (`Waiting` for the user's
name, `Asking` for methods, `LetIn`, `Served`), each of which fixes what the permission
table allows. Their failures are `Level`, but for the one "none" that only the monitor
counts, and their lists of methods are equal in an `Aligned` configuration. `Judged`
summarises what the monitor does in one request of the client, `Met` what the child does
with the answers. The command in force is none or one that some key forces (`Known`), so
that keys that are aligned never conflict. `Excused` is the monitor that is one failure
ahead because empty passwords are permitted.

*`SftpTransferProofs`.* `RepliesMatched` follows from the ids: every request in the queue
has exactly one message in flight with its id, to or from the server (`InFlight`). A
complete copy is a matter of coverage: as long as nothing went wrong, every unit of the
source is in the destination, asked for, sent on in a crossload, or beyond the offset of
the next request. A correct beginning is a matter of the marks: while nothing was
reordered, `highwater` is `maxack` and every pending request lies above it, so that a cut
at the mark keeps only what has been written. For an upload the blocks that are in flight
form a chain that starts at what was acknowledged (`Stands`).

*`SshChannelProofs`.* Until both ends know the channel, the invariant names the stage of
the opening (`Requested`, `Accepted`, `Refused`, `Failed`). Once it is `Established`,
`Between` describes the stream of each direction by what its sender has sent and its
receiver received of EOF and CLOSE: if a CLOSE has been sent and not received it is the
last packet, if it has been received the stream is empty, and likewise for EOF and data.
`Sane` holds the facts about one record (a closed output has sent or received EOF, a channel
that has sent CLOSE has nothing open), and `Orderly` the order of the ends unless a timeout
forced it: the client closes after the server, and the server after the exit status, unless
a signal killed the command and there is none (`Told`, `ExitKnown`). An
iteration of the loop makes many calls and keeps all of this only at its end; `Mid` is what
holds between two of its calls, with the packets made so far counted as sent. Each function
of `nchan.c` and `channels.c` is shown to be quiet, to emit one packet, to shut one side or
to free the channel, and each of these to keep `Mid`.

`WindowHonoured` compares sums over streams of packets (`Units`). `Units` is a recursive
function, and what it does under `Append`, `\o` and `Tail` is proved from the function's
definition by looking at the least prefix at which two sums would differ (`LeastOf`,
`AddsUnique`). The invariant `Windows` then says of each record that its lengths are not
negative and that an open channel holds one window at most (`Tidy`), and of each direction
that what the sender may still send, the data on its way and the grants on their way back
are within the receiver's `local_window` (`Granted`). It counts the windows of OPEN and
CONFIRM as grants, and asks nothing of a receiver that is already gone, to which a sender
may go on sending. Each call is described by how it moves these amounts (`Moves`): what it
sends it takes from `remote_window`, what it grants it takes from `local_consumed`, what a
packet brings is taken from `local_window` and kept. `TypeOK` follows, because what is
subtracted anywhere is within one of these sums.

`OutputComplete` rests on one more invariant, `Flow`, which holds while the connection is up
and nothing outside but the command has failed (`Intact`). Its centre is `Balance`: what each stream
will carry in all is what is not yet written, in the pipe, in the server's buffer, in packets
on their way, in the client's buffer and in the client's file together. A balance alone does
not say that the client has everything when the channel is freed, so `Flow` also says what the
two records must have done by then. `ServerFit` ties the server's record to what is known of
the command (`Facts`: the pipes that are exhausted for good, whether it was started and
reaped): a direction that is no longer open has read its pipe to the end, one that is closed
has sent what it read, and a channel that is gone has done both. `ClientFit` says that the
output stays open until EOF or CLOSE arrived and is closed only when both buffers are
written. That no data is dropped on arrival needs `Granted` and the size of the packets
(`Small`), and that the server is not told to stop reading needs that the client sends no
EOW, which only a failed write makes it do. Each function of the loop and each packet handler
keeps `ServerFit` or `ClientFit` and moves the amounts as `Balance` has them (`ServerKeeps`,
`ClientKeeps`); at the end `Between` gives that the streams are empty.

The inductive invariants were checked with TLC on the instances of the runs before they
were proved.

Assumptions are those the modules state about their constants (`NumStructsAssumption`,
`NoneAssumption`, `PrimitiveAssumption`, `NameAssumption`, `ChoiceAssumption`,
`CountAssumption`, `WordAssumption`, `SuiteAssumption`, `ListenerAssumption`,
`TransportAssumption`, `AuthAssumption`, `ChannelAssumption`, `SftpAssumption`); TLC evaluates them in the runs. They say of which
kind the constants are, and that a value which stands for "none" is not one of the others.

Only model-checked: all liveness (`LoadEnds`, `Terminates`, `SessionEnds`, `RekeyEnds`,
`TransferEnds`, `SignalsHandled`, `SlotsFreed`, and the fairness of `StopAndWaitHolds` and
`StreamHolds`), because the prover does not handle fairness; `TablesLoad` and
`LayoutsCoherent`, which are about what a recursive function computes; and the safety part of
`StreamHolds`, whose mapping filters sequences with `SelectSeq`, which is defined by recursion.

## Not modelled, and why

* `SshChannel`: forwarded, X11, agent, tunnel, datagram and multiplexed channels (each has
  its own pre- and post-poll handlers and fewer packets); the escape character filter;
  keepalives; window changes; that nothing is made into packets during a rekeying (the
  packet layer queues it).
* `SshTransport`: cryptography, the group exchange's extra round trip,
  `first_kex_follows`, the discarding of a packet with a bad MAC, partial reads and writes,
  the arithmetic of the limits (a limit strikes at any time).
* `SshAuth`: PAM, BSD auth and GSSAPI, submethods, the contents of banners and of
  `authorized_keys` but for forced commands and `no-pty`, security key flags.
* `SftpTransfer`: a source that changes during the copy, a lost connection (the client
  ends), directories, attributes, globbing, extensions.
* `SshdListener`: debug and inetd mode, more than one listening socket, log messages.
* The rest of OpenSSH: key formats, certificates and revocation lists, configuration
  parsers, `known_hosts`, `scp`, `ssh-keygen`, `ssh-keyscan`, ports to other systems.
  These are sequential and depend on bytes and text; tests reach them better than a model
  checker. `ssh-agent.c` and `mux.c` are stateful and are in the plan.
* The system call table and the binding generators: pure functions over constant tables
  that write text.
* The toolchain generator, build and setup scripts, unit tests, examples, compiler ports,
  documentation templates: calls of external tools, straight lines of system calls, text.

## Plan

1. `ssh-agent.c`: keys with lifetimes and confirmation, locking, requests of several
   clients interleaved.
2. `mux.c`: sessions of several clients over one connection, and a master that ends.
3. `spec/wali/spec/syscalls.py` and `spec/autogen.py`: that the signature, the C type and
   the Rust type of an argument have the same width.
