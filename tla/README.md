# A TLA+ development for mini_ftpd

`mini_ftpd` is a small FTP server for Linux written in C++. It has no threads: what is concurrent in
it are processes, the signals that interrupt them, and the messages of a socketpair. This directory
holds TLA+ modules of those parts, TLC configurations that check them on small instances, and TLAPS
proofs of the main results for every instance.

Paths below are those of the repository (`src/...`). `PROJECT.json` lists, for every definition, the
lines it stands for; for every run, its properties; for every property, a plausible bug (an operator
`Bug...` next to the definition it spoils) under which TLC finds the property violated; and the hazards
of the code, with the properties that watch them.

## 1. Inventory

```
            fork per client                      fork per session
 main() ----------------------> start_ftp_service() ---------------> FTP process
   ^  |                              |                                 |   ^
   |  | client_count, ip2conncount   | becomes the nobody process      |   | control connection,
   |  | pid2ip                       v                                 |   | urgent data (SIGURG)
   |  +--- sigchld_handler()     nobody process <==== socketpair =====>+   v
   |              ^                  |                                   client
   +---- SIGCHLD -+------ exit ------+  connects to, or listens for, the client
```

| component | source | state | operations |
|---|---|---|---|
| main process | `main.cpp`, `connection_limit.cpp` | `client_count`, `ip2conncount`, `pid2ip` | accept loop, `increase_connection`, `fork`, `save_pid_of_ip`, SIGCHLD handler with `decrease_connection`; in the child `check_connection_limit` |
| nobody process | `ftp_protocol.cpp` 99-170 | `pasv_listen_fd`, open listening sockets | `connect_in_actv`, `listen_in_pasv`, `accept_in_pasv`, the loop over `get_char` |
| FTP process | `ftp_protocol.cpp`, `session.h`, `session.cpp` | `Session`: login, `PORT`/`PASV` flags and address, data descriptor, offset, rename name, abort flag, current command | the command loop and about thirty handlers; `establish_transfer`, `handle_retr`, `upload_auxiliary`, `handle_list`; SIGURG and SIGALRM handlers |
| blocking I/O | `socket/block_socket.cpp` | none | `readline` over `MSG_PEEK`, `read_n`, `write_n`, `get_char`, `send_buf`, socket creation |
| timeouts | `socket/block_socket.cpp` | blocking mode of a descriptor | `connect/accept_with_timeout`, `detect_read/write_timeout` |
| descriptor passing | `ipc/socket_ipc.cpp` | the stream of the socketpair | `send_fd`, `recv_fd`, the bytes of the request protocol |
| files and locks | `file/file_utility.cpp` | `fcntl` locks | read and write locks, listings, `chmod`, sizes |
| rate limit | `session.cpp`, `process/process_utility.cpp` | start time of a transfer | `limit_transmission_speed`, `sleep_for_seconds` |
| configuration | `config/config.cpp` | constants read once | defaults, conversions, clamps |
| privileges | `process/process_utility.cpp` | uid and capabilities | `create_nobody_process`, `set_permissions` |

### Interactions and what is hard about them

* **Main process and its children.** `main()` counts a connection, forks, then records the pid. The
  handler of SIGCHLD changes the same three tables between any two machine instructions of that
  sequence, and `++` is several instructions. SIGCHLD is not queued: several exits make one signal. Pids
  are reused. A child tests the limits on the copy of the counters it got at `fork()`.
  *Correct means*: never more clients served than configured, in all and per address; tables that
  describe the children that exist; every child reaped.
* **FTP process and nobody process.** A request-reply protocol of single bytes, a length-prefixed
  address, integers and a passed descriptor, over one stream; both sides block; either may die between
  two writes; writes to a dead peer raise SIGPIPE, which nothing ignores; `get_char()` at end of file
  returns a byte it never wrote. *Correct means*: a transfer uses the endpoint its own client named last
  and no other, no answer is left for the next request, no mutual waiting, no leftover after a transfer.
* **Session and client.** Commands in any order; transfers with ten ways to fail; an urgent line whose
  handler runs the line reader and the parser *on the interrupted command's own variables* and shuts the
  data connection under it, and waits without a timeout for the rest of an urgent line; an alarm. *Correct means*: no command before the login, no mixture of two
  accounts, nothing held when a command has ended, replies that tell the truth.
* **Sessions among themselves.** They share only files and `fcntl` locks, and `unlink()` asks for no
  lock. *Correct means*: a transfer moves one version of a file, whole; locks are always given back.
* **Time.** Four waits with a timeout, interrupted by signals, around calls that block without one; a
  pause that corrects the rate of what has just been moved. *Correct means*: a wait with a timeout ends, a
  transfer keeps the configured rate.
* **Numbers and bytes.** Fragmentation of lines, a rate in a `double` cast to 32 bits, sizes, decimal
  `umask`, arguments that are no numbers.

## 2. Modules

| module | stands for | used by |
|---|---|---|
| `Admission` | abstract: at most `Limit` clients admitted, who come and go | refined by `ConnectionLimit` |
| `ConnectionLimit` | the main process, its handler, its children | `MCConnectionLimit`, `ConnectionLimitProofs` |
| `DataChannel` | abstract: prepare an endpoint, ask, get exactly it or a refusal, forget | refined by `DataConnection` |
| `DataConnection` | FTP process and nobody process joined by the socketpair | `MCDataConnection`, `DataConnectionProofs` |
| `Session` | command loop, login, transfers, SIGURG, SIGALRM | `MCSession`, `SessionProofs` |
| `Daemon` | `ConnectionLimit` and, for each child, the nobody process and the FTP process it becomes | `DaemonProofs` |
| `SharedFile` | abstract: a file has many readers or one writer | refined by `FileTransfers` |
| `FileTransfers` | sessions that download, upload, append to and delete one name | `FileTransfersProofs` |
| `LineReader` | `readline()` and its two callers | `LineReaderProofs` |
| `Config` | the configuration file and what its lines become | `TimedTransfer` |
| `TimedTransfer` | timeouts, blocking calls and the rate limit on a clock | `MCTimedTransfer`, `TimedTransferProofs` |
| `...Proofs` | the theorems of section 5 | |

### ConnectionLimit

`pc` walks through the body of the loop in `main()`: `accept`, the load and the store of
`++client_count`, the look-up, load and store of `++ip2conncount[ip]`, `fork`, `pid2ip[pid] = ip`.
`CMakeLists.txt` sets no optimisation and no build type, so the increments are not fused. `reg` is the
register in between; `dangling` says that the entry to which `operator[]` returned a reference has been
erased by the handler: the store then goes to a freed node and is lost, which is the outcome of this
undefined behaviour that the built program shows unless the allocator has reused the node.
The operations of the hash tables themselves are atomic here (what a half-done insertion looks like to
a handler belongs to the library, not to this code).

`HandlerEnter` may happen wherever SIGCHLD is pending; the loop stands still until `HandlerReturn`,
because a handler runs on top of it; an iteration of its `waitpid` loop (`Reap`, `ReapUnknown`) is one
step. A pid that is no key of `pid2ip` is reported, and then `iter->second` of `end()` is read: that
dereferences the null node of libstdc++'s end iterator, modelled as the end of the main process.
`proc` is the kernel's side: forked and unreaped children, each with its copy of the two counters.
`torn` is a history variable; it records which counters lost an update and exists only to state what
holds as long as none did.

### DataConnection

`ftp_pc` and `nobody_pc` are the places where each process can be between two system calls;
`to_nobody` and `to_ftp` are the two directions of the socketpair, as tokens. The length that
precedes the address is two tokens, the byte 16 and the zero bytes, since that is what matters when
the nobody process reads it as commands. An endpoint is what a descriptor leads to: an address of PORT
or a listening port. Connecting, accepting and binding have the outcomes their callers distinguish.
A process that is gone closes its end: queued bytes are still delivered, then reads return 0, and
writes kill the writer. `send_fd()` and the `close()` of the listening socket after it are two steps
(`SendPasvFd`, `ClosePasv`): in between the FTP process may already be in its transfer, and end it, while the
listener is open. A nobody process that ends there takes the listener with it, since the kernel closes its descriptors.

`Channel` maps this to `DataChannel`: `prepared` are the endpoints behind `active_port` and
`active_pasv`, `pending` holds from the first byte of the request to the descriptor, `channel` is where
the running transfer's descriptor leads.

### Session

One variable for each field of `Session` that a handler keeps between commands, `pc` for the place in
the loop or in a transfer, `ctrl` for lines received and unread, and the process's effective uid and
alarm. A password is modelled by the uid it belongs to, so that "right password" means "of the account
that USER named"; `crypt()` of a locked account's entry may return NULL, which ends the process.
`reply` is the code of the last command's final reply. The kernel delivers SIGURG before the process
makes its next step, so that `Urgent` is the arrival of a whole urgent line together with the handler's run.
With no data connection open the handler returns at once and the line stays in the stream.
The client may also send the urgent byte without the rest of its line: after `UrgentPart` the process is
`in_handler`, in `readline()`, until `CompleteLine` or for ever; nothing else of the process runs meanwhile.
`Rest` keeps every number that `stol()` accepts, negative ones included: STOR then fails at `lseek()`, while RETR and
APPE pass over the offset; an argument that is no number ends the process (`RestCrashes`).
`glibc`'s `signal()` restarts interrupted system calls; `sendfile()` that has already sent something
returns early instead, and the code deducts the full chunk from the rest all the same. That is the disjunct of
`Interrupts` in which the interrupted chunk is `short`. Commands that keep nothing in `Session` (PWD,
CWD, MKD, DELE, SIZE, TYPE, SITE, STAT, ...) are the action `Other`. The nobody process is represented
by its outcomes, which `DataConnection` justifies: a connection, a refusal, or its loss. That a lost nobody
process may make the FTP process go on with no data connection at all (`get_char()` returns a byte it
never read) is in `DataConnection` only.

### Daemon

`ConnectionLimit` knows one process for each client, the child that `main()` forks. That child becomes
the *nobody* process; the process that serves the client is its own child. `Daemon` extends
`ConnectionLimit` with that: `paired` children have an FTP process, `alone` ones have lost it and will read
end of file, `orphans` counts FTP processes whose nobody process ended first (their parent no longer
matters to anybody, so a number is enough). `stuck` are those to whom `get_char()` has given a byte that
is neither 0 nor a command: they read again, for ever if the byte stays. All of `ConnectionLimit`'s steps
outside `start_ftp_service()` are `Outside`; the end of a child (`Finish`) happens only through the steps
of `Daemon`.

### FileTransfers

Several sessions and one name in their directory. A file is a sequence of blocks; a block is the session
that wrote it, so that a mixture of two uploads can be seen. The name leads to an inode, which open
descriptors keep alive after DELE; an upload then makes another. `size` is `st_buf.st_size`, read
*before* the lock; the offset is read, and an upload empties the file, *after* it. `Fails` are the early
returns, `Dies` the end of the process (421, SIGPIPE, a signal), after which the kernel has closed the file
and a new session takes its place. `Shared` maps a session to what it reads and writes while it
holds the lock. The lock is granted in any order among those that may have it.
One `sendfile()` is asked for `Chunk` blocks at most. It may send fewer, because a signal interrupts it or the file ends
(`There`), and the chunk it was asked for is taken off `left` all the same; `cut` remembers that a signal did that.
A client that stops reading, or keeps the handler waiting for the rest of an urgent line, blocks its session without a
timeout: no step of the process is fair in `Spec`, and `ClientKeepsUp` is the condition under which a download ends. Offsets of REST may be negative here, too. `moved` and `cut` are history
variables.

### LineReader

The stream holds newlines and other characters. `at`, `buf` and `want` are the frames of the two calls of
`readline()` that may be on the stack: the loop's, and the handler's on top of it. `recv()` with
`MSG_PEEK` returns *some* of what has arrived and `read()` some of what it is asked for, every amount
being possible. A handler that interrupts `recv()` or `read()` lets it go on afterwards, as
`signal()` of glibc asks for. The handler looks at `data_fd` first: that is why it never runs while the
loop is inside `readline()`, and `NothingLost` depends on it.

### Config and TimedTransfer

`Config` reads lines one by one over the defaults; a line's number is missing, no number, or an integer
of any size, and `Extract` is what `operator>>` makes of it. `TimedTransfer` continues with the settings:
the nobody process connects or accepts with a timeout, then the chunks of a transfer follow one another,
each a `select()` with a timeout, the blocking `read()` or `sendfile()`, and the pause of
`limit_transmission_speed()`. Time passes in ticks; `waited` is what the kernel has deducted from the
`timeval` that the code gives to `select()` again after EINTR. The rate is computed in integers as in the
code (`double` to `unsigned int`), modulo `Modulus`, and the pause is rounded up to the next tick; `wrapped`
records that a rate did not fit. `gettimeofday()` is taken for a clock that does not jump.
A `Signal` interrupts a `select()`, or a `sendfile()` that has sent something. Its handler may return at once or not:
with an urgent byte that ends no line it is `held` in `readline()`, where neither the timeout of the interrupted
`select()` nor the pause runs on, but the clock of the rate does. `LineArrives` ends that, or the client never does.
What an ABOR then does to the transfer is in `Session`.

## 3. Runs

Every run finishes within about two minutes. Deadlock is not checked: a dead main process, an ended session, a
finished transfer and an idle server with nothing left within the bounds are states in which the system
may really stop.

| run | question | instance |
|---|---|---|
| `CL_safety` | limits, tables, zombies, refinement of `Admission` | 3 pids, 2 addresses, limits 2 and 1, counters to 3 |
| `CL_unknown_pid` | does the handler know every pid? (no) | 3 pids |
| `DM_live` | does the limit bound the nobody processes, is every child reaped, and the slot of every session that is over freed? | 2 pids, 1 address, limit 1, `DaemonFairSpec` |
| `DM_over_limit` | are no more clients served than configured? (no) | 2 pids, limit 1, 1 orphan |
| `DC_crash` | the right endpoint, no stale answers, no mutual waiting, every request answered while both processes live, no FTP process left waiting for a lost helper, refinement of `DataChannel` | 2 addresses, 3 ports, kills at any step, `accept_timeout` set |
| `SE_login` | any order of login and other commands | 17 lines, 3 accounts |
| `SE_transfer` | transfers, every failure, urgent lines in one piece or two; does an ABOR end its transfer? | 10 lines, offsets 1 and -1, files of 0 to 2 chunks |
| `SE_stale_abort` | does an ABOR abort the transfer it was sent in? (no) | 7 lines |
| `TL_locks` | do the locks keep transfers whole, and does a download end and give its lock back? refinement of `SharedFile` | 2 sessions, files of 0 to 2 blocks, chunks of 2, 2 inodes |
| `LR_lines` | the same lines however the stream is cut? | 6 characters, lines of at most 3 |
| `TM_waits` | settings as written, timeouts that end, the rate kept | 111 files of 0 to 2 lines, chunks of 4 bytes |
| `TM_blocked` | does a timeout end a blocked transfer? (no) | the same |

**Bounds.** `Pids`: three pids with a limit of two give a client over the limit, pid reuse (a pid returns
to the pool when reaped), two exits merged into one signal, and an exit inside every step of the next
connection. `CountBound` stops accepting when a counter has been torn that far; two addresses let one be
torn while the other must stay exact. `Ports`: three, so that a second PASV gets a new port while a
dead one's number is still in the variable; a connection not used keeps its port in use. `MaxLines` = 1 line
waiting is enough, because the loop handles them one by one, and it lets an urgent line meet an empty and
a used buffer. `MaxChunks` = 2: an interruption in the first and in the last chunk, and the empty file.
`MaxOrphans` = 1: with a limit of one, one client too many. `MaxLen` = 2 blocks: half of an upload may be
in the file, an append has something to keep, and an offset may lie before the beginning (-1), inside, at the end of, or beyond a
file (then a `Hole` is left). `Chunk` = 2 blocks: a signal can cut a chunk in the middle, and an offset of -1 asks for
a second one. `MaxInodes` = 2: a name deleted and made again while the old file is
still being transferred; a third would only repeat that. `MaxLine` = 4 and `MaxSent` = 6: a line that fits exactly, one
that is longer than the buffer, and two that arrive at once. `TimedTransfer` has a second of four ticks,
timeouts of 0 and 1 s, rates of 2 to 15 bytes a second and `Modulus` 16, so that a full chunk in the shortest time wraps;
`MaxElapsed` is as long as the longest chunk at the lowest rate takes, beyond which nothing is over the limit.
Pids and addresses are interchangeable in `CL_safety` and `CL_unknown_pid` (`SYMMETRY`), which check no liveness property.

**Fairness.**

* `DM_live`: the kernel delivers a pending SIGCHLD and keeps running the handler, which never blocks
  (`WNOHANG`); a read at end of file returns. What byte `get_char()` then finds is not fair. Accepting, forking
  and exiting are not fair: clients owe us nothing. That the nobody process is in `get_char()` when its FTP process has
  gone presumes an `accept_timeout` that is not 0: with 0 it may stay in `accept()`.
* `DC_crash`: each process that can go on between the first byte of a request and its answer is
  scheduled, and `accept` and `connect` end, if only by their timeouts: that is why `AcceptTimeout` is
  `TRUE` there (with `accept_timeout` 0, which `accept_with_timeout` takes for "for ever", the property
  does not hold and the code does not claim it). No command of the client is fair, nor is any death.
* `SE_transfer`: only the steps of a transfer whose connection an ABOR has shut down are fair, because then no read or
  write on it blocks; the few replies of a transfer are presumed to fit into the buffer of the control connection.
  Not even these are fair where the process waits for others: in `open()`, which a pipe can block, in
  `fcntl(F_SETLKW)`, which returns when other sessions give up the lock, and in the handler, which reads until the client
  has sent a newline.
* `TL_locks`: nothing is fair in the specification. `DownloadEndsUnlessStalled` is an implication: if a session that has the
  lock for a download is not kept from going on for ever (`ClientKeepsUp`), its downloads end. Its client
  can keep it: nothing bounds a blocked `sendfile()` (`TM_blocked`) or handler. The grant of a lock and the steps of an
  upload are not assumed.
* `LR_lines`: the process is scheduled inside `readline()`.
* `TM_waits`, `TM_blocked`: time passes, and the process goes on when it can and no handler is waiting.
  Nothing is assumed of the client, of the network or of signals, and not that the rest of an urgent line comes.

## 4. What the checks show

Holds, in the modelled instances:

* `TotalLimit`: the limit on the children of `main()` withstands every interleaving. This is not obvious, since the
  counter does lose updates: only decrements are ever lost, so the counter errs upwards.
* `PerIpLimitUnlessTorn`, `CountersExactUnlessTorn`: the limit of an address, and exact counters, as
  long as no decrement hit an increment of the same counter. The condition cannot be dropped.
* `Tracked`: `pid2ip` follows the children, with reuse of pids.
* `NoLostZombie`, `EventuallyReaped`: merged signals lose no exit, because the handler loops.
* `FreedUnlessStuck`: when a session is over, its slot is freed, through end of file, exit, signal and
  handler, unless the byte that `get_char()` did not read keeps the nobody process.
* `MatchedConnection`, `ListenersMatch`, `ChannelSpec`: data connections
  lead where the client of this session asked, in any order of PORT, PASV, transfers and failures; the nobody process
  accepts on the port the client was told, and while a passive transfer runs its listener is closed, but for the moment
  between `send_fd()` and `close()`.
* `NoStaleAnswer`, `NoMutualWait`: the request protocol stays in step even when the nobody process reads an address as
  commands.
* `EveryRequestAnswered`, `NeverLeftWaiting`: while both processes live, every request ends with the connection asked
  for or back in the command loop. If one is lost nothing is promised to the client (the FTP process may be killed by
  SIGPIPE, or go on with no data connection), but the FTP process does not wait for ever for an answer.
* `HelpersWithinLimit`: `maximum_clients` bounds the nobody processes, however the two processes of the sessions end:
  what remains true of the claim that `DM_over_limit` refutes.
* `PermissionsMatchLogin`, `NothingBeforeLogin`: no order of USER and PASS mixes two accounts.
* `NothingHeldBetweenCommands`, `AlarmSparesTransfers`: every early return of a
  transfer closes the file and forgets the data connection; the alarm hits no transfer.
* `AbortEndsTransfer`: an ABOR that finds a transfer ends it (though perhaps by SIGPIPE, and the session with it), unless
  the transfer waits for others: for a lock, for an `open()`, or in the handler for the rest of a further urgent line.
* `TransferIntact`, `AppendKeepsEarlier`, `SharedSpec`: what a transfer has moved is one version of the
  file. The file must be emptied after the lock is granted and not by `O_TRUNC`: the mutant that does so
  is refuted.
* `SentAllUnlessStaleOrCut`: a download sends all there is if nobody changed the length between `fstat()` and the
  lock, and no signal made a `sendfile()` return early. Neither condition can be dropped.
* `DownloadEndsUnlessStalled`: because the loop counts what it wanted to send, it ends even when the file has become
  shorter while the download waited for its lock, as long as its client goes on reading and ends its urgent lines. The obvious repair of the lost rest of a chunk, to
  count `sendfile_ret`, would loop for ever there: that is its mutant.
* `NothingLost`, `LinesWhole`, `LineReturned`: `readline()` and `read_n()` give back the stream as lines however it
  is cut, also when SIGURG interrupts.
* `LoadedAsWritten`, `WaitEnds`, `BlockingForTransfers`, `PaceKeptUnlessWrapped`: settings mean what the
  last line with a value says; signals do not prolong a wait unless their handler itself waits; whichever way a connection is made it blocks
  again afterwards; a chunk and its pause together take the time they take at the configured rate.

Does not hold, each with a run and a quoted document in `PROJECT.json`:

* a child that exits before `main()` records its pid makes the handler read `end()->second`
  (`CL_unknown_pid`); a refused client exits at once, so the window is hit in ordinary operation;
* a nobody process that ends first frees the slot of a client that is still served, so that more
  clients are served than configured (`DM_over_limit`);
* an ABOR during a listing, or before the file is open, aborts the *next* transfer (`SE_stale_abort`);
* the idle timeout does not bound a `sendfile()` of a whole chunk (`TM_blocked`).

### Observed divergences without a run

They are visible in the models, which do what the code does. TLC refutes the first seven when the named
definition, which is in the module, is added to the run in parentheses:

* `PerIpLimit` (`CL_safety`): an entry that the handler erases under the reference of `++ip2conncount[ip]`
  (`connection_limit.cpp:15`) loses an increment, and the limit of an address can be passed.
* `ExitsAfterFtp` (`DC_crash`): after a failure to bind port 20 (`ftp_protocol.cpp:130`) the nobody process reads the pending
  address as commands and exits while its FTP process lives.
* `CompleteMeansComplete` (`SE_transfer`): a signal during `sendfile()` drops the rest of the chunk, and the reply
  is 226 (`ftp_protocol.cpp:271`).
* `AbortKeepsSession` (`SE_transfer`): after an ABOR has shut the data connection the next write to it raises SIGPIPE,
  which nothing ignores.
* `WholeFileSent` (`TL_locks`): a download that waited for an upload sends as much as the old size says
  (`ftp_protocol.cpp:235`, before the lock at `:238`), and the reply is 226; one whose `sendfile()` is cut likewise.
* `PaceKept` (`TM_waits`): a rate of 2^32 bytes a second or more wraps and may pass for a slow one (`session.cpp:89`).
  With chunks of 65536 bytes that takes a chunk of 15 microseconds, which a local download reaches.
* `IdleClientFoundOut` (`TM_waits`): one urgent byte without a newline keeps `sigurg_handler()` in `readline()`
  (`ftp_protocol.cpp:48`), and the timeout of the `select()` it interrupted does not run, though `readme.md:211-213` relies on it.
* `max_upload_rate = 0`, which the default and STAT take for "no limit", becomes 102400 when it is in the file
  (`config.cpp:31`), and with the default of 0 the division at `session.cpp:94` is by zero: the pause is
  infinite, and `nanosleep()` refuses it: `LimitSpeed`.
* `local_umask = 077` in the file is read as the decimal number 77 (`config.cpp:30`), while the default is octal.
* An upload that waited for the lock of a file that was deleted meanwhile stores into the deleted file,
  and the reply is 226: `Dele`, `Lock`.
* LIST prints the current time where its comment announces the time of last modification
  (`file_utility.cpp:100-104`); listings are not modelled.
* `++client_count` interrupted by the handler leaves the count one too high for ever
  (`connection_limit.cpp:14`): `CountersExactUnlessTorn` has its condition for that.
* `get_char()` at end of file returns an uninitialised byte (`block_socket.cpp:399`), so that the nobody
  process need not exit with its FTP process as `readme.md:135` says: `GetChar`.
* A second USER is refused with "already logged in" before any PASS (`ftp_protocol.cpp:387`): `User`.
* An early failure of a transfer keeps the offset of REST (`ftp_protocol.cpp:226`), a failed RNTO the
  name of RNFR (`:521`): `OpenFails`, `Rnto`.
* An urgent line replaces `cmd` and `arg` of the running transfer (`ftp_protocol.cpp:48`), and it is the
  first waiting line that the handler reads, not the urgent one: `Urgent`.
* An upload cut by ABOR ends with 226 when `read()` returns 0 first (`ftp_protocol.cpp:358`): `RecvEof`.
* REST takes a negative offset (`ftp_protocol.cpp:606`), which RETR takes for more bytes to send and STOR for a failed
  `lseek()`: `Rest`, `Start`, `StartFails`.
* An ABOR that finds its transfer waiting for a lock is obeyed only when other sessions let go of it
  (`file_utility.cpp:137`): `WaitsForOthers`.
* SIGALRM between the arrival of a command and `alarm(0)` ends a session that is not idle: `AlarmFires`.
* A blank line repeats the previous command (`session.cpp:27`): `Parse`.
* `handle_retr` formats its 150 reply (`ftp_protocol.cpp:249`) and never sends it, unlike the upload (`:336`);
  preliminary replies are not in the model.

## 5. Proofs

Every safety property that a passing run checks, and each of its action properties and refinements, is also a
theorem. The proofs start from the named assumptions on the constants and from nothing else:

* `ConstantsAssumption` of `ConnectionLimit`, `DataConnection`, `Session`, `FileTransfers` and `LineReader`: a finite
  set of pids, at least one address, limits in `Nat`; "none" is no port, no address and no account, locked accounts are
  accounts; the longest file has a natural number of chunks; a hole is no session, a chunk has at least one block; a buffer has room for at least one
  character and the final zero;
* `MaxOrphansAssumption` of `Daemon`: a number;
* `ConfigAssumption`: values fit `unsigned int`; the default of a rate is 0 or at least `MinRate`, as the 0 of
  `config.h` is; a file is a finite sequence of lines, each with a value, a word or nothing;
* `TimeAssumption` of `TimedTransfer`: the three timeouts are settings, a second, a chunk and a buffer are not
  empty, and the bound `MaxElapsed` is no shorter than a full chunk takes at the lowest rate a file can ask for.

The other bounds of the exploration (`CountBound`, `MaxLines`, `MaxSent`, `MaxLen`, `MaxInodes`, `MaxOrphans`) may have
any value of their types.

### The main process (`ConnectionLimitProofs`, `PerAddressProofs`)

* `Invariance`: `Spec => []IInv`, and from it `TypeCorrect`;
* `TotalLimitHolds`: `Spec => []TotalLimit`;
* `ZombiesNoticed`: `Spec => []NoLostZombie`;
* `ChildrenTracked`: `Spec => []Tracked`;
* `ImplementsAdmission`: `Spec => AbstractSpec`, the refinement that `CL_safety` checks;
* `CountersExact`: `Spec => []CountersExactUnlessTorn`;
* `PerIpLimitHolds`: `Spec => []PerIpLimitUnlessTorn`.

**The limit on all clients.** `TotalLimit` is not inductive: nothing in it prevents two children, each with
an old copy of the counter, from both passing the test. `IInv` adds what makes that impossible.
`NeverUndercounts`: `client_count` is at least the number of unreaped children, plus the connection that
`main()` has counted and not yet forked for, and between the load and the store so is the register. (The
handler only decrements after a child is gone from `proc`; a lost decrement errs upwards.)
`CopiesCoverGroups`: in every set of living children one holds a copy of the counter at least as large as
the set, namely the one forked last, by `NeverUndercounts` at its fork; a death only makes groups
smaller. `ServingPassedTest`: a child that serves has a copy within the limit. So a group of serving
children is as large as some copy at most, which is within the limit. `HandlerNeedsMain` keeps the
handler's decrements inside a living main process. The lemmas follow this: `TypeStep`, `CountStep`,
`GroupStep`, `TestStep`, `HandlerStep`, one for each conjunct, and in each one step for each action that can
disturb it. For the refinement, `Serve` adds one client to a set that `TotalLimit'` bounds, `Finish`
removes one, and every other action leaves it alone.

**The table of pids.** `Tracked` needs the child that is forked and not yet recorded: `AwaitsRecord` says
that it is the one in `new_pid` and that its address is the one `main()` is about to write.

**The counters and the limit of an address.** Here an upper bound is not enough: an increment whose entry
the handler erases errs downwards. `Exact` states the property with its half-done increments, and
`RegisterExact` that the register holds the counter between load and store unless the counter is torn,
and that only a torn counter is written through a dangling reference. `ForkCounts` and `ReapCounts` say
how the set of an address's children changes. Then `IpCopiesCoverGroups` and `ServingPassedIpTest`
repeat the argument of the total limit for each address, which `TornGrows` allows: an address that is
untorn now has always been.

### The session (`SessionProofs`)

* `SessionTypes`: `Spec => []TypeOK`;
* `LoginSound`: `Spec => []PermissionsMatchLogin`; the invariant `Accounts` adds that the session's uid and
  those proved are accounts, so after a login the uid is not empty and USER cannot replace it;
* `GateHolds`: `Spec => []NothingBeforeLogin`; needed besides: before the login the process is in no
  stage of a transfer and has no data connection, so that no urgent line is obeyed (`NoTransferBeforeLogin`);
* `NothingLeftHeld`: `Spec => []NothingHeldBetweenCommands`; `HeldByStage` says at which stages a file and a
  data connection may exist, which an urgent line between any two of them does not change;
* `TransfersOutliveAlarm`: `Spec => AlarmSparesTransfers`; inductive is `AlarmBetweenCommands`: the alarm is
  scheduled only while the loop reads or has just read a command.

`Kinds` groups the thirty-odd actions by what they leave alone (`Plain`, `Ending`, `Concluding`, `Moving`), so
that each proof splits on these kinds first and looks closer only where an action matters.

### Files and locks (`FileTransfersProofs`)

For any number of sessions, files of any length and any number of inodes:

* `TransferTypes`: `Spec => []TypeOK`;
* `ImplementsSharedFile`: `Spec => SharedSpec`, the refinement that `TL_locks` checks;
* `LocksInvariant`: `Spec => []IInv`, and from it
* `TransfersIntact`: `Spec => []TransferIntact`;
* `WholeUnlessStaleOrCut`: `Spec => []SentAllUnlessStaleOrCut`;
* `AppendsPreserve`: `Spec => AppendKeepsEarlier`.

`Kinds` groups the steps by what they do to the lock and to the file (`Quiet`, `Storing`, `Closing`, and those
that open or lock), and a lemma for each kind (`QuietFrame`, ...) says what it leaves alone. For the refinement
that, and `StageFits` (a download never reaches the stage of an upload), is all that is needed: `Lock`
begins a read or a write, `Closing` ends it, opening may create, `Storing` writes, everything else stutters.

The other three need `Exclusive`: sessions that hold a lock on the same inode all read. From it `HeldFileKept`
follows: the file a session holds is changed by its own stores alone. Then each session can be looked
at by itself. `AppendsAtEnd` says that an APPE stores at the end, so that no block is overwritten.
`MovedInPlace` is `TransferIntact` block by block, and says also at which stages a transfer may have moved
anything (the truncation of STOR comes before them): `OneMore` extends it by a block stored, `ManyMore` by the blocks of
one `sendfile()`, `BeforeIsSubSeq` turns it into the property. `SendsTheRest` says of a transfer without `cut` that what
is left reaches to the end as it was when the size was read, or that the end has been reached, because `handle_retr()`
also counts blocks that `sendfile()` did not find; `SendEffect` is what one `sendfile()` does to these numbers, and why a
short one at the end of the file is no `cut`.

### The data connection (`DataConnectionProofs`)

For any addresses and ports, with both processes free to die at any step:

* `ConversationHolds`: `Spec => []IInv`, and from it
* `ConnectionTypes`: `Spec => []TypeOK`;
* `ConnectionMatches`: `Spec => []MatchedConnection`;
* `AnswersInOrder`: `Spec => []NoStaleAnswer`;
* `ListenersFollowTheSession`: `Spec => []ListenersMatch`;
* `NeverBothWaiting`: `Spec => []NoMutualWait`;
* `ChannelImplemented`: `Spec => ChannelSpec`, the refinement that `DC_crash` checks.

None of these is inductive, because what is right to find in one stream depends on where both processes are.
`Conversation` therefore has one conjunct for each place of the FTP process (`IdlePhase`, `PortPhase`, `LenPhase`,
`AddrPhase`, `ResultPhase`, ... `DeadPhase`), and each says what the nobody process may be doing and what lies in the
two streams: it has the request still before it (`Asked`), it has the connection and is about to pass it on
(`Connected`), its answer is in the stream and it is `Waiting` for the next request or still `Closing` the
listener of the connection it has passed on, it is gone, or it is `Doomed`. A nobody process that is closing may have the
next request before it already, which `Asked` allows for, but not an ACCEPT: that takes a PASV answered before, so
that the socket it accepts on is never the one about to be closed. `Doomed` is the case that makes the
proof more than bookkeeping: after the failure to bind port 20 the address is still in the stream, so that the
nobody process has answered and will now read a 16 as a command and the zero that follows as the order to exit. As
`Doomed` it sends nothing and prepares nothing any more; so no answer can be stale, and a session in which this has
happened either has its refusal already or will meet end of file.
An induction step looks at one action of one process and the phase it leaves and enters. `Requests`, `AddressParts` and
their like say what the head and tail of the stream are. For the refinement, a step of the nobody process is a stutter
or its loss, and what the FTP process receives is by `Conversation` the endpoint that `DataChannel` allows.

### The server with its sessions (`DaemonProofs`)

* `DaemonImplementsMain`: `DaemonSpec => Spec` of `ConnectionLimit`. A session's step is a step of its child or a
  stutter, so that everything proved about the main process is proved of the whole server;
* `SessionsAreChildren`: `DaemonSpec => []DaemonTypeOK`, which no run checks by itself, from `FinishLeaves` and `OutsideKeeps`: only a session's own end
  takes its process out of those that serve;
* `HelpersWithinLimitHolds`: `DaemonSpec => []HelpersWithinLimit`, by `TotalLimit` of the main process and
  `DaemonTypeOK`: the nobody processes, those without an FTP process included, are children that serve. So only FTP
  processes without their nobody process pass the limit.

### The line reader (`LineReaderProofs`)

For a buffer of any length and a stream of any length, cut in any way:

* `ReadlineHolds`: `Spec => []IInv`, and from it
* `ReadlineTypes`: `Spec => []TypeOK`, which says that the buffer is not overrun;
* `StreamKept`: `Spec => []NothingLost`;
* `LinesEndAtNewline`: `Spec => []LinesWhole`.

`OneReads` says that the handler is in `readline()` only while the loop is not: without it the handler would take
characters that belong between two the loop has. `Inside` says that what a caller has taken and is about to take
has a newline at its very end or nowhere, because `readline()` has looked at it with `MSG_PEEK` before it reads.
`NothingLost` speaks about all lines one after the other, `FlattenSeq(lines)`; that a line added at the end adds its
characters at the end (`FlattenAppend`) is a fact about a recursive function and needs induction. The
library's induction theorems have an operator as a parameter, which the installed provers cannot instantiate;
instead the lemma `Least` takes the least number for which a statement fails out of a set of numbers, by the theorem
that `<` on `Nat` is well-founded, and no number is the least.

### Settings and time (`TimedTransferProofs`)

For any configuration file, buffer, chunk, rate and clock:

* `TransferHolds`: `TimeSpec => []IInv`, and from it
* `TransferTypes`: `TimeSpec => []TimeTypeOK`;
* `SettingsAsWritten`: `TimeSpec => []LoadedAsWritten`;
* `TransfersBlock`: `TimeSpec => []BlockingForTransfers`;
* `PaceHolds`: `TimeSpec => []PaceKeptUnlessWrapped`.

`Loading` says that after each line the settings are those of the lines read so far (`MeantUpTo`, which is `Meant` of a
shorter file); `OneLineMore` is its step. It needs that the default of a rate is 0 or not below the floor: a line that
names a rate and gives it no value raises the old value, and only then is that what the whole file means. `Modes` says
for each place whether the descriptor blocks, and that a handler can wait only during a transfer. `Paced` is the property with the part of the pause that is still to come
counted as passed (`TimePasses` is its tick); that the pause is long enough is arithmetic about two roundings, `PauseSuffices`, from
`Division` (a quotient and its remainder) and `Products`, since the prover does not multiply unknowns by itself.

### Only model-checked

The liveness properties: `EventuallyReaped`, `FreedUnlessStuck`, `EveryRequestAnswered`, `NeverLeftWaiting`, `AbortEndsTransfer`,
`DownloadEndsUnlessStalled`, `LineReturned` and `WaitEnds`. They rest on fairness, and so on `ENABLED`, which the
prover does not handle. The properties that the code violates have their counterexamples instead.

## 6. Not modelled, and the plan

Left out for good: the layout of listings (`file_utility.cpp` 15-124, which only formats what the kernel
returns), the kernel's side of capabilities, looking up local addresses, the manual test programs under
`src/test/`, build files.

Partly modelled: of `Session`, the fields `ascii_mode` (read only for the text of a reply), the `umask` that SITE
UMASK sets and the working directory are left out, and commands on names only answer (`FileCommand`); DELE has its
effect in `FileTransfers`, RNFR/RNTO between names have none there. `Config` leaves out addresses. Privileges are
the effective uid in `Session` and the failure of `create_nobody_process` in `Daemon`.

Every component with state of its own has its module, and every safety property, action property and refinement that
a passing run checks has its theorem. What may still be added, in this order:

1. Theorems that no run asks for but that say what remains of a refuted claim, as `HelpersWithinLimitHolds` does: when an ABOR
   can outlive its transfer (`SE_stale_abort`), and which calls may block for longer than the idle timeout (`TM_blocked`).
2. The safety half of a liveness property: a step of `DownloadEndsUnlessStalled` or `WaitEnds` that makes its measure smaller, as an
   action property with a proof, so that only the scheduling is left to TLC.
3. A `Daemon` with `DataConnection` for each session in place of its outcomes, to prove that what `Session` and
   `Daemon` assume of the nobody process is what `DataConnection` shows.
