# libsigar in TLA+

libsigar is a C library that reads system and process information (CPU, memory,
processes, file systems, network) on nine operating systems behind one API. This
directory models it in TLA+: what its caches, samplers, averages, network
statistics and queries compute, and what every function of its nine ports does with the memory,
descriptors and lists it owns. TLC checks the models on small instances; TLAPS proves the
cache, the CPU shares, the disk I/O rates, the network statistics, the running averages,
the string helpers and the process queries correct for every size. All source paths below are relative to the repository.

## The system

A client opens a handle (`sigar_t`), calls functions on it and closes it. The library
has no threads of its own and no locks: one handle is used by one thread. What makes it
hard is elsewhere:

* the handle is full of state that calls fill in lazily and other calls rely on: caches,
  a shared list of pids, buffers of interface messages, the last process read;
* every call goes to the operating system, any step of it may fail, and the early
  returns must leave the handle as the next call, or `sigar_close`, expects it;
* the system changes between two steps of one call: processes run, exit, and have their
  pid reused; the wall clock moves and is set back.

| Part | Source | State | Modules |
|---|---|---|---|
| hash table with expiry | `src/sigar_cache.c` | buckets, count, access times | `SigarCacheMap`, `SigarCache`, `SigarCacheProofs` |
| process CPU share | `src/sigar.c`, `src/os/linux/linux_sigar.c` | per-pid cache, last stat file | `LinuxProcStat`, `SigarProcCpu`, `SigarProcCpuProofs` |
| process disk I/O rate | same | per-pid cache | `SigarProcIo`, `SigarProcIoProofs` |
| network statistics | same | cache of listening addresses | `SigarNetStat`, `SigarNetStatProofs`, `MCSigarNetStat` |
| running averages | `src/sigar_rma.c` | ring of samples | `SigarRma`, `SigarRmaProofs`, `MCSigarRma` |
| string helpers | `src/sigar_util.c`, `src/sigar_ptql.c` | none | `SigarText`, `MCSigarText`, `SigarTextProofs` |
| process queries (PTQL) | `src/sigar_ptql.c` | branches, list of pids, buffers | `SigarPtql`, `SigarPtqlSteps`, `SigarPtqlProofs`, `MCSigarPtql` |
| the handle and all calls on it | `src/sigar.c` and helpers | every owning field | `SigarStatements`, `SigarCalls`, `CallsCommon`, `MCSigarCalls` |
| the ports | `src/os/*` | their fields of `sigar_t` | `CallsLinux`, `CallsSolaris`, `CallsAix`, `CallsFreeBsd`, `CallsOpenBsd`, `CallsNetBsd`, `CallsDarwin`, `CallsHpux`, `CallsWin32` |

How they fit: `SigarCache` is shown to implement the map `SigarCacheMap`; the samplers
abstract the same cache to a map with expiry of their own, without chains.
`SigarProcCpu` extends `LinuxProcStat`,
the reader whose one-entry cache it shares with the other readers. `SigarPtql` uses the
string operators of `SigarText`. `MCSigarCalls` composes `SigarCalls` with the functions of
each port, which call those of `CallsCommon` and are called by them.

## The models

**SigarCache.** One action per iteration of the loops of find, get, cleanup and rehash,
because relinking a chain while it is walked is what can go wrong. `table` and
`new_table` are arrays of chains (sequences of keys), `live` is what was malloc'd and not
freed, `ret` the entry returned. The clock may advance, or be set back, at any step. A chain
that is linked to itself has no sequence: what the model says of links is that an entry is in
one place of one chain.

**LinuxProcStat, SigarProcCpu.** The kernel (`proc`, `used`) and the library take turns.
`sigar_proc_cpu_get` is two actions, one up to `last_time` and one from the read of the
stat file on, with kernel steps between them. The reader's cache, `last_proc_stat`, is
keyed and dated before the read that may fail, as in the code. `reported` sums the CPU
time the replies were computed from.

**SigarProcIo.** The same for the byte counters of `/proc/<pid>/io`. Counters and times
wrap at `Word`; a counter with no line is NOTIMPL, the largest value, and the total is the
wrapping sum of the two whatever they are. A rate is computed as a
double, which is rounded: `get_io_diff` is the set of numbers that rounding by less than one
part in `Precision`, and truncation, can make of the quotient. A double that may be too large
for the conversion to `sigar_uint64_t` (the difference has wrapped) gives any number.

**SigarNetStat.** `sigar_net_connection_walk` reads the six tables of `/proc/net` one line
at a time (`k` is the table, `shown` the lines read of it), and what is built on it is
driven by the walk: the counts of `sigar_net_stat_get` and `sigar_net_stat_port_get`, the
lists, the cache `net_listen` behind `sigar_net_listen_address_get`, and the search through
the descriptors of every process in `sigar_proc_port_get`, alone or for each listener. The pid of a listener for which that
search fails is never written; it is NULL in the model, and no property speaks of it.
Sockets are opened, passed to another process and closed between any two lines or
descriptors. External, from how the code uses it: the kernel shows the lines of a table in
any order, a socket that stays exactly once, one that comes or goes at most once. Inode
numbers are not reused; sockets without an inode (TIME_WAIT) are left out. The code
compares `st_ino` without the device: a process in `Alike` may have another file with the
number. The descriptors of one in `Private` may turn out unreadable.

**SigarRma.** The ring and the walk back over it, one step per iteration; `hist` is the
history the ring is compared with. Averages are (sum, count) pairs: floating point
division is left out.

**SigarText.** `sigar_strcasestr`, the PTQL string operators and the tokenizers as functions
over character codes, against definitions that say what they are for. TLC enumerates all
short strings as states.

**SigarPtql.** Parsing clause by clause with every failure exit, sorting, growing the list
of branches, `find` and `find_process` over a changing process table, references between
clauses, parents, and destruction. A value is a union with the member that was last
written, so freeing the wrong member shows. A part of a clause may be empty, or missing with
the dot that ends it (`NoPart`). Numbers are one digit; attributes are a small set with one of
each type. What a text means (`Means`, `Selects`) is read off the clauses alone, by definitions
that use no branch, so that a flag set wrongly in a branch shows.

**SigarStatements, SigarCalls, Calls\*.** A function is its list of statements reduced to
control and ownership: allocations, opens, frees, tests of pointers and of the last status,
calls, returns. Whether an outside call succeeds, and what a test of data decides, is
open. `SigarCalls` executes the lists one statement at a time with a call stack. A name
holds `junk`, `null`, `set`, `live` or `dangling`; fields of the handle survive the call,
locals go at the return, and what they own is then lost. The client destroys a list if and
only if the call that made it succeeded, as `tests/` does. What the build decides (a
version of the system, a header) is an open test; code no build reaches is left out.
OpenBSD, NetBSD and macOS are copies of FreeBSD's file in large parts: their modules name
the functions they share. Contents of a buffer that may be read before they are valid
(`kinfo`, `psinfo`, `ifmsgs`) are names of their own. A list is one name: the strings its
elements own are freed with it and are not followed one by one, nor are the entries of a cache.

On Windows a DLL is a field that is loaded lazily and freed by `sigar_os_close`. Three of
them (`Mapped`) are linked with the library, so loading them again does not fail. The handle of
another that does not load becomes `INVALID_HANDLE_VALUE`, which is not null, and
`sigar_dllmod_free` passes it to `FreeLibrary` (`win32_sigar.c:410`): by the rule that only what
was acquired may be freed this is one of the listed faults, although the system may do no more
than refuse the handle. The
functions looked up in a DLL are a name of their own where the code calls them without a
test (`Untested`); `GetIfEntry` is taken to be found with `GetIfTable`. `GetLastError` may be
0, which is SIGAR_OK. The registry key of `sigar_os_open` is left out, and so are functions
nothing calls (`sigar_get_adapter_info`, `sigar_proc_exe_peb_get`, `wmi_query_avg`) and the UDP
connections the source disables.

## The runs

| Run | Shows | Bounds |
|---|---|---|
| `cache` | a find or get never loses, leaks, duplicates or misplaces an entry (`IInv`); what it returns is usable (`ReturnedIsLive`); a cache without expiry keeps entries and values (`EntriesStay`); destruction frees all (`DestroyFreesAll`); refinement of the map (`IsMap`); every call returns (`CallReturns`) | keys 0, 2, 7: 0 and 2 collide in the 2 first buckets, 0 and 7 in the 7 of a growth to three; 3 instants: growth, cleanup, shrinking and a step of the clock all happen |
| `proc_cpu` | CPU time is not counted twice (`NoDoubleCount`, for pids no reply of which used another process's data), how far a share may exceed its interval (`SpikeBounded`), whose data and how old a reply may be (`ServedStat`) | 2 pids, of which one runs, exits, is reused once and is asked for, 4 instants, expiry of both caches within them |
| `proc_stat_foreign` | violated: a reply is of the pid asked for (`StatIsOfPid`) | as above, 5 instants |
| `proc_io` | a rate from two readings of one process is the bytes between them per second, to the precision of a double, whichever of the two counters is missing (`RateIsAverage`); the divisor is a second or more (`TypeOK`); the unsigned difference wraps only for a pid whose new process has read less (`RateWithinTotal`); a cached reply is the last fresh one (`CachedIsLast`) | 1 pid reused once, 2 bytes, word of 10, precision of 8 (so that rounding reaches the next number), 5 instants of half a second, any of the counters missing, failing reads, clock steps |
| `proc_io_failed_read` | violated: a rate is never more than what was transferred since the last reading (`RateIsPerSecond`) | as above, no clock steps, no reuse |
| `net_stat` | each connection is counted once, as inbound if its port was seen listening before, as outbound if it never listened (`InboundOutbound`); a listening address is real, none seen is lost, IPv4 goes first (`ListenAddress`); a port's connections are counted once and in their states (`PortCounts`); the process of a port held its socket during the call, and 0 is justified (`PortPid`); lists have every steady socket once, listeners a pid that held one (`ListedOnce`) | 3 sockets of 2 ports and 2 processes, one private and with a like inode number; 2 calls, one change of a socket at any step |
| `rma` | the ring is the last N samples (`RingIsHistory`); an average counts exactly the newest samples up to the first too old (`AverageIsWindow`, `SumIsOfWindow`) | ring of 3, 4 samples (wraps), 4 instants |
| `text` | the helpers equal their reference definitions | all strings up to 5, needles up to 2, over 2 letters in both cases and a space |
| `ptql` | queries return exactly the unchanged processes described (`FindExact`, `AcceptedHolds`); half-built queries are destroyed safely (`DestroySafe`), and the only memory they forget is that of three kinds of clauses (`LeaksOnlyUnseen`); references point back (`RefsPointBack`) | one or two clauses on 2 processes that may change once during a find; up to 3 clauses, wrong ones among them, on one process with methods missing; a list that grows at the second clause |
| `ptql_two_pids` | violated: two Pid clauses both filter (`PidClausesFilter`) | one query, two pids |
| `calls` | no call leaks, whatever fails (`CallsLoseNothing`); `sigar_close` frees every field (`CloseReleases`); nothing freed twice, read freed or unset, no null followed (`NothingUndefined`); between calls every field may be tested and used (`FieldsSound`); every function exists and returns (`TypeOK`) | open, two calls, close, on each of 9 ports; loops take any number of rounds |
| `open_failure` | violated: SIGAR_OK from `sigar_open` means a usable handle (`OpenOkMeansReady`) | one call |

Two calls suffice in `calls` for what one call leaves in the handle to meet another
call, and any third to meet `sigar_close`; a failure that needs three specific calls is not
excluded. Each port's module lists, at its end and with the source line, where its code
departs from the properties (`Leaks`, `Faults`, `Dangles`, `Kept`). The list is exact: in
the states of the run each of the 161 exceptions occurs and no other does. The properties
are stated of handles whose `sigar_os_open` succeeded (`Ready`); `open_failure` is about
the others. `Finished` lets a behaviour end after `sigar_close` or an undefined
step; `text` stops when both strings have their
full length, so deadlock is not checked there.

In `net_stat` two calls let what one call cached meet another, and one change is enough for a
socket to come, go or pass on between a line and the next, or between the tables and the
descriptors; three sockets give one port a listener in both families, or a listener and two
connections. A call that does not use the cache (`Caches`) is considered by itself, since
nothing it leaves in the handle can reach another.

Fairness is used once, in `cache`: weak fairness of the steps inside a call, since a call
that is running keeps running. Calls, clock and destruction need not happen.

## What is proved

`SigarCacheProofs`, assuming `CacheAssumption` (keys are natural numbers, at least one
bucket, NULL is no key or value, times and periods fit the word):

* `IInvHolds`: `Spec => []IInv`. `Linked` and `Counted` are what matters. They are not
  inductive: `Control` adds that a rehash has emptied the buckets it passed, that the key
  about to be inserted has no entry (the count is already incremented), and that a result is
  live. One lemma per action; lemmas on chains (unlink, tail, cons, append) carry the rest.
* `ReturnedIsLiveHolds`, `DestroyFreesAllHolds`, `EntriesStayHolds`: from `IInv`.
* `IsMapHolds`: every step is a step of `SigarCacheMap` or a stutter. It needs `Past`
  (access times are not in the future unless the clock was set back), also proved.

`SigarRmaProofs`, assuming `RmaAssumption` (ring of at least one element, integer values,
natural rates, a positive last instant):

* `TypeHolds`, `RingIsHistoryHolds`, `AverageIsWindowHolds`: from `IInv`, which adds that every
  sample carries a time, which sample the walk is at, and that each one counted is young enough.
* `SumIsOfWindowHolds`: the sum is that of the samples counted. Partial sums of every length
  exist (`SumsExist`) and the recursive function of the property is one; a pass adds a sample.

`SigarProcCpuProofs`, assuming `StatAssumption` and `CpuAssumption` (a second, the lifetime of
`last_proc_stat`, the bound on reuses and the last instant are positive, times fit the word) and
`NullAssumption` (NULL is neither an entry nor a call):

* `NoDoubleCountHolds`, `ServedStatHolds`: from `IInv`. `NoDoubleCount` is not inductive: what
  was reported may still grow by what the next call reads, or is served from
  `last_proc_stat`. `Fair` says that this too was used, of every entry, and `Pending` of the
  entry a call has read and not yet written. `StatSound` and `FaultsSound` say whose data
  `last_proc_stat` and a call in progress hold, and how old they are; a lemma shows that whole
  seconds less than `StatExpire` apart are times less than `StatExpire` seconds apart.
* `SpikeBoundedHolds`: from `Pace`, on top of `IInv`. A process uses no more than the time that passes, so the
  total in an entry bounds what any later read returns (`Paced`), and the total was read not
  long before the entry's time (`Timely`). Both must also hold of the entry a call works on.
* `TypeHolds`: from `IInv` and `Pace`, which bound the times and counters of the entries.

`SigarProcIoProofs`, assuming `IoAssumption` (a second and the precision are positive, times and
four times the bytes fit the word) and `NullAssumption` (NULL is no entry):

* `TypeHolds`, `RateIsAverageHolds`, `CachedIsLastHolds`, `RateWithinTotalHolds`: for every number
  of pids, reuses, bytes and instants, every word and precision. `IInv` adds `Faithful` (the counters in an entry are
  what was read of the process it names, which since then only grew) and `Pending` (a call
  between its two halves has changed nothing but `last_time`). Lemmas say what each counter
  and the total are, for each set of lines the kernel writes (`TokenFacts`, `TotalFacts`),
  what the wrapping difference of two of them is, and that the numbers a double may be
  truncated to (`ConvertedFacts`) are within the bounds of the property.

`SigarNetStatProofs`, assuming `NetAssumption` (the fields of a socket are typed, the family
of an address is that of its table, NULL and pid 0 are neither port nor process, there are
finitely many sockets):

* `ListenAddressHolds`: `Sound` (each cached address is one a socket of the port listened on)
  and `Complete` (no port or IPv4 listener known is missing) need `ReadSoFar`: a walk has
  cached every steady listener in what it has read.
* `PortPidHolds`: `Searching` says the same of the search: a steady socket of the port is
  found once its table is read, and no process passed over held it all the time, unless it is
  private.
* `InboundOutboundHolds`, `PortCountsHolds`, `ListedOnceHolds`, `TypeHolds`, on top of that
  invariant: a counter is the
  size of a set `S` of sockets the walk has handed on, and `Covers(S)` says what every such set
  has: sockets of the call whose lines were read, among them all that stay. Each line adds one
  member or none, so the counters follow from the size of a set with one more element.

`SigarTextProofs`, assuming `TextAssumption` (characters are positive numbers, no letter in the
other case is a lower-case letter or the space) and `MaxAssumption` (the bounds are numbers). The
specification builds every string of its characters, so each theorem is about all strings:

* `FirstOccurrenceHolds`: `RestMatchesIs` shows that the inner loop of `sigar_strcasestr` decides
  whether the needle begins here, and the outer one stops at the first place where it does.
* `StringOpsHold`: suffix, prefix and substring by their characters, and `strcmp` as the first
  difference, which is that of the folded strings under the I modifier.
* `SkipsTokensHold`: `Skipped(s, q, c)`, at `q` just `c` tokens have ended or the line has, is kept
  by each round of `sigar_skip_multiple_token` (`SkippedNext`).
* `WordsOfLineHold`: `Told(s, g, p, W)` says of the words from `p` on what the theorem says of
  the line. It holds of no words at the end, and of one word more in front (`OneMoreWord`); the
  induction goes back from the end of the line.

A loop is a recursive function in the model: `ScanExists`, `CarryExists` and `JumpExists` show that
the functions so defined exist, which is what their equations rest on.

`SigarPtqlProofs`, assuming `PtqlAssumption` (finitely many pids, which are positive; a list of
branches has room for one; a text is a sequence of clauses with typed values). The texts, the
hosts and what changes during a find are otherwise arbitrary. `SigarPtqlSteps` defines the layers of
the invariant and says what each operator and step does to them; `SigarPtqlProofs` adds what needs
the theory of finite sets (the ascending list of pids, the count of forgotten blocks, that every
clause has its branch) and has the theorems. The layers:

* `Basic`: every branch is what `ptql_branch_add` makes of its clause but for its buffer, each
  clause has one branch, a list with references is in the order of the text, and the loops are in
  bounds. It needs what each init function may leave behind when it fails (`InitOK`), and that
  filling a buffer (`ListBuffer`) or sorting (`ListSort`) keeps all this. From it follow
  `TypeHolds`, `DestroySafeHolds`, `RefsPointBackHolds`, `LeaksOnlyUnseenHolds`.
* `Seen`: the branches asked so far have said yes to what they read for the process at hand, and
  their buffers hold it, so that a reference compares with the value read for this process. For
  `AcceptedHoldsAlways`; of a process that did not change it is also what can be read now.
* `Chosen`: with Pid clauses, the list find walks holds the live processes one of them selects,
  without repetition if there is one; without, it holds the live processes.
* `Judged` and `Found`: of the processes passed, and in the end of all, those accepted are those
  that fit the branches, for every process that did not change. `MeansFits` takes this from the
  branches back to the text, for `FindExactHolds`: that a branch asks what its clause says is
  part of what each init function establishes (`Told` in `InitOK`). The theorem leaves texts
  with `Port.udp` out, which the code looks up as TCP.

The installed provers cannot use the library's induction theorems. Where an induction is needed (the
partial sums, the blocks a destroy forgets, the ascending list of pids, the loops over a string), a
lemma (`Least`, `Upwards`, `Downwards`) takes an extreme number for which the claim fails, and the
step contradicts it.

Only model-checked: `CallReturns` (liveness is out of the prover's reach), and `SigarCalls`, whose
properties depend on the functions of each port: there is nothing to generalise over but the number
of calls, and a proof would be a case for each of their statements, as the run is.

## Where the code departs

Runs and findings: a failed read of a stat file is answered from another process's
(`linux_sigar.c:728`); a failed read of the I/O counters makes the next rate too high
(`sigar.c:273`); two Pid clauses are joined by or (`sigar_ptql.c:1861`); a failed
`sigar_os_open` is reported as success (`sigar.c:84`).

Met while modelling, described in the hazards or the modules, without a run of their own:

* after the clock is set back, the unsigned age of a cache entry is huge and it is dropped
  (`sigar_cache.c:141`), and the stat cache stays valid (`linux_sigar.c:723`);
* a repeated `sigar_proc_cpu_get` within one tick returns a percent never stored
  (`sigar.c:170`); a reused pid, whose counters went down, gives a huge I/O rate (`sigar.c:215`,
  and `RateWithinTotal` shows it is the only case);
* `net_listen` never expires: connections of a port that listened once stay inbound (`sigar.c:977`);
* the longest average covers N-1 samples (`sigar_rma.c:185`); a current time of 0 counts as
  not given (`sigar_rma.c:189`);
* PTQL: the value of an environment variable compared with a numeric attribute is not freed
  (`sigar_ptql.c:1603`), nor is an empty name of a pid file or of an `Env` clause, whose
  `data_size` is 0 (592, 797); string operators on a pid index a table of numeric ones (1084); a
  pid file without a number gives pid 0 (1022); `Port.udp` looks for a TCP port (1301);
* the interface buffer is freed but kept after a failed ioctl, with the socket open
  (`sigar.c:2003`; `tests/valgrind-leak-check` expects "definitely lost: 0 bytes");
* BSD, macOS, AIX, HP-UX, Solaris: the "last pid" is set before the read that may fail;
* macOS: `errno` is returned after Mach calls, which do not set it (`darwin_sigar.c:470`);
  task ports leak (753, 871, 938, 961); descriptors overwrite the interface messages (540);
* HP-UX: `status = f() != SIGAR_OK` (`hpux_sigar.c:809`, 899); AIX: the process loop does
  not end on -1 (`aix_sigar.c:701`); Linux: `has_nptl` from the second number of the kernel
  version (`linux_sigar.c:227`);
* Windows: the interface buffer may be reallocated under another name and lost
  (`win32_sigar.c:2913`); a second look-up of a DLL's functions is skipped after the first
  failed (430); the handle of a DLL that did not load is freed (410); an object is used after the buffer it is in was read again (2108); SIGAR_OK
  is returned for lists never made when there is no error code (933, 2632, 3610).

## Not modelled

* The values the ports read and format (memory, CPU, file systems, NFS counters) are copied
  from the system: there is nothing to check them against. This is why the ports are `partly`
  modelled: control and ownership of every function, not its numbers; two hazards
  (`linux_sigar.c:227`, `sigar_ptql.c:1084`) and the percent of `sigar.c:170`, which is whatever
  the caller's buffer held, are about such values and have no property.
* That loops over system data end (`aix_sigar.c:701`): the number of rounds is open in
  `SigarCalls`.
* PTQL on Windows services and with PCRE: regular expressions are a library's; the services
  are queried with the same clauses, and their ownership is in `CallsWin32`.
* The values of `sigar_uitoa` and `sigar_skip_line`, and the socket tables of the other ports
  (their walks are in `Calls*` without values).
* `sigar_signal.c` is a table, the log is output only, `sigar_version.c.in` is
  filled in by the build. `tests/` and `examples/` are clients: the client of `SigarCalls` does
  what they do.
