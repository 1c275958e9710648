# cgofuse in TLA+

cgofuse is a Go binding for user-mode file systems: a Go program implements
`FileSystemInterface`, hands it to a `FileSystemHost`, and the host mounts it
through libfuse, macFUSE or WinFsp and calls it for each request of the
kernel. This directory holds TLA+ models of the parts of it where order,
concurrency and failure matter, the TLC runs that check them on small
instances, and TLAPS proofs of the most important results for instances of any
size. Paths are relative to the root of the repository (`src/` here).

## Inventory

| component | source | state | operations | hard part |
|---|---|---|---|---|
| host life cycle | `fuse/host.go`, `fuse/host_cgo.go:97-120`, `cgofuse_cgo.h:844-900` | `host.fuse`, `host.mntp`, `host.sigc`, the handle table, one goroutine per mount | `Mount`, `Unmount`, `Notify`, the INIT and DESTROY callbacks | three kinds of thread; signals; deferred functions; a Destroy that panics; an unmount that is refused |
| libfuse loader | `cgofuse_cgo.h:55-257` | `cgofuse_module`, the `pfn_` pointers, `cgofuse_libfuse_path`, a mutex | `SetLibfusePath`+`Mount`, `OptParse`, the first call through a pointer | double-checked initialisation, a library that lacks a symbol, a string freed under its reader |
| connection negotiation | `fuse/config.go`, `cgofuse_cgo.h:451-557` | host settings, `fuse_conn_info`, `fuse_config` | setters, `hostAsgnCconninfo`, `hostAsgnCconfig` | what is asked against what is offered, defaults of the library, conversions to 32 bits |
| request dispatch | `fuse/dispatch.go`, `host_cgo.go:256-520`, the tables of `cgofuse_cgo.h` and `host_nocgo_windows.go` | the optional interfaces, resolved once | one handler per FUSE operation | missing methods, a fallback of several calls, panics, the handle that means none, many threads |
| memfs, the tree | `examples/memfs/memfs.go`, `memfs3.go` | nodes, children, link and open counts, the open map | make, remove, link, rename, open, close | rename over and below, hard links, unlinked open files |
| memfs, contents | `memfs.go:35-58,261-362` | size, allocated slice | `Truncate`, `Read`, `Write`, `CopyFileRange`, `Fallocate` | allocation units, overflow, failed allocation, bytes that must read as zero |
| memfs, extended attributes | `memfs.go:399-474`, `dispatch.go:345-408` | the attributes of a node, a slice of each | `Setxattr`, `Getxattr`, `Listxattr`, `Removexattr` | a slice copied outside the lock; a size asked for first |
| memfs, attributes | `memfs.go:197-242,476-509`, `memfs3.go:58-108`, `dispatch.go:590-681` | mode, owner, times, flags | `Chmod`, `Chown`, `Utimens`, `Chflags`, `Setcrtime`, `Setchgtime` | markers that stand for a time |
| option parsing | `fuse/opt.go` | a block of C memory per call | `OptParse`, `optNorm*` | widths and signs across Go, C and sscanf |
| Windows host without cgo | `host_nocgo_windows.go`, `fsop_nocgo_windows.go` | a `sync.Once`, the DLL's procedures, the table of handles | as the cgo host | a panic in the Once; addresses that are reused; two tables of adapters for two word sizes |
| passthrough | `examples/passthrough` | the ids of the process, its descriptors | file-system methods as system calls | ids switched process wide; descriptor numbers that are reused at once |
| notifyfs | `examples/notifyfs`, `host.go:248-264` | a tick counter | a goroutine that notifies | notifications against listings and against the mount |
| hellofs, tracing | `examples/hellofs`, `trace.go` | none | a constant file; logging | nothing |
| constants, error names | `fsop*.go`, `errstr.go` | none | tables | nothing |

How they meet: the application calls `Mount`, which loads the library (loader),
enters `fuse_main`, and from there is called back: INIT negotiates the
connection and stores `host.fuse`; each request goes through a handler
(dispatch; without cgo through an adapter that takes the arguments off the
stack) to the file system (memfs, passthrough and notifyfs are those of the
examples with state of their own); DESTROY clears `host.fuse`. Unmounts come from the
application's threads, from the goroutine that waits for SIGINT and SIGTERM, or
from outside.

What makes each correct, and which properties say so, is listed with the
modules below; PROJECT.json lists the hazards at their lines.

## Modules

### HostLifecycle, MountContract

`HostLifecycle` has one action per step of `Mount` that another thread can see:
`MountBegin`, `ArmSignals` (the channel and the goroutine; not on Windows),
`HandleNew`, then the library's `Attach`, `InitSetFuse`/`InitNotify`/`InitOp`
(hostInit), serving, `DestroyOp`/`DestroyPanics`/`DestroyStop`/
`DestroyClearFuse` (hostDestroy), and the deferred functions in their order:
`HandleDel`, `CloseSigc`, `AwaitDone`, `MountReturn`. `pc` is the control point
of that thread; `gpc[s]` is that of the goroutine of session `s`; a thread in
`Unmount` holds `frame[t]`, its copy of `host.fuse` and `host.mntp`, between
`UnmountSnapshot` and `UnmountFinish` (`hostUnmount`). Two history variables,
`panicked` and `refused`, record the sessions whose Destroy panicked and of
which an unmount was refused; `windows`, chosen once at the start, is the
platform. The kernel's mount table
(`at`), requests and open files (`inUse`), and package os/signal
(`registered`, `buf`) are external. Assumed: `Mount` is not called again before
it has returned (nothing in the code protects that), and on UNIX `Notify` takes
the same copy as `Unmount` and then does nothing (`hostNotify` is empty there).
On Windows there is no goroutine; what WinFsp does with console signals is an
unmount from outside.

`MountContract` is what a caller of `Mount` is promised: an attached file
system is detached before `Mount` returns, `Destroy` is called once between, and
once the file system is down `Mount` returns. `HostLifecycle` implements it
under the mapping at its end.

Properties: the goroutine never outlives its Mount and unmounts only its own
session; no signal is sent on a closed channel; signals are caught as long as
the session serves; `host.fuse` is nil or of this session, except after a
Destroy that panicked; the handle lives exactly as long as the library may call
back; when Mount returns nothing is left; a detached mount returns; a caught
signal ends the mount unless an unmount of it was refused.

### LibfuseLoader

Threads that call `Mount` (with or without a configured path) or `OptParse`:
`SetPathFree`/`SetPathStore` (`cgofuse_set_libfuse_path`, two steps, no lock; a
thread that opens the path between them may read any old path or none), the
unlocked test, `Lock`, the test again, `Open`, `GetApi` (one symbol at a time),
`Publish`, `Unlock`, and a call through a pointer. The header's barriers make
pointers visible before `cgofuse_module`, hence sequential consistency.
Properties: a published library has every symbol and all pointers lead into it;
whoever goes on has a library; at most one is ever published; loading ends for
everyone, with or without a usable library.

### ConnConfig

The setters of `config.go`, the mount with options and a kernel that offers any
set of capabilities, and `HostInit`, which applies `AsgnCconninfo` and
`AsgnCconfig`. The variable `fuse3` is the platform, chosen once at the start.
Properties: a connection may do exactly what a setter or the file system asked
for and the kernel offers, and is never refused (`GrantedIsAskedAndOffered`); a
tuning value is never zero, also where the conversion to a C integer makes it
so (`TuningIsNeverZero`). What libfuse wants by itself before INIT is any subset
of what the kernel offers (`Presets`), so that each bit the code clears has been
set in some behavior of the model. The mount options of the model are those that
libfuse 3 keeps in `struct fuse_config` (`umask`, `uid`, `attr_timeout`); `use_ino`
and `direct_io` are no mount options there and come from their setters.

### Dispatch

Each thread of the library is idle, waiting for a method of the file system, or
about to hand back its answer. The variables `build` (which operation table)
and `fs` (what the file system offers) are chosen once at the start. `Ask` is the library's call through the
operation table (the tables of the three kinds of build are sets of
operations); `FirstCall` says which method the handler calls or that it answers
by itself; `Return` is a method's return together with the handler's code up to
the next call (only hostCreate has one, `NextCall`) or the answer; `Panic` is
the deferred recover; `Receive` takes the answer to the kernel. The file system
is external: what it offers and what it inherits from `FileSystemBase` is chosen
at the start, it may refuse or panic at any call, and it is consistent with
itself. The kernel keeps handles and releases each once.
Properties: kernel and file system agree on what is open, and no handle is
lost; each method gets a handle of its file or the sentinel; success is earned;
every request is answered. A request holds one file and one handle; that of
`CopyFileRange` has a second of each (`file2`, `fi2`, `fh2`, `FileHandles`).

### Memfs, Namespace, MCMemfs

The tree of `Memfs`: nodes `1..ino`, `chld`, link and open counts, the open
map. Each public method is one action, since each holds the file system's mutex
from start to end: `MakeNode`, `RemoveNode`, `Link`, `Rename`, `OpenNode`,
`Create` (hostCreate's Mknod and Open), `CloseNode`. `Rename` is Rename3 with
and without RENAME_NOREPLACE, the only flag it takes, and so also the plain
rename; `lookupNode` includes its ancestor test. A request's path is one the
kernel has looked up but for its last component (`KernelPath`). `errc` is the
last result.
`Namespace` is the same from outside: a map from paths to nodes. `Memfs`
implements it (`ImplementsNamespace`): a rename moves exactly the names below it.
Properties: link counts count names; every node with a name is reachable;
directories form a tree; open files are found by handle; a refused request
changes nothing.

### MemfsData, AbstractFile

`resize` as an operator, with the allocation unit, the wrap-around of the
machine's integers and an allocation that may fail, and the five methods that
use it; each action is one method. `AbstractFile` is a sequence of bytes that
each method changes as POSIX says. `MemfsData` implements it: bytes that were
never written, or were cut off, read as zero, a write beyond the end fills the
gap, and a failed allocation changes nothing. An integer of the model is a
64-bit one: on a 32-bit machine `int(allocsize)` (`memfs.go:38`) is narrower, which
is left out.

### MemfsXattr, MemfsAttrs

`MemfsXattr` composes the callbacks of `dispatch.go` with the methods of memfs:
the methods hold the file system's lock, but `Getxattr` returns a slice that
the callback copies to the caller's buffer after the lock is gone. So
`Getxattr` is a step, each byte of the copy (`CopyOut`) another, and
`Setxattr` and `Removexattr` come in between; `xatr` maps a name to an array
and `bytes` an array to its contents, because whether a new value goes to a new
array is what matters. `Listxattr` fills the buffer under the lock, in any
order of the names, as Go's maps iterate. Properties: no buffer gets bytes of
two values (`ValuesComeWhole`); a size that was asked for suffices unless an
attribute has changed since, and a list is complete (`AskedSizeSuffices`).

`MemfsAttrs` is how a node is made and how each method that changes its
attributes does so, with what `hostUtimens` makes of the times of a request.
Property: a node stays what it was made as, and times are times
(`AttributesMakeSense`); it leaves out the requests of which memfs stores a marker
as a time (below).

### OptParse

The stages of a call: `Asked`, `Normalise` (the format becomes templates, or an
error), `ParseArg` (`fuse_opt_parse`, one argument at a time: sscanf writes as
many bytes as its length modifier says into the slot of the option; an option of
`-o` that matches none goes to `gathered`), `EndParse` (what was gathered goes to the
front as one `-o` and its list), `Store` (the slots are read back in the widths and signs of the Go
types). The block of slots is modelled byte by byte, with bytes of few values.
Property: what the documentation of the function says, stated from the format
and the arguments alone (`ParsesAsDocumented`): each option's value is that of
the last argument for it, and what is left is what no option takes, each
argument once, the options of `-o` before all others and each kind in its order
(`opt_test.go:51-77`), though the same text may stand before and after the
separator. An option of a `-o` list is an argument of its own; behind `--` it is
words like any other and stays in its place. A `-o` with nothing behind it, which
`fuse_opt_parse` refuses, is left out. Whether `--` is dropped when nothing follows
it and something was gathered is left to the library.

### NocgoHost, WinCalls

`Libraries` declares what `NocgoHost` shares with `LibfuseLoader`: goroutines,
libraries and paths. `NocgoHost` is the library and the handles of the Windows host without cgo. The
path is stored in two steps, without a lock (`SetPath`); `FuseInit` is the
`sync.Once`, which counts a function that panics as run; `Fspload` and
`FindProc` are that function, one procedure at a time. A mount's handle is a
heap block whose address is the key of a table: `HandleMalloc`, `HandleEnter`,
the library's loop, `MainReturns`, `HandleDel`. Properties: who gets past the
Once has a whole library, unless a procedure was missing (`LibraryIsWhole`); a
callback finds the host of its own mount (`HandleFindsItsHost`).

`WinCalls` is what crosses between WinFsp and Go: `WinCall` pushes the words of
a call, `Adapt` is the adapter for 64 or for 32 bits, which makes the arguments
of the handler of them, `Filldir` and `Stat` fill in what Go hands back, and
`Answer` is the result. The variable `wide` is the machine. Property: every
argument, offset, size, time and answer is the same on both sides
(`CallsCrossUnchanged`), but for one case named below.

### Passthrough, Notifyfs

`Passthrough`: a call of `setuidgid` is four steps (`Geteuid`, `Getegid`,
`SwitchGroup`, `SwitchUser`) and one of the function it returns is two
(`UserBack`, `GroupBack`), because the ids belong to the process and nothing locks them;
`Call` is the system call, which may take the lowest free descriptor or give
one back, `List` the end of a `Readdir`, `Reply` the kernel's receipt of the
answer. Operations that switch, open and close in the same way are one each
(listed in the module). Properties: whatever overlaps, the process is itself
again when nothing is under way (`IdsComeBack`); an operation that nothing
overlapped acted as its caller (`AloneActsAsCaller`); the kernel's handles are
descriptors of the right files and no other descriptor stays open
(`DescriptorsAreHandles`). The process starts with the same number for its user
and its group (`start`).

`Notifyfs`: the goroutine's `Tick`, its call of `Notify` in two steps (the copy
of `host.fuse` under the lock, `CallNotify` after it), the mount's life, and a
client that watches, lists and receives. The client takes no notification while
its listing is under way (`Readdir` is one step). Property: the client's view
catches up without a second listing (`ViewCatchesUp`).

### MCLibrary, MCMemfsData, MCExamples

Three runs put several modules together that share constants but no state. In
each a variable that is chosen once at the start (`build`, `part`, `example`)
says which module a behavior is about, and the variables of the others stay as
they are. The state spaces add up and do not multiply.

## Runs

| run | bounds | shows |
|---|---|---|
| `host` | 3 mounts, 2 paths, 1 caller, 1 use at a time, unmounts may be refused, UNIX and Windows | the six invariants; `SignalUnmountsOwnSession`, `MountReturnsClean`; `DetachedMountReturns`, `CaughtSignalEndsMount`; the life cycle implements `MountContract`, liveness included |
| `loader` | UNIX: 2 threads, 2 calls each, 3 libraries (one broken), 2 paths, 2 symbols. Without cgo: the same with 2 procedures and the optional one, 2 addresses. Calls: words of 2 and 4 bits, every operation. Options: every type and syntax, one or two options, up to two arguments or the same one before and after a separator, and three of any kind with options of `-o`; bytes of 4 values | a published library is whole, loaded once; every load ends; handles find their hosts; calls cross unchanged; options parse as documented |
| `conn` | every set of setters, every subset of the capabilities offered and every subset of those preset, FUSE3 and WinFsp; tuning values 0..2 with 1-bit C integers | the negotiation on either platform; no tuning value becomes zero in the conversion |
| `dispatch` | 2 threads, 2 files, the second one for `CopyFileRange`, 2 handles, 5 file systems, FUSE3 and WinFsp tables, every operation | handles stay in step; success is earned; every request is answered |
| `memfs` | 4 nodes, 2 names and one that is too long, paths of up to 3, 2 opens | counts, reachability, tree, open map; refusals change nothing; refinement of `Namespace` |
| `data` | contents: offsets up to 7, space for 4, unit 2, a second file of at most 1 byte. Extended attributes: 1 reader, 3 names (one reserved), 4 arrays, buffers of up to 5. Attributes: 2 types, modes, ids and flags, 2 times | refinement of `AbstractFile`; values come whole, sizes suffice; attributes make sense |
| `examples` | passthrough: 2 threads, 2 callers, ids 0..2, 2 files, 2 descriptors. notifyfs: 3 files at most, 13 ticks (two full rises and falls) | ids, authority, descriptors; the view catches up |

Five runs carry a state constraint, each defined with its reason in the MC
module. `conn` explores a platform without the setters of the other one, which
only change the host's own fields, and the tuning values with the default
capabilities, on which they do not depend. `dispatch` explores every operation
alone, and two at a time those that open, close, make, remove or look at the
file: the rest neither make nor give up a handle. While its second file is in use,
either file is only opened, copied from or to and released. `memfs` explores nothing
behind a refusal, which changes no more than the result
(`RefusalChangesNothing`, which the run checks), and opens files in trees of at
most three nodes. `data` keeps the second file short. `examples` starts a
process as root or as user 1, and as root only with no descriptor in the
kernel's hands: the ids and the descriptors do not depend on one another, as
their proofs show, which have an invariant each.

Why these bounds are enough to be interesting: two mounts are what a stale
copy, a stale goroutine or a stale handle needs, three let the middle one have
both a past and a future; two threads are what the loader's and the handlers'
races need; four nodes allow a directory below a directory with two links to a
file, and a rename of the outer below the inner; an offset range of 7 with
units of 2 passes an allocation boundary more than once and meets both the
largest integer and the end of space; a reader and changes between its steps
are what a stale slice needs, two overlapping operations what a switch of ids
that is not undone needs; words of 2 bits have a sign and an upper half, and
bytes of 4 values make every width from one byte to eight wrap. What is proved
(below) holds for all bounds. Every bound is a CONSTANT and named
where it is declared.

`CHECK_DEADLOCK FALSE` is set for `HostLifecycle` (the process may be killed,
or all mounts of the bound made), for `loader` (each thread makes `MaxCalls`
calls, and a call of `OptParse` ends) and for `examples` (the ticks end); the
others check deadlock.

Runs that are expected to be violated, each a sentence of the repository that
the code does not keep (PROJECT.json, findings). In `v_unmount` callers keep to
the documented window for `Unmount`, by an action constraint.

| run | what happens |
|---|---|
| `v_signal` | after an unmount that was refused, further signals are caught and dropped |
| `v_unmount` | a late `Unmount` detaches the next session on the same path |
| `v_libpath` | `OptParse` first: the path of the first `Mount` is not used |
| `v_options` | on FUSE3 `umask`, `uid` and `attr_timeout` given as mount options are cleared in INIT |
| `v_rename` | renaming one hard link of a file to another is refused as a loop |

Further observations that no run reports, since nothing in the repository
promises otherwise; the models contain them unless said:

- A signal between the mount and `signal.Notify` (in hostInit, `host.go:80`)
  takes Go's default action and leaves the mount behind (`SignalDefault` between
  `Attach` and `InitNotify`).
- `cgofuse_set_libfuse_path` frees the old string without the loader's mutex, so
  that two hosts mounted concurrently may have one free what the other passes to
  `dlopen` (`SetPathFree` against `Open`): it can only decide which library is
  opened, in the model, while C leaves it undefined.
- After a `MustFindProc` that panicked, the `sync.Once` is done: later callers go
  on with procedures that are nil, and panic when they call one (`FindProc`).
- `Notify` calls the library with a copy of `host.fuse` after the lock is gone;
  the file system may have been unmounted by then (`CallNotify`).
- A file system that answers -ENOSYS from Opendir together with a handle is
  answered success with that handle (`dispatch.go:410-420`); no file system of the
  model does so.
- Operations of passthrough that overlap may act with the ids of one another's
  callers, and may leave the process with a switched group id. Only the user id
  always comes back.
- `errno()` of passthrough panics on an error that is no `syscall.Errno`, as the
  one of a `Readdir` that cannot open its directory; the request is answered
  with EIO.
- memfs stores UTIME_OMIT as a time, and UTIME_NOW when only one of two times
  asks for it (`Utimens`).
- On 32-bit Windows without cgo the seconds of a time before 1970 reach the file
  system without their sign (`dispatch.go:53-56`, `LosesItsSign` in `WinCalls`).
- `OptParse` sets the value of an option that is absent to zero, and keeps a
  `--` that arguments follow.

## Fairness

`HostLifecycle`: weak fairness of the thread in `Mount` and the library's loop,
of the goroutines, of a thread past the lock in `Unmount` (Go's and the
system's schedulers run runnable threads), and of the end of a use of the mount
(requests end and files are closed). Nothing makes a signal or a caller come.
Nothing makes an unmount succeed where it may be refused.
`LibfuseLoader`: weak fairness of each thread and strong fairness of taking the
mutex, which others release infinitely often; a POSIX mutex lets nobody wait
for ever while it keeps being free. The run `loader` keeps this fairness for
its part and has none for the others, which have no liveness property.
`Dispatch`: a method returns or panics, and the library takes the answer; both
weakly fair. The kernel need not ask.

## Proofs

TLAPS, for all values of the constants under the assumptions the modules name.

`HostLifecycle_proofs`: `Inductive` establishes `IInv`, the conjunction of
type correctness and eight invariants that only hold together: where the
goroutine of each session is for each control point of `Mount` (`GoInv`), which
channels are open and registered (`ChanInv`), `mntp` and `sigc` by control
point, what the kernel has attached (`KernelInv`), `fuse` and the handles. The
properties the runs check are not inductive alone: that a signal goroutine
unmounts only its own session, say, needs that it has ended when the next
Mount begins, which needs that `AwaitDone` waits, which needs that the channel
was closed first. One lemma per part, one step per action. From it:
`TypeCorrect`, `GoroutineSafety`, `SignalSafety`, `SignalsReachTheSession`,
`FuseSafety`, `HandleSafety`, `SignalUnmountSafety`, `ReturnSafety`, and
`ContractSafety`, the safety half of the refinement of `MountContract` (initial states and steps; its liveness
stays with TLC).

`ConnConfig_proofs`: `NegotiationIsExact` and `TuningSafety`, for any width of
the C integers. `PresetInv` says what libfuse may want before INIT: on FUSE3 any
of what the kernel offers, since hostAsgnCconninfo sets or clears each of its
bits; on WinFsp, where it only sets them, nothing.

`Library_proofs` is about four modules. On UNIX, `LoaderSafety` and
`LoaderLoadsOnce`, for any number of threads, libraries and symbols: an invariant
ties the loader's position to the symbols resolved and to who holds the mutex.
Without cgo, `LoadedLibraryIsWhole` and `CallbacksFindTheirHost`: `LoadInv` ties the
thread that runs the Once to the procedures found so far; `TableInv` says that
an address that a thread holds is allocated, that two threads hold different
ones, and that the table leads from it to the thread's host from the entry to
its deletion. `CallsArriveUnchanged`, for every operation on 64 and 32 bits and
words of any size (`Sign`, half the values of a word, is any number above 1):
the two halves of a number make it again, its sign included (`HalvesOf`), and
the words of a call lie one after the other (`PlacedTo`), so that each argument
is found where it was pushed. `ArgumentsParseAsDocumented`, for any format,
arguments and sscanf, pointers of 4 or 8 bytes and bytes of any size. `OptInv`
follows a call through its stages: each slot holds the bytes of what the last
argument so far says for its option (`Holds`), since two slots never overlap
(`SlotsApart`, `WrittenIs`); the bytes read back make the number modulo the width of
the type (`ReadBack`), which is what the documentation has; and what is
gathered and what else is left are two lists of arguments at growing places
(`Kept`), the second up to the separator that is dropped (`Rest`), which one after
the other are in the order of the documentation (`RestIsFiled`, `Filed`).

`Dispatch_proofs`: `HandleSafety`, `CallSafety` and `AnswerSafety`, for any number
of threads, files and handles and any file system. `ChainInv` says where a
request is in its chain of calls and what it has done; `HandleInv` says who has
each open handle, the kernel, an answer on its way to the kernel, or a release
on its way to the file system (`UsersInv`, `OpenInv`), that only one of them has
it (`OneInv`), and that every open handle is with one of them (`KeptInv`). The
three theorems need all of these together.

`MemfsData_proofs`: `ContentsRefinement`, the whole refinement of `AbstractFile`,
which is a safety property, and `SlicesAreInRange`. The lemmas go from the
arithmetic of allocation units (`AllocSizeFacts`: the rounded size is at least
the size, or, where the integers wrap, negative and therefore refused) over
`resize` (a slice seen as bytes is cut or padded with zeros) to one lemma for
each method. Assumed: the unit is not larger than half of the integers.

`Memfs_proofs`: `TypeCorrect`, `LinksAreCounted`, `TreeOfDirectories`,
`NothingIsCutOff`, `HandlesResolve`, `RefusedIsUnchanged` and `NamespaceRefinement`,
for any number of nodes, names and opens and any paths. `TreeInv` joins the
counts, the tree and its reachability with what they need of one another:
counting a node's names needs that there are finitely many (`EntriesAreFinite`)
and that a number not given out yet has none (`FreshNodes`). Reachability is said of sets: nodes with names that
do not include the root have an entry from outside. A rename keeps it since a set
that holds the new parent is entered somewhere on the walk to that parent, and
not at the node that moves, which is what `lookupNode` tests.
`OpenInv` says of the handles that they are what was counted. Every request that
changes the tree has one of four shapes, `Added`, `Removed`, `Linked` and `Moved`,
and each shape keeps `TreeInv`. For the refinement the map from paths to nodes is
`NodeMap`; one lemma per shape says what happens to it, `PathsMove` that a rename
moves exactly the paths that start with the old name.

`MemfsXattr_proofs`: `CopiedValuesAreWhole`, for any threads, names and values.
`CopyInv` says that the array a reader copies from still holds what it saw; it
holds because an array that is written is one that nobody refers to, and there
is one by counting (`FreshIsFree`). `SizesSuffice`: the size of a list is the
number of the bytes of its names, in whatever order they come, so that the size
told is the size needed until something changes (`AskInv`). `AttributesStaySound`,
about `MemfsAttrs`: an invariant by itself, with the types of the attributes.

`Examples_proofs`: `IdsAreRestored`, `AloneIsAuthorized`, from `IdInv`: whenever
the process is not root, some operation is under way that will make it so
again, and, unless operations have overlapped, so for the group.
`DescriptorSafety`, from `FdInv`: each open descriptor has one owner, the kernel
or one step of one operation. `ViewsCatchUp`, from `NotifyInv`, for any number of
files and any length of the queue: the number of files moves by one at each
tick, and for each file the latest news under way says whether it exists, or,
where there is none, the view does.

Each proof module has one lemma per action, or one per conjunct of its
invariant. The assumptions on the constants are those the modules name.

Induction over data, which the prover's library cannot apply to a formula, is
done here by hand: a set of counterexamples that is not empty has a least
element (`LeastElement`), and its predecessor is none. So the lookup of a path,
the flattening of a call's words and the application of templates, which are
recursive functions, are proved about for every length.

Only model-checked: liveness under fairness (`DetachedMountReturns`,
`CaughtSignalEndsMount`, the liveness of `MountContract`, `LoadingEnds`,
`EveryRequestIsAnswered`), for which the prover has no rules that reach. Every
safety property of a passing run is proved.

## Mutants

Operators named `Mut_...` stand before the definition they change and are used
by no specification. Each is a plausible slip in the code (a dropped test, a
swapped order, a missing reset) with which one of the properties fails;
PROJECT.json says which.

## Not modelled

- hellofs (a constant file), tracing, tables of constants and error names, tests,
  benchmark and continuous integration: no state, or no program.
- The buffers of `hostReadlink` and `hostGetpath`: what the library does with a
  text as long as the buffer is not in the repository.
- `Readdir`, `Readlink` and `Statfs` of memfs, and the lookups of notifyfs beyond
  `Exists`: they change nothing.
- What a stat structure holds beyond its size and times, which `WinCalls` has.
- The kernel, libfuse, WinFsp, os/signal, dlopen, sscanf, the ids and
  descriptors of a process, and the file system behind `Dispatch` are external:
  modelled from how the code uses them.

## Plan

Done: `HostLifecycle`, `MountContract`; `LibfuseLoader`; `ConnConfig`; `Memfs`,
`Namespace`; `MemfsData`, `AbstractFile`; `Dispatch`; `MemfsXattr`, `MemfsAttrs`;
`OptParse`; `NocgoHost`, `WinCalls`; `Notifyfs`, `Passthrough`; proofs of the safety
properties of all of them, the refinements included.

Left, the most important first:

1. `Memfs` below `Dispatch`, two requests at a time, with hostCreate as two calls
   that another request's may come between, down to the tree; and the proof that
   the composition keeps what each of them keeps alone.
2. The reply buffers of `hostReadlink` and `hostGetpath`, should the library's
   side of them be written down.
