# A TLA+ model of bangon

bangon (`on.dll`) is an extension of the Windows console debuggers: a handful of
commands that read the memory of a halted target through the debugger engine and
print what they find. This directory holds TLA+ modules of its core, TLC
configurations that check them, and theorems about them proved with TLAPS.

The program has one thread, and the target does not run while a command does.
What makes it hard is not concurrency but the data: every read may fail or stop
short, what is read may be corrupted, quantities are 64 bits wide and are cut into
bit fields, and some state (globals, caches, a result object, the engine's current
thread and its output callback) outlives the call that made it.

## The system

| Component | Source | State | Operations | Correct when |
|---|---|---|---|---|
| Paging | `kd.cpp` 591-816, `page.h` | `mode_`, `base_`, `result_` | two constructors, `Translate`, `PrintResult` | it gives the processor's answer, or fails and gives none |
| Translation results | `kd.cpp` 258-589 | copies of the entries of one walk | `Print` | rows belong to the walk; each virtual address printed maps its entry |
| `!v2p`, `!pfn2` | `kd.cpp` 914-986 | locals of one command | the command | the lines it prints belong together |
| PfnDatabase | `kd.cpp` 818-912 | database base, record size, field positions | constructor, `operator bool`, `DumpRecord` | the record decoded is the one of the page |
| CommandRunner | `kd.cpp` 25-233 | COM client and control, output callback | `Evaluate`, `GetMsr`, `ReadPhysical`, `ReadVirtual`, `GetTypeSize`, `Printf`, `Run` | failures are reported; the callback does not outlive its registration |
| `!dt` | `dt.cpp` | global queue and visited set | `AddTreeItem`, the command | every reachable node once, breadth first; it ends on any links |
| Symbol manager | `symbol_manager.cpp` | two global caches, failures included | `get_field_offset`, `get_field_info` | the engine is asked once per field; fields used together are of one build |
| Vtable manager | `vtable_manager.cpp` | global cache, static buffer | `resolve_type` | never another object's type |
| PEImage | `peimage.cpp` | directories, sections of one image | `Load`, dumps of imports, exports, sections, exceptions, resources, load configuration | walks end and stay within their table |
| Threads, target info | `thread.cpp`, `common.cpp` | current thread of the engine; processor types read at load time | `!ts`, `forEachThread`, `init` | the current thread is as before |
| Utilities | `utils.cpp`, `common.h` | none | `get_args`, `ptos`, `load_pointer`, `Log` | pure |
| Entry points | `dllmain.cpp`, `bangon.def` | the engine's function table | `WinDbgExtensionDllInit`, `!help` | stored before use |

How they interact: a command makes a CommandRunner, which makes a COM client of
the engine; `!v2p` makes a Paging object over it, and for 64-bit targets a
PfnDatabase, whose `DumpRecord` calls `Translate` on the same Paging object a second
time. Result objects call back into the runner for `nt!MmPteBase`. The field
positions of the PFN record come from the symbol manager, which lives as long as
the extension. `!dt` uses the older callback interface (`ReadMemory`,
`GetExpression`) and its globals.

## Modules

| Module | Stands for |
|---|---|
| `Words` | `address_t` as the set of its 1 bits; `extract`, shift, 64-bit addition with carries |
| `PageEntries` | the unions of `page.h`: one operator per bit field that steers a walk |
| `PagingArch` | the processor's linear-address translation, stated for all paging modes at once and without shifts or additions; the reference for the code |
| `Mmu` | abstract specification: a translation is one step whose answer is the processor's |
| `Paging` | class Paging: constructors, `Translate`, one action per `ReadPhysical` |
| `V2p` | extends `Paging` with `!v2p` and `!pfn2`, the rows of the result classes, and how a PFN record is found |
| `GraphSearch` | abstract specification: a search that lists each node it reads once and ends when no link is left |
| `SplayDump` | `!dt` |
| `SymbolCache` | `symbol_manager.cpp`, over symbols that change |
| `PfnRecord` | extends `SymbolCache` with PfnDatabase: how a PFN record is understood, over a session |
| `Threads` | extends `SymbolCache` with `!ts`, `forEachThread` and the processor types |
| `CommandRunner` | class CommandRunner: construction, destruction, `Printf`, `Run` and the output callback |
| `VtableCache` | `vtable_manager.cpp` |
| `GetArgs` | `get_args` of `utils.cpp` |
| `ShortRead` | what `load_data` leaves of a number when a read stops short |
| `PEImageLoad` | `PEImage::Load` and the section table (`!sec`) |
| `ImportWalk` | the three import tables (`!imp`, `!delay`) |
| `ExportTable` | the export directory (`!ext`) |
| `ExceptionWalk` | functions, unwind codes, handlers and scopes (`!ex`) |
| `ResourceWalk` | the recursive walk for version data (`!ver`) |
| `GuardTable` | the load configuration and its call targets (`!cfg`) |
| `ImageCommand` | composes `GetArgs` and the six modules from `PEImageLoad` on into the commands of `peimage.cpp` |
| `PagingProofs`, `V2pProofs` | proofs about words, the page walk and its commands |
| `SplayDumpProofs` | proofs about `!dt`, its refinement of `GraphSearch` included |
| `PfnRecordProofs`, `ThreadsProofs`, `VtableCacheProofs`, `CommandRunnerProofs` | proofs about sessions and about single objects |
| `ImageProofs` | proofs about the commands on images, part by part |
| `MC...` | finite instances |

An operator named `Mutant_X` is X with a plausible bug. Nothing uses it: it stands
beside X to document what the properties notice, and each property has one.

### Words and entries

A 64-bit word is the set of the positions of its 1 bits, so masks are
intersections with an interval, `|` is union, and nothing is scaled down: TLC
works on real addresses, and the theorems quantify over all 2^64 words. `Plus`
is the only operation with a carry. `extract` is the function of that name
(`kd.cpp` 21-23); the fields of `page.h` are `extract`s at the positions of their
declarations.

The shifts of bit fields (`pde_2mb.to_page << 21` and others) are 64 bits wide in
the model. That is how the compiler named in the Makefile, `cl`, treats a bit-field
declared with a 64-bit type. Under the integral promotions of the C++ standard the
fields of at most 31 bits would become `int` first; a build with such a compiler is
outside the model. So is the x86 build: the commands pass `address_string` objects
through `...` to `%s`, which works only where such an object is passed by address.

### Paging

| Model | Code |
|---|---|
| `mode`, `base`, `result` | `mode_`, `base_`, `result_` |
| `virt`, `phys`, `ret` | parameter, out parameter and return value of `Translate` |
| `walk` | the locals `pml4e`, `pdpte`, `pde`, `pte` read so far |
| `mem` | physical memory read so far |
| `FromRegisters`, `FromDirBase` | the two constructors |
| `Translate(v)` | the switch of `Translate`, up to the first read |
| `Read32BitPde` ... `ReadPte` | one read of the walk and what the code does with it |
| `Failed`, `Absent`, `Maps`, `PointsToTable` | the exits of a level: failed read, entry not present, page found, next table |

`mem` models an unknown but fixed memory: a first read of an address returns
anything, a second read returns the same. In 32-bit mode a read
fetches eight bytes, so an entry is a word with arbitrary upper half. The caller's
`phys` starts as `Undefined`, which is no word: any use of it is visible.

### V2p

`step` is the position in the command; the Paging object is the one of the extended
module, and its actions are used unchanged. `shown` records the lines that matter:
the entries of the rows, the virtual addresses of the tables printed next to them,
the physical address, and where the PFN record was read. `pteBase` and `pfnBase` are
`nt!MmPteBase` and `nt!MmPfnDatabase`, which may be unreadable (0) or not a valid base.
The two `Print` functions for 32-bit results give their first `Printf` two arguments for
three conversions (`kd.cpp` 341-345, 364-368): the index stands for the base, the entry
for the index, and nothing for the entry. The model lets them crash, or print a row of
the page directory that is `Undefined`; the row of the page table has a `Printf` of its
own and is right.

Engine calls are modelled by their outcome: a value, or a failure. A physical read is
whole or failed. `_MMPFN` has 48 bytes.

### SplayDump

Globals and locals of `!dt` are variables of the same meaning (`queue` is
`TraverseQueue`, `check` is `CorruptionCheck`). A turn of the loop is three actions,
`PrintItem`, `AddLeft`, `AddRight`, because an exception may leave between
them (`Abort`) and the next command finds the globals as they were. `mem` is as in
Paging: any graph of links, with any nodes unreadable. `GetExpression` may return a
sign-extended address in a 32-bit target. `messages` records the links a message was
printed for.

### SymbolCache, PfnRecord, Threads

`build` is the set of symbols the engine has; `Reload` exchanges it between commands.
The two maps keep every answer, failures too. `PfnRecord` builds the database member by
member, in the order of the member initializers, tests it and decodes a record; what is
shown of a record is the place each field was taken from. `Threads` has one action per
engine call of `forEachThread`; each may fail, and then leaves its out parameter as the
code left it: the number of threads is any number, and thread ids are whatever the
vector held. `machine` is what the engine reports now, `target` what `init` read when
the extension was loaded. `symbols` is no state of the program: it remembers the build
that was loaded when the first TEB was shown. A 32-bit
processor runs 32-bit code only (`MachinesAssumption`). The callback given to
`forEachThread` prints and does not throw.

### CommandRunner

`life` is the member under construction or destruction, `clientRefs` and `ref_` count
the references to the engine's client and to the callback object, and `stack` is the
nesting of `Printf`, `Run` and the callback. The body of a command and of a callback is
any sequence of calls. No command of this commit calls `Run`, so `CapturedIsOwn` and what
`PrintfIsShown` says of the time after a `Run` are about the class, not about something
the program does today.

### VtableCache

`vtable_map_` and `symbol_name`, the static buffer of `push`, are the variables of the
code. A lookup that finds no symbol leaves in the buffer what an earlier one put there,
and the type found in it is taken. Nothing in this commit calls `resolve_type`, so the
callers of the model are any.

### The commands on images

Each part is a module with its own `Init` and `Next`, named after the functions it
models, and is checked as a part of `ImageCommand`, which takes every one of them by
`INSTANCE` with its own variables in place of the part's. A behaviour is one command:

    args --ArgsGiven--> call --LoadImage--> load --ImageLoaded--> member --Dump--> walk

`Step` is a step of the part the phase is in. Between phases the composition keeps what
the code keeps: of the words of the argument string that there is a second one (its
meaning is then any value the command gives it), of the headers the machine and the
width. `Dump` begins the walk over a table of any image that agrees with these. A
command whose image is not loaded stops in phase `load`, as the code prints nothing.

Memory of images is a function from addresses to contents; what cannot be read is not in
its domain and reads as zero, which is what `load_data` and `load_pointer` return. The
optional header, the section headers, the load configuration and the guard table may
also be read in part: `load_data` zeroes its buffer, keeps the bytes of a read that
stopped short and goes on. Such a read may end within a directory, within a section
header, or within a number, of which the low bytes are then kept (`ShortRead`). A load
configuration that is cut before `GuardFlags` still has its `GuardCFFunctionCount`; the
table is then shown, in steps of 4 (`LoadConfig`). `Described` is the table the whole
configuration describes. The width of pointers in the target
(`image.ptr`) is a fact of the target, not of the image.

## What TLC checks

| Run | Instance | Shows |
|---|---|---|
| `PagingModes.cfg` | 3 virtual addresses with different indexes at each level, 9 memory contents (tables, large pages, with and without high bits, not present, unreadable), every combination of the control-register bits, MSR readable or not, 2 directory bases of which one is no table address; 1 translation | `TypeOK`, `TranslationCorrect`, `RegistersSelectTables` |
| `PagingReuse.cfg` | 2 addresses, 4 contents, running machines; 2 translations | `ResultIsOfLastWalk`, `ImplementsMmu` |
| `V2p.cfg` | 7 machines, both commands with and without directory base and `32`, 4 values of `nt!MmPteBase` | `V2pTypeOK`; the lines of a command agree (`ShownTranslation`, `SelfMapAddresses`, `RecordOfThePage`) |
| `V2pShown.cfg` | as `V2p.cfg` | a violation, see Findings |
| `SplayDump.cfg` | 10 different nodes over 4 addresses and any of them unreadable, 32-bit and 64-bit targets, any number of commands | `TypeOK`, `OncePerNode`, `Complete`, `BreadthFirst`, `SpanningTree`, `DumpEnds`; `RefinesSearch` |
| `SplayMessage.cfg` | as above | a violation, see Findings |
| `PfnRecord.cfg` | sessions with two sets of symbols and none; one set misses a field, and two fields change places | `AskedOnce`, `OneBuildDecodes` |
| `PfnInside.cfg` | as above | a violation, see Findings |
| `Threads.cfg` | 3 threads, 3 machines, up to 2 failing calls per command, counts up to 4 where one was never written, up to 2 changes of symbols or machine between commands | `TypeOK`, `ThreadRestored`, `RowsAreThreads`, `LayoutOfTheTeb`, `TsEnds` |
| `CommandRunner.cfg` | up to 6 calls of `Printf` and `Run` and lines of output, any constructor step failing | `TypeOK`, `ReferencesBalance`, `CapturedIsOwn`, `PrintfIsShown` |
| `VtableCache.cfg` | 4 vtables known in one, both or none of two sets of symbols | `TypesWereAnswered` |
| `ImageCommand.cfg` | the seven commands, all argument strings of up to 5 characters, headers and tables whole, with parts missing and cut short | `TypeOK`, `WordsOfArgs`, `LoadedIsTheImage`, `SectionHoldsDirectory`, `ImportsAreListed`, `ExportsAreListed`, `FunctionsAreListed`, `HandlersAreFound`, `VersionOfTheImage`, `RowsOfTheTable`, `CommandReturns` |

Why the bounds are enough.

- A page walk has at most four reads and no loop, and its actions look at single bits:
  one word with and one without each bit a guard looks at, present at every level by
  choice of the contents, covers the control; words with bits below, within and above
  every field cover the data. `MaxCalls` is 2 where the result is looked at because no
  command makes more calls.
- In `SplayDump` four addresses give chains, joins, self-links and cycles of several
  lengths.
- `Threads` compares the first, a middle and the last thread; two failures are what it
  takes for one to hide another. Two changes are what it takes for symbols to be gone
  and back, or for symbols and machine to change both.
- In `CommandRunner` six calls reach a `Run` with two lines, each of which prints, and a
  `Printf` after it. In the theorems the bound is any number.
- Five characters hold two words with a repeated space; three functions, imports or scopes
  have a first, a middle and a last one. `SumBits` and `SizeBits` stand for 32: with
  five bits sums and sizes wrap within the tables. `Cuts`, 1 and 4, stand for the powers of
  256: a number that is cut is lost, loses its high part or is whole. `Flag` stands for 2^31 and `Unknown` for
  0xffffffff: both lie beyond every other value of their instance. `MaxDepth` 4 is one
  more than a resource tree has levels, so only a cycle overflows.

Deadlock is checked in `SplayDump`, `VtableCache` and `Threads`, which always have a next
command. The others stop when the object is gone, the calls are made, the command may
have crashed or it has ended.

Fairness. `ImageCommand` assumes weak fairness of its next-state relation,
`SplayDump` of the loop's steps and `Threads` of `Proceed`, the steps within a command:
the engine calls a command on its own thread and the command runs until it returns. No
step is promised by a user, and no read and no engine call is promised to succeed.

What properties take for granted. In all of these cases the model does what the code
does; only the claim is not made.

- `TranslationCorrect` and `ShownTranslation` are about bases that are table addresses
  (`Aligned`). A directory base given by the user with bits below its alignment is used as
  it is, and its translation is not the processor's. CR0 has no bits above 31 in the runs.
- `ResultIsOfLastWalk` leaves out walks that a failed read cut short.
- `ShownTranslation` says of a 32-bit result what its rows say; an `Undefined` row is read
  as any entry (`Readings`).
- `OneBuildDecodes` counts "no symbols" as a build: a record whose places all failed to be
  found decodes at 0xffffffff, and stays so.
- `RowsAreThreads` is about threads the engine could switch to and whose TEB it named. After a
  failed switch a row shows the TEB of the thread before it, and after a failed TEB call
  whatever the variable held.
- `LayoutOfTheTeb` needs both processor types to have been read when the extension was
  loaded, and symbols are those at the first listing: the cache keeps its answers.
- `TypesWereAnswered` allows the type an earlier lookup left in the static buffer.
- `SectionHoldsDirectory` is about ends that do not wrap at 2^32.
- `ImportsAreListed` is about images as wide as the pointers of the target, the names in
  `ExportsAreListed` about tables that can be read and ordinals within them. Names of
  imports and exports are shorter than 100 bytes, see Disagreements.
- `FunctionsAreListed` is about x64 images; the code reads ARM64 unwind data as those of x64.
- `RowsOfTheTable` is about tables that fit 32 bits and items that fit 8 bytes (`Fits`), and
  that row k is item k needs the item size to have been read.
- `CommandReturns` excuses (`Excused`) an export ordinal from beyond the table; resources
  that form a cycle or are nested deeper than `MaxDepth`; and a guard table whose items are
  longer than two words or whose size does not fit its 32 bits. A load configuration
  without guard members counts as one with what follows it in memory: it is excused
  when that looks like such a table.

## What is proved

For all values of the constants, with no bound on the graph, the number of commands,
threads or calls, or the contents of memory:

| Theorem | Property | In words |
|---|---|---|
| `PagingTyped` | `TypeOK` | type correctness of Paging |
| `TranslationIsCorrect` | `TranslationCorrect` | `Translate` returns true with exactly the processor's physical address, or false with `phys` untouched because the processor would fault or a read failed |
| `RegistersAreUsed` | `RegistersSelectTables` | mode and top table are the processor's; assumes that CR0 has no bits above 31 |
| `ResultIsFresh` | `ResultIsOfLastWalk` | what `PrintResult` shows is of the last walk |
| `PagingIsMmu` | `ImplementsMmu` | Paging implements Mmu; assumes that named bases are table addresses in every mode |
| `CommandUsesPaging`, `CommandTranslates` | `TranslationCorrect` | both translations of a command are correct |
| `LinesAgree` | `ShownTranslation` | rows, physical address and failures shown by `!v2p` belong together, the undefined row of a 32-bit page directory aside |
| `AddressesMapEntries` | `SelfMapAddresses` | each virtual address printed next to an entry leads through the self-map to that entry |
| `RecordIsOfThePage` | `RecordOfThePage` | the PFN record is the one of the page |
| `LinesAreTyped` | `V2pTypeOK` | all that is printed are words, but for the row of the page directory in 32-bit paging |
| `SplayDumpTyped`, `NoNodeTwice`, `DumpIsComplete`, `MessagesLeaveTree` | `TypeOK`, `OncePerNode`, `Complete`, `SpanningTree` | `!dt` prints exactly the reachable nodes, once each, and its messages are those links that leave a spanning tree |
| `RowsAreBreadthFirst` | `BreadthFirst` | every row comes at its distance from the root, in order, and `L=level#count` grows |
| `DumpIsSearch` | `RefinesSearch` | `!dt` implements GraphSearch |
| `RunnerTyped`, `RunnerReleases`, `NoReentry`, `PrintfShows` | `TypeOK`, `ReferencesBalance`, `CapturedIsOwn`, `PrintfIsShown` | CommandRunner |
| `ThreadsTyped`, `ThreadIsRestored`, `ListingIsOfThreads` | `TypeOK`, `ThreadRestored`, `RowsAreThreads` | `!ts` |
| `LayoutFits` | `LayoutOfTheTeb` | each TEB found is read with the layout of its own width, in the build that was loaded when the first TEB was shown |
| `EngineAskedOnce`, `DecodedByOneBuild` | `AskedOnce`, `OneBuildDecodes` | the symbol cache under PfnDatabase |
| `ResolvedWasAnswered` | `TypesWereAnswered` | a type of the vtable cache is an answer of the engine |
| `PartsAreTyped` | `TypeOK` | every loop of the image commands stays where it should: cursors, buffers, stack of directories |
| `ArgsAreWords` | `WordsOfArgs` | `get_args` gives the words of a string of any length |
| `LoadIsFaithful`, `SectionsHold` | `LoadedIsTheImage`, `SectionHoldsDirectory` | what `Load` keeps are parts of what the image holds, in order, and rows are printed only of a valid image; `!sec` names a section exactly if one holds the directory |
| `ImportsAreShown` | `ImportsAreListed` | `!imp` and `!delay` list everything asked for once, in order, and mark the bound modules |
| `ExportsAreShown` | `ExportsAreListed` | `!ext` shows the functions in use with a name joined by its ordinal |
| `FunctionsAreShown`, `HandlersAreRead` | `FunctionsAreListed`, `HandlersAreFound` | `!ex` shows the functions asked for (of x64 images), their handlers and scopes |
| `VersionIsTheLast` | `VersionOfTheImage` | `!ver` shows the last valid version if its walk ends |
| `RowsAreItems` | `RowsOfTheTable` | `!cfg` copies nothing from outside its buffer, shows the table to its end, and row k is item k if the item size was read |

All invariants that the runs check and both refinements are theorems.

Assumptions: addresses and contents are 64-bit words, the values that stand for
"unreadable", "undefined" and "nothing" are no words, nodes hold natural numbers, the
address space is not empty, a directory base in a request is one of `DirBases`, there is a
thread, and the cache knows the fields it is asked for. Of images: what their structures
hold are numbers of the kinds that `winnt.h` declares (`Region`, `Header`,
`ImportDescriptor` and the others), the memory a table of thunks can lie in is finite,
`Lower` maps every name in memory to lower case and a lower-case name to itself, no handler
without a symbol counts as one of C, a number of which nothing was read is 0
(`CutsAssumption`), and arrays of functions hold no more than their directory says. `PowersAssumption`, that powers of two are positive, is a fact of
arithmetic which the provers do not know, and TLC evaluates it. These are the named
`ASSUME`s of the modules. `RegistersAreUsed` and `PagingIsMmu` state their own.

The arguments:

- `TranslationIsCorrect`. The property alone is not inductive: it says something only when
  the walk has returned. The invariant adds `WalkInv`: during a walk the entries read so
  far are a partial walk of the processor (`IsWalk`), none of them ends it, and they are in
  `mem`. Each action then extends the partial walk by the entry the processor would read
  next. That rests on one lemma per kind of address: the code's shift, mask and addition
  give the same word as the processor's selection of bits in place (`FieldInPlace`,
  `PlusDisjoint`: addition without a common bit is union).
- `PagingIsMmu` is a simulation under `Inv /\ Aligned`: a constructor configures, a call
  asks, a read that goes on reveals memory, and the last read answers. The answer is the
  one `TranslationIsCorrect` gives, with `walk` as the witness.
- `ResultIsFresh` adds that no entry of a walk under way lacks its present bit
  (`AllPresent`), so the depth the walk ends at fixes the heading.
- `CommandUsesPaging` is a simulation with the identity on Paging's variables: each action
  of a command is a step of `Paging!Next` or a stutter, given that the arguments stay what a
  user can enter (`Entered`). It carries the invariants of Paging into V2p.
- `LinesAgree` and `RecordIsOfThePage` use `CmdInv`: by how far the command is, which lines
  are printed (`LinesInv`) and what the Paging object holds for the lines to come
  (`CallInv`). The second translation only adds to `mem`, and a translation stays the
  processor's when more of memory is known (`StaysTranslated`). `SmallRowsAreWalk` says that
  the rows, which stop at the first entry that is not present, are the walk.
- `!dt`. `DumpInv` says that the rows and the rest of the queue list the nodes found, each
  once (`Once`); that queued items are what memory holds (`Mirror`); that the links of
  printed nodes were followed, up to the one being visited (`Followed`); and that every
  closed set of nodes contains what was read (`Least`). `InvokeInv` shows that a command
  establishes it from any state of the globals. `Fit` adds that in a 32-bit target all
  addresses are below 2^32. `DumpIsSearch` maps each action to a step of the search under
  this invariant. `TreeInv` adds that the followed links without a message lead to the nodes
  found, one to each but the root.
- `RowsAreBreadthFirst`. The distance of a node is stated by walks: it is the end of one
  with so many links and of none with fewer. `OrderInv` adds to `DumpInv` what makes a
  queue breadth first: everything placed in a row or in the queue is `Reached` by a walk of
  as many links as its level; the root is placed first; a child of a node whose link was
  looked at is at most one level below it (`Near`); the queue holds two levels at most, in
  order (`QueueOrder`); and each row comes before what is to be printed (`RowOrder`). In a
  finished dump every link was looked at. A walk shorter than the level of its end would have
  a first node that is placed deeper than it comes in the walk; the node before it is not, so
  `Near` refutes it (`NoShorterWalk`, by the least such node).
- `AddressesMapEntries`. `Hierarchy` applies one formula to its own result, so that the
  fields of the address move down by one index at each step and the slot of the self-map
  enters above (`Above`). `HierarchyLevels` computes the fields of all five results; the
  base is aligned, so its addition has no carry into them. `PtesInv` says the lines of a
  command are those of its own request.
- CommandRunner. `Counted`: the references are those of the smart pointers, and one of them
  holds the client as long as it refers to the callbacks. `Nested`: the calls under way are
  of six shapes, and the callback is set exactly while `Execute` runs. `Balanced`: what is
  printed and not shown is the call under way.
- `!ts`. `Restoring`: until the first switch the thread is the one the command began on, and
  what was saved is that one unless the call that saves it failed. `Listing`: the rows
  are those of the threads before the counter. `OwnRows`: each row shows its own thread.
- The cache. `CacheInv`: a field was asked for exactly when it is in its map. `OneBuild`: all
  that is in the maps was answered by one build, because no symbols change while the
  first database is made and it asks for every field.

- `LayoutFits` and `ResolvedWasAnswered` are invariants over caches. What a map of fields
  holds was answered by the build that was loaded when the first TEB was shown, and each row
  keeps the answer for the type of its own TEB. A type is an answer for its vtable, or of the
  static buffer, whose own content was an answer for some vtable (`Origin`).
- The commands on images. The parts share variables, so each theorem has an invariant of the
  form "while the command is in this part" (`Walks({"ext"}) => ExtInv`), preserved by the
  steps of that part and established by the one step that enters it (`ExtSteps` and its
  like say that there is no other way in). Each invariant describes what is done by how far
  the loop is:
  - `SecInv`: the sections and rows made so far are parts of those of the headers, and only a
    valid image has any.
    `LookupSection` returns a section exactly if one compares equal, and `Comparer` is
    `Holds` when no end wraps.
  - `CfgInv`: row k is item k, as far as the read of the table came. What was loaded of the
    configuration is no more than what it describes (`CfgPart`), so a table that fits does
    so after a short read too.
  - `ExtInv`: functions before the cursor are read, the names before it are joined
    (`NamesAmong`), and rows are made of the table as it then stands.
  - `ExInv`: the rows are the functions asked for before the cursor, each printed with the
    handler at the place after the codes rounded up (`Printed`).
  - `ArgsInv`: the strings are the words that start before `prev`, and no space is between
    `prev` and `p`.
  - `ImpInv`: the lines are those of the descriptors and thunks before the cursors; the walk
    of the bound import directory has collected the modules of the least set of places
    that follow each other (`ImpBound`).
  - `VerInv`: the stack is a way from the root (`Nested`), and the version is that of the
    last entry among those which the walk has passed (`LastIn`). A step of the innermost
    loop passes exactly the ways that go through the entry it leaves.

Only model-checked is liveness (`DumpEnds`, `TsEnds`, `CommandReturns`):
it rests on fairness and on steps being enabled, which is out of the prover's reach.

Two recursive reference definitions were restated so that they can be reasoned about:
distances in `SplayDump` are lengths of walks, and the modules of the bound import directory
are those in the least set closed under its own steps. A version counts for `!ver` wherever a
way of directories leads to it (`Ways`), trees or not.

## Findings

- `SplayMessage.cfg`: `AddTreeItem` returns FALSE for a node that cannot be read as it
  does for one already visited, and `!dt` prints `Item %s was duplicated!` for both
  (`dt.cpp` 61-63, 111, 118).
- `V2pShown.cfg`: the `Print` functions of the 32-bit results miss the argument for
  `DirBase: %s` (`kd.cpp` 341-345, 364-368), so the row of the page directory is garbled,
  and the command may fault while it shows a translation that succeeded.
- `PfnInside.cfg`: PfnDatabase tests the size of a record, which is asked for at each
  command, and not the offsets of its members, whose failures are cached
  (`kd.cpp` 835-859, `symbol_manager.cpp` 36). After one command without symbols, records
  are read at offset 0xffffffff for the rest of the session.

Disagreements met on the way that no run shows:

- The import walks read entries as wide as the target's pointers in steps as wide as the
  image's (`peimage.cpp` 136), so an image of the other width, as in a WOW64 process, is
  listed wrongly; `README.md` 15 promises `!imp` for an image.
- A name ordinal that cannot be read is 0, and gives its name to function 0
  (`peimage.cpp` 404).
- Codes are counted by slots and printed one per slot, although an operation may take several
  (`peimage.cpp` 509, `exception_handling.h` 8); ARM64 unwind data are read as those of x64
  (542-543).
- `RvaString` copies 100 bytes into a buffer of 100 and takes them for a string
  (`peimage.cpp` 14-20): a longer name, which mangled C++ exports reach, has no terminator.
  Names are modelled as whole.
- When the load configuration can be read only in part, the flags may be lost while the
  count is kept, and items longer than 4 bytes are then listed in steps of 4
  (`common.h` 53-63, `peimage.cpp` 300). `RowsOfTheTable` says only of such a table that it
  is shown to its end.
- A language id of 0 is passed over (`peimage.cpp` 650); so is a neutral version resource.
- A load configuration of an older format is shorter than the structure that is read, and what
  follows it is taken for its guard members (`peimage.cpp` 371).
- `README.md` does not list `!delay`, which the program's own help does (`dllmain.cpp` 45).
- `DumpRecord` translates only the first byte of a record that may lie across two pages
  (`kd.cpp` 865-868).

## Not modelled

- What is printed beyond the facts the properties are about: labels, attribute letters,
  widths, times, names of codes and flags. `ptos`, `address_string`, `DumpAddressAndSymbol`,
  `UnixTimeToSystemTime`, `Log` and the `dump_all` functions hold no state.
- `address_string` objects passed through `...` (`kd.cpp` 924): whether this works is a
  matter of the calling convention, not of states.
- A PFN record that crosses a page (`kd.cpp` 868): records are read at their first byte's
  place; whether the next page follows in physical memory is not in the model.
- Short physical reads that report success (`kd.cpp` 153): the engine reports a physical
  read that stops short as failed. Virtual reads that stop short are modelled where
  `load_data` makes them.
- An optional header of another size than its structure (`peimage.cpp` 90) and the
  certificate directory, whose address is a file offset (`peimage.cpp` 800).
- `DllMain`, the engine's function table, the help text and the export list;
  `WinDbgExtensionDllInit` only as the initial state of `Threads`. `GetFieldOffsetEx`
  has no caller.

## What could come next

Action properties that say how far each loop is from its end, with their theorems, so that
only fairness is left to TLC; the excused cases of `CommandReturns` stated as what the code
then does; a module for the two pages of a PFN record.
