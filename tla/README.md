# TLA+ models of androidreverse

The repository collects native hooking, injection and rendering code for
Android.  This directory holds TLA+ models of the parts of it that share state
between threads or keep state across calls, TLC configurations that check them
on small instances, and TLAPS proofs of the central results for every instance.
Paths below are relative to `src/`.

    tlc -workers 2 -config MCInlineHook.cfg MCInlineHook   # any of the runs of section 3
    tlapm InlineHookProofs.tla                             # any of the modules of section 5

## 1. The system

| component | where | state | modelled |
|---|---|---|---|
| inline hook engine, registry | `inlinehook/src/main/cpp/inlineHook.c`, `hookutils.c` | `info.item[1024]`, `info.size`, patched functions, trampoline pages, `*proto_addr`, instruction cache | `InlineHook`, `HookTable` |
| inline hook engine, freezing threads | `inlineHook.c:64-191` | tids, the helper process, ptrace attachments, pcs of all threads | `HookThreads`, `Freeze` |
| instruction relocation | `inlinehook/src/main/cpp/relocate.c` | boundary tables and `count` of an item | the tables only (`Relocated`) |
| hook installers | `threadhook.c`, `gleshook.c`, `eglhook.c`, `vkhook.c`, `andhook.c` | none beyond the registry | no: lists of `hook`/`unHook` calls |
| native_app_glue and client | `gothook/src/main/cpp/android_native_app_glue.c`, `.h`, `esUtil_Android.c` (identical in `inject/`) | `struct android_app`, `ESContext`, pipe, mutex, condition variable | `AppGlue`, `Lease` |
| adbi patch hook | `hook/src/main/cpp/hook.c`, `epoll.c`, `epoll_arm.c` | function words, copied prologue, `*origFunc` | `Patch`, `CopyHook` |
| exported-function hook | `exporthook/src/main/cpp/exporthook.c`, `hook_libc.c`, `doHook.c` | function words, saved words | `Patch`, `ToggleHook` |
| GOT hook on ELF modules | `elfhook/src/main/cpp/elf_hooker.cpp`, `elf_module.cpp`, `elfhook.cpp` | module map, GOT slots, old-function pointers | `GotHook`, `SymbolLookup` |
| hookzz interceptor | `hookzz/src/main/cpp/interceptor.c`, `stack.c`, `platforms/`, `kitzz/` | hook entries, key list, call stacks of threads, code words | `Interceptor` |
| hookzz allocator | `hookzz/src/main/cpp/allocator.c` | code pages | `CodeSlices` |
| ptrace injectors | `inject-2/`, `injector/`, `InjectHook/`, `inject/inject/`, `android-injection/` | none after the run | no: one-shot sequential tools |
| GOT hook by injected library | `gothook/` | a slot | no: one call; its engine is a copy of the inline hook engine |
| Dalvik/ART method hooks | `allhook/`, `swathook/` | virtual machine structures | no: the machine that reads them is not here |
| Java hooks, JNI demos | `AndroidHook/`, `InjectHookApk/`, `inputmethodholder/`, `crash/`, `asmtest/`, `androidmk/`, `reverse/` | a listener list | no: reflection, and a list only the UI thread uses |
| AES, base64 | `aescrypto/` | none | no: pure functions over long strings, for which published vectors say more than a small instance |
| vendored code | `valgrind/`, `tcmalloc/`, `nativeutils/`, hookzz dependencies | | no |

**How they interact.**  The installers call `hook`, `unHook`, `inlineHookAll`
and `inlineUnHookAll` from JNI functions the Java UI calls
(`hookutils.c:32-51`); the engine allocates trampolines, asks `relocate.c` to
fill them, and rewrites functions that *every* thread of the process runs
through, `malloc` among them (`threadhook.c`).  Before `inlineHookAll` and
`inlineUnHook` it forks a helper that ptraces those threads.  The other three
hook libraries stop nobody: adbi's `hook_lwp` and `exporthook` write three
words while threads execute them, the interceptor copies a page back with two
words changed, and the GOT hook changes pointers in modules that other threads
load, unload and call through, a library in the middle of `dlopen` included.  The app glue stands between the Android
framework, which calls back on the UI thread, and the application thread that
draws; they share one structure, one mutex, one condition variable and a pipe.
The hook libraries do not call one another.

**What is hard here.**  Code is changed while other threads execute it, and
what they meet depends on the order of single words.  The registry keeps its
table dense by moving the last item into a removed slot while loops walk it and
while slots keep the leftovers of earlier items; the helper can miss threads,
die, be too late, stop its own creator, or freeze the thread that owns the
allocator.  What is written is not always flushed from the instruction cache.  A
wrapper that puts the original back around its call shares those words with
every other thread in the wrapper.  The interceptor diverts return addresses
and must pair them again after any nesting.  The glue hands windows back to a
framework that will free them, while the drawing thread uses them without the
lock.  `hazards` in `PROJECT.json` lists these one by one with line and
property.

**What makes each component correct.**

- registry: one item per function, code and table agree, original functions
  stay callable, loops reach every item; towards a client it is a three-state
  table.
- freezing: code changes only while every thread is held; nobody is held
  afterwards; no thread executes half a patch or loses an instruction when
  its pc is moved; the call returns.  The code keeps none of these without
  exceptions, and the models say exactly which there are.
- glue: nothing is used after its loan ends, callbacks return, saved state is
  neither lost too early nor returned when old, the structure is freed last.
- adbi hook: nobody runs a page that is not complete; a call that begins after
  `hook_lwp` returned reaches the original once.
- exported-function hook: the hook is back in place when nobody is inside, the
  original runs once per call, and calls that do not overlap are safe.
- GOT hook: every slot that can be redirected is; a redirected call reaches a
  definition of its function; the lookup names the right symbol.
- interceptor: `isEnabled` says what the code says; a replacement has its
  original; every thunk returns to its own caller; slices do not overlap and
  are in reach of the branch.

## 2. Modules and how they correspond to the code

### InlineHook -- the registry

One variable per piece of state: `item` (all slots, including the leftovers
above `size`), `size`, `code` (the first bytes of each function: original or
jump), `stale` (functions written but not flushed), `mapped` (trampoline
pages), `proto` (`*proto_addr`), and `call`, the running engine call and its
loop index.  Three operators carry the engine's effects, and each is used by
every action that reaches that code:

- `AddItem` = `registerInlineHook` with `addInlineHookItem` and
  `relocateInstruction`.  `Relocated` fills the boundary arrays the way C does:
  it appends at `count`, which nobody resets when a slot is used again, so
  entries can run past `orig_boundaries[4]` into `trampoline_boundaries[20]`
  that follows it in the struct.  The model therefore keeps both arrays and
  `count` as one sequence of ints.
- `HookItem` = `doInlineHook`; `UnHookItem` = `doInlineUnHook` with
  `deleteInlineHookItem`: the flush comes after the swap and is for the
  function slot `i` names *then*.

Actions: `Register`, `InlineHook`, `HookStart`/`HookFinish` (`hook()` of
hookutils.c), `InlineUnHook`, and the loops `AllStart`, `HookAllHook`,
`UnHookAllRemove`, `AllSkip`, `AllReturn`, one step per iteration.
`RegisterWhenFull` is the NULL write with a full table.

Abstractions: an instruction is its pair of offsets, in the function and in the
trampoline; addresses are names;
`isExecutableAddr` is the assumption that targets are executable;
`malloc`/`mmap` succeed.  `CountBound` bounds `count` (an item reused often
enough writes past its own struct, where the model stops).  What `relocate.c`
puts into a copy is left out but for its length: `OffsetsAssumption` says that
both offsets start at 0 and grow, in the trampoline by four bytes or more (every
case of `relocateInstructionInArm` and `...InThumb` emits a word at least; a
Thumb instruction of two bytes gets a NOP).

**HookTable** is the abstract specification: free, registered, hooked.
`ImplementsTable` maps the registry to it (`StateOf`, `code`, `size`).

### HookThreads -- code changing under running threads

Extends `InlineHook` with the position of each other thread: outside, in a
function at instruction `k`, in the replacement, in a trampoline page at an
offset, past the patched bytes, faulted, or not started yet (`Spawn`).
`Sees(t)` is what instruction fetch may get: either version while a patch is
half written (`torn`) and either one while the cache is stale.  `freezer`,
`tids`, `stopped` are freeze/unFreeze with the pc moves of `doProcessThreadPC`
(`Enabled`, `Disabled`, `Entry`); the helper misses a thread (`AttachFails`,
`Spawn` after `Freeze`) or dies with all it holds (`HelperDies`), and the engine
goes on as if nothing had happened.

Every write of the engine takes several steps, in a freeze and outside: `Tear`
begins it, `Complete` ends `doInlineHook` with `*proto_addr` and the flush, and
`doInlineUnHook` is `Unmap` (`gone`: its page is unmapped while the item is still
in the table) and then `Delete`, which need not happen: `free()` stands between
them.  `Due` says whose turn it is: `inlineHook`, `hook()` and `inlineUnHookAll`
write while threads run (their freeze is commented out in the code),
`inlineHookAll` and `inlineUnHook` between freeze and unFreeze.

`exposed` is a history variable and names the threads the code puts at risk:

1. running, not stopped, between two instructions of a function when it is
   patched -- in a freeze these are the threads the helper missed, that started
   late, or that a dead helper let go (`CaughtByPatch`);
2. fetching from half-written or not yet flushed bytes (`Risky`);
3. in a replacement, or in a trampoline while running or stopped between two
   boundaries, when that item is unhooked and its page unmapped
   (`CaughtByUnmap`);
4. moved with a boundary table that a reused slot or a long Thumb function
   overwrote (`Unclean`);
5. moved back into the middle of a function for its hook to be taken off, and
   let go by a helper that died before it was (`Astray`).

A thread leaves the set when it returns from the function.
`SafeUnlessExposed` says that this list is complete: nobody else ever faults.
`NothingSkipped` says that nobody else loses or repeats an instruction by being
moved.  The list is the answer to "what does freeze protect", and each
entry is a weakness of the code the model found, not one a document denies.

### Freeze -- the helper process

The same call at the level of processes: `caller` walks through fork, waitpid,
patch, SIGCONT, wait(NULL); each `helper` attaches, waits, stops itself,
detaches, kills itself, or is killed by the system at any point; threads stop
some time after PTRACE_ATTACH; `heap` is the allocator's lock, which
`doInlineUnHook` needs for `free()`; `child` are other children of the
application that `wait(NULL)` may reap (`stolen` remembers that it did).
`caller.missed` are the threads this freeze has not got: PTRACE_ATTACH failed
(`AttachFails`), or they started after `getAllTids` (`Starts`, for the threads in
`Late`).

What the kernel does is external and follows its manual pages:

- `waits` is chosen once: from Linux 4.7 on `waitpid(tid, NULL, WUNTRACED)` waits
  for a traced thread; before, without `__WALL`, it finds no such child and
  returns at once, and the thread stops later.  The application's minimum
  version of Android runs on kernels of both kinds.
- The end of a helper lets go of its threads without PTRACE_DETACH (`Dies`).  A
  SIGSTOP under way stays under way, and the one a thread has stopped for is
  injected or lost; a SIGSTOP no tracer takes stops the whole process (`Stops`,
  `halted`).  A helper that detaches and kills itself leaves nothing behind,
  unless PTRACE_DETACH failed for a thread that had not stopped yet.

### AppGlue -- the native activity glue

`glue` is `struct android_app`, `es` the client's `ESContext`, `pipe`, `mutex`,
`ui` (callback, position, commands still to write), `app` (position, current
command), `sys` (the framework: instance, lifecycle, what it has lent), `proc`.
`ui.pc` separates lock, writes, test, sleep and wake, so that lost or spurious
wake-ups would show; `ui.out` is decided under the lock, as
`android_app_set_window` does.  The application thread's critical sections hold
no blocking call and are single steps; TERM_WINDOW's unlocked broadcast is one
of its own.  `Handle` is `HandleCommand` of esUtil_Android.c, with the header's
permission to store state at SAVE_STATE; `EsMainFails` its `exit(0)`.
The `Framework` actions are external: the order of callbacks NativeActivity
keeps (lifecycle, at most one window and one queue, both returned before
onDestroy).  The three callbacks that only write a command are one
action, `Nudge`.

**Lease** is the abstract specification of a window or queue: lent, used, let
go, called back.  `WindowLoan` and `QueueLoan` are the two refinements.

### Patch -- three words under running threads

What `hook.c` and its copy `exporthook.c` share.  `word[0..2]` are the first
words of the function; the jump at word 0 loads its destination from word 2, so
that a thread is astray when it executes word 0 before word 2 is there, or
comes to words 1 and 2 from an original word 0 (`Astray`, `lost`).  A thread is
a stack of frames `<<routine, step>>`.  `overlap` is a history variable: two
threads were inside at once.  One function stands for all, since their words
are independent.

### CopyHook -- adbi's `hook_lwp`

`HookLwp` loads the words (of the jump, when the function is hooked already),
`WriteJump` writes them one by one, `WriteCopy` fills a fresh page with the
copy and the jump behind it and then sets `*origFunc` (`old`), `Flush`
returns.  `WrapperSkips`/`WrapperCalls` are `gettimeofday_new_directly`, which
returns 0 while `*origFunc` is NULL.  `hook_lwp` is called by `hook_entry` at
injection and again at every click of the button (`epoll.c:185`); from the
second time on the page holds the jump, and wrapper and page call each other
(the exception in `CallReturns`).  For Thumb code `hook_lwp` sets nothing up
and flushes from `h->orig`, which it never assigned (`hook.c:232`).

`unflushed` holds the words, of the function (`<<0, k>>`) and of the pages, that
were written and not flushed since.  `hook.c:232` flushes the function's words
and never the page, so that a thread may run what a fresh page held before, zeros
(`Zeros`, `RunZeros`), at any later time; in the function it may run an old word
until the flush (`ExecuteStale`).

Abstractions: words that read pc are assumed absent (they are copied
unrelocated), and the mmap of the page succeeds.

### ToggleHook -- `exporthook`, `hook_precall`, `hook_postcall`

`DoHook`, `Save` and `WriteJump` install; a wrapper writes the saved words back
(`Precall`), calls the function, and writes the jump again (`Postcall`), word
by word.  `locked` selects the form of `gettimeofday_new` (`epoll.c:99`), which
does this under a mutex; that wrapper is compiled but the library installs the
direct one, so the locked form says what the mutex would give.  The second
`doHook` saves the jump as the original words (`exporthook.c:99`), although
`hook_precall` is there to write the original instructions back
(`hook.c:236`); the properties state for how many installations they hold.
`Depth` bounds the re-entry this leads to.  `HookAll` cannot be reached:
`doHook.c` sets `inline_hook` to 1.

### GotHook -- `setHook` of elfhook

`SetHook`, `ReadHeader`, `Parsed` are `phrase_proc_maps`; `VisitModule`,
`ModuleDone`, `NextFunction`, `Return` are `hook_all_modules`, once per hooked
function; `SaveOld`, `Protect`, `ProtectFails`, `Write`, `AlreadyReplaced` are
`replace_function`.  `base` says where each module is mapped, `entries` where
`m_modules` believes it is; touching a module that is gone, or a slot whose page
is not writable, is the crash (`hooker.at = "dead"`).  Meanwhile libraries come
and go, and threads `Enter` the replacement through a redirected slot, `Forward`
through `__old_impl_*` and `Leave`.  `dlopen` is four actions, since `setHook`
reads the maps without the linker's lock: `Map` (the segment with the header,
which a read of the maps may already find), `MapRest` (the slots are there with
what the file holds, `Filed`), `Relocate` slot by slot, also over one `setHook`
has redirected by then, and `Linked`, which protects the read-only pages.
`raced` collects the modules that were unmapped or not yet linked while `setHook`
ran, `tainted` the functions whose old pointer was taken from a slot that was not
relocated; the properties name both as the exceptions they are.  Slots are
numbered in the order the code visits them.

Abstractions: the linker's own steps are external, in the order of bionic's
`soinfo` (map, relocate, protect); `setHook` runs on the UI thread, so calls of it
are serial (and repeatable); libraries do not share addresses; the libraries that define the
hooked functions are not unloaded; the code removes execute permission from
the pages it makes writable (`elf_module.cpp:595`), which nothing here
executes.  Facts the model shows and no document denies: a module whose
`mprotect` fails stays half hooked (`failed`), a library loaded after the maps
were read escapes until the next `setHook`, and all modules share one
`__old_impl_*`, so that a call may be forwarded to another module's definition
(`ForwardsHome` holds only for functions with one).

### SymbolLookup -- `find_symbol_by_name`

The tables (`name`, `order`, `symndx`) are any a linker can produce and never
change; `GnuStart`, `GnuNext`, `Linear` are the GNU hash lookup with its linear
scan of the imported symbols, `SysvStart`, `SysvNext` the System V one.  Filter,
buckets and chains are kept, with the hash as a constant function.

### Interceptor -- hookzz

One thread calls the API (`op` is its step): `Hook` for the five ways to hook,
`MoveKeys`/`NewKey` for `zz_posix_thread_add_thread_local_key` with the
`realloc` that moves the list, `BuildHook`, `Enable`, `Patch`,
`DisableHook`/`Restore`.  The others run: `Call`, `Execute`, `Redirect`,
`Astray`; `Begin` to `PreDone` are the enter thunk with
`function_context_begin_invocation`, which pushes the return address on the
thread's call stack of that hook, `End` to `PostDone` the leave thunk that pops
it; `BeginRaced` and `EndAstray` what happens when they read the key list while
it moves.  An entry is named by the depth of the frame that pushed it, so that
returning to one's own caller is `popped = Len(stack[t])`.  `exposed` and
`raced` are the history variables that name the two races.

`zz_posix_vm_patch_code` and the writers of slices flush no cache
(`posix_memory_kit.c:192-230`).  `written` are the words ever patched or restored:
a thread may fetch such a word as it is or as it was (`Fetches`), at any later
time, and a fresh slice or thunk as what was there before (`StaleSlice`).  `stale`
are the threads in a routine of which they fetched what memory does not hold; it
is the third way to go astray, beside the two races.  The second word of the
jump is data and read from memory.

Abstractions: `zz_posix_vm_patch_code` always succeeds (it has no failing
return); relocated prologues work; two threads patching at once are not
modelled; `ZzDisableHook` is called for functions with an entry (it looks no
further, `interceptor.c:311`, and nobody calls it), and
`ZzFreeHookFunctionEntry` has no caller.  A second client's `ZzHook` of the same
function reports success without setting its `origin_ptr`: the model has one
origin per function.

### CodeSlices -- the hookzz allocator

`NewCodeSlice` takes the first page with room or maps one; `NewNearCodeSlice`
tries each page in the four ways the code does (`FromBelow`, `UpperPart` with
`Split`, `FromAbove`, `Straddles`).  Addresses count halfwords; the difference
`size - used_size` is unsigned in the code, so that a position aligned past the
end counts as a lot of room (`Exceeds`, `Short`).  `straddled` and `wrapped`
remember that one of the two wrong tests was passed.  Near slices are not
aligned by the code; `mmap` succeeds; function addresses are at least `Reach`.

## 3. Runs

Each run is a module `MC<x>` with its constants and the cfg of the same name,
but for the two findings, whose cfgs are `MCAppGlueState.cfg` and
`MCCodeSlicesSpan.cfg`.

| run | instance | what it shows |
|---|---|---|
| registry (MCInlineHook) | 4 functions, one Thumb with five instructions; 3 slots, 3 pages | table, code, pages, proto variables, cache and boundary tables agree; loops reach every item; `ImplementsTable` |
| threads (MCHookThreads) | a Thumb function of four instructions, three of them with wide copies, and one of five; 2 slots, 1 thread | the list of exposed threads is complete; nobody else loses an instruction |
| freeze (MCFreeze) | 3 threads, one of them late, any of them the caller; 2 helpers; 1 child of the application; hookAll and unHook | who is held while code changes and after the return; stopped threads run again; the complete list of hangs |
| glue (MCAppGlue) | 2 windows, 1 queue, pipe of 2, 2 nudges | all safety properties, both refinements to `Lease`, the complete list of callbacks that do not return |
| glue_activity_state | pipe of 3, 1 nudge | finding, section 6 |
| copied_prologue (MCCopyHook) | 3 threads, 2 calls each, 2 runs of `hook_lwp` | pages whole but for the missing flush; calls after the return are safe in the function and return only served; what returns |
| toggle (MCToggleHook) | 2 threads, 3 calls each, 2 installations, 4 frames | safety in turn, hook back in place, what the mutex adds |
| got_hook (MCGotHook) | 2 libraries, one of them coming and going, at 2 addresses, 2 functions, 4 slots, 1 thread | where calls go, what may crash, what is redirected, that it ends |
| symbol_lookup (MCSymbolLookup) | every table of 4 symbols over 4 names | `FindsSymbol` for both kinds of table |
| interceptor (MCInterceptor) | 2 threads, 2 functions, 4 kinds of hook, key list of 1, 3 frames, 3 calls, 3 API calls | enabled means patched, origins ready, stacks match; two races and the unflushed cache are all that leads astray |
| code_slices (MCCodeSlices) | pages of 8 halfwords at 32, 40, 64; 6 functions, 6 slices | slices in bounds, apart and in reach but for two wrong tests |
| code_slices_span | the same, ARM functions only | finding, section 6 |

**Why the bounds are enough.**

- Registry: three slots are the least in which a removal in the middle moves an
  item that is neither the removed one nor its neighbour; with four functions
  the table fills up while functions are left (`RegisterWhenFull`), and with
  three pages every unmapped page is used again.  `CountBound` 5 lets a slot be
  reused until its boundaries reach the next array; the run of `threads` goes
  to 9.
- Threads do not act on each other and the helper attaches to or misses each
  one independently, so one is enough there.
- Freeze: three threads are the main one, one the helper holds, and one that
  is still running or is the caller; the third starts late, before a call
  or in the middle of one; two helpers give a freeze that overlaps the previous
  helper's end.
- Glue: the real pipe holds 65536 commands.  Two nudges nobody waits for fill a
  pipe of two, so that the UI thread blocks in `write` with the mutex held;
  a larger pipe only needs more nudges.
- CopyHook: an installer, a thread inside the function when it is patched, and
  one that calls later; the second run of `hook_lwp` is the first that copies a
  jump.  ToggleHook: two threads are two wrappers at once, three calls let one
  re-enter while the other is inside; a third installation saves the same
  jump as the second.
- GotHook: function 1 has two slots in the library that comes and goes, in a
  writable and in a read-only page, so that `mprotect` can fail, and the linker
  can get to work, between two of a module's slots; its definition differs from
  the one the other library's slot is bound to.  One slot is an offset in the
  file, the others are NULL.
- SymbolLookup: two names differ only in the bit the GNU chain uses as end
  mark, two collide in bucket and filter, and buckets can be empty.
- Interceptor: three frames are a hooked call that re-enters its function and
  one more; the second hook makes the key list of one move, as the fifth does
  in the code (`send`, `sendto`, `connect`, `freeaddrinfo` fill the first four).
  `ZzHookPrePost` is left out of the run: its threads pass the same thunks as
  those of `ZzHook` with three callbacks (the proofs cover all five types).
- CodeSlices: the spans of the functions begin and end inside pages, and six
  slices fill a page after it was split.

**Deadlock checking** is off everywhere because all these systems may stop: the
client need not call again, a process may crash, an activity is freed once, a
lookup ends.  **Symmetry** is used in runs without liveness only (pages of the
registry; threads and functions of the interceptor).

Each property has a mutant of the code's model (`mutants` in `PROJECT.json`,
operators marked "Mutant:" in the modules): a plausible mistake in that code
which the property rejects.

## 4. Fairness

- `Freeze`: weak fairness of the caller's and each helper's steps, of a thread
  stopping after SIGSTOP and of returning from malloc -- the kernel schedules
  what can run.  Strong fairness of `Patch` only because it may need the
  allocator's lock, which others take and release in between; a futex lock
  wakes its waiters.  Nothing is assumed about new calls and threads, exits of
  other children or kills.
- `AppGlue`: weak fairness of both threads.  `UIWake` needs the mutex, but the
  other thread holds it only within single steps, so weak fairness suffices.
  `WF(AppStep)` as a whole does not force drawing.
- `CopyHook`, `ToggleHook`: weak fairness of each thread's steps inside the
  function, the wrapper and the installer -- threads that can run do run.  No
  call or installation has to begin.  Weak fairness of the wait for the mutex
  is enough because calls are bounded.
- `GotHook`: weak fairness of the hooking thread alone; it needs nobody else.
- `SymbolLookup`: weak fairness of the one thread there is.
- `HookThreads`, `Interceptor` and `CodeSlices` state no fairness and have no
  liveness property.

## 5. Proofs

Eight modules hold theorems about the specification of the module they extend:
`InlineHookProofs` about `Spec` of `InlineHook` and `TSpec` of `HookThreads`,
`GotHookProofs` about `Spec` of `GotHook` and `LookupSpec` of `SymbolLookup`, the
others about `Spec`.  They hold for all values of the constants that satisfy the
named assumptions of those modules; the assumptions say that bounds are numbers,
that names are distinct and that constant functions have their domains.
`ConstantAssumption` of `InlineHook` adds that `CountBound` does not exceed the
length of `trampoline_boundaries` (beyond it `Relocated` would write outside the
item), `OffsetsAssumption` what section 2 says of the lengths of copies, without
which two instructions could share a boundary and a pc would have no unique
place to be moved to; `GotAssumption` that the replacement is not itself a
definition, and `LookupAssumption` that all sizes are positive.  No theorem has
a further hypothesis.

| module | theorem | states |
|---|---|---|
| InlineHookProofs | `Invariant`, `TypeCorrect` | `[]IInv`, `[]TypeOK` |
| | `RegistryHasNoDuplicates` | `[]OneItemPerTarget` |
| | `CodeFollowsRegistry` | `[]CodeMatchesRegistry` |
| | `TrampolinesLive` | `[](TrampolinesOwned /\ ProtoReachesTrampoline)` |
| | `HookedStayFlushed` | `[]HookedIsFlushed` |
| | `TablesStayExact` | `[]BoundariesExact`: fresh counts, functions no longer than the arrays |
| | `LoopsComplete` | `LoopsVisitAll` |
| | `Refinement` | `ImplementsTable` |
| | `ThreadsTyped` | `[]ThreadsTypeOK` |
| | `SafeBeyondExposure` | `[]SafeUnlessExposed` |
| | `EachInstructionOnce` | `[]NothingSkipped` |
| | `EngineAmongThreads` | `TSpec => Spec`: all of the above among threads |
| FreezeProofs | `TypeCorrect` | `[]TypeOK` |
| | `CodeChangesWhileHeld` | `[]PatchWhileHeld` |
| | `NobodyHeldOnReturn` | `[]ReturnMeansRunning` |
| AppGlueProofs | `TypeCorrect` | `[]TypeOK` |
| | `WindowIsLent` | `[]UsesLentWindow` |
| | `FreedLastOfAll` | `[]FreedLast` |
| | `SavedIsFresh` | `SaveReturnsFresh` |
| | `OldStateKept` | `OldStateUntilResume` |
| | `Refinement` | `ImplementsLease` |
| CopyHookProofs | `NoHalfPage` | `[]PageWhole` |
| | `SafeAfterReturn` | `[]SafeOnceDone` |
| | `ServedAfterReturn` | `ServedOnceDone` |
| ToggleHookProofs | `ToggleInvariant`, `ToggleTypes` | `[]ToggleInv`, `[]TypeOK` |
| | `SafeWhenTakingTurns` | `[]SafeInTurn` |
| | `HookIsBack` | `[]HookedWhenQuiet` |
| | `OriginalIsSeen` | `[]WrapperSeesOriginal` |
| | `RunsOriginalOnce` | `OriginalOnce` |
| GotHookProofs | `CallsForwarded`, `CallsForwardedHome` | `[]ForwardsToDefinition`, `[]ForwardsHome` |
| | `NoStaleEntry` | `[]CrashOnlyRaced` |
| | `AllHooked` | `HookedOnReturn` |
| | `AnswerIsRight` | `[]RightWhenDone`, the safety half of `FindsSymbol` |
| | `NeverOutside` | `[]LookupTypeOK`: no symbol outside the table is read |
| InterceptorProofs | `EnabledIsPatched` | `[]EnabledMeansPatched` |
| | `OriginIsReady` | `[]OriginReady` |
| | `StacksDoMatch` | `[]StacksMatch` |
| | `SafeButForRaces` | `[]SafeUnlessRaced` |
| CodeSlicesProofs | `SlicesInvariant` | `[]SlicesInv` |
| | `SlicesAreSound` | `[]SoundUnlessMistested` |
| | `SlicesInReach` | `InReach` |

**The inductive invariants.**

- `InlineHook`: `IInv == TypeOK /\ Core /\ LoopPosition`.  None of the parts is
  inductive alone: a removal restores `item[i].saved`, so `CodeMatchesRegistry`
  needs the saved bytes of every live item to be original ones, which needs
  `OneItemPerTarget` (otherwise a second registration would save a jump);
  moving the last item keeps `TrampolinesOwned` only if no two items share a
  page; `HookedIsFlushed` survives the late flush only because the removed
  function is no longer hooked and no second item names it; and `HookFinish`
  needs `LoopPosition` to know that the slot it patches is still the one
  `hook()` added.  `Core` is the part without `call`: three lemmas show that
  `AddItem`, `HookItem` and `UnHookItem` keep it.  The refinement maps
  `AddItem` to `Enter`, `HookItem` to `Redirect`, `UnHookItem` to `Release` and
  the rest to stuttering.  `Tables` adds the boundary arrays for
  `BoundariesExact`: an item whose `count` was 0 when it was filled, and whose
  function has no more instructions than the array has room, holds exactly its
  own boundaries, wherever a removal moves it.
- `HookThreads`: `TInv` is the registry's invariant with `Tables`, the types,
  `FreezerOK` and `ThreadsOK`.  The last says of each thread not exposed where it
  may stand (`Placed`): at the first instruction of a function unless its code is
  original or it is held for the hook to be taken off, in a page only while an
  item for that function owns it and it is not the one `doInlineUnHook` has
  unmapped, at the copy that follows the instructions it has executed -- and of
  the stopped ones what moving them achieved (`Cleared`): nobody is in a function
  `inlineHookAll` will patch, nor at a boundary of the trampoline `inlineUnHook`
  will unmap.  `SafeUnlessExposed` by itself says nothing about where threads
  are, and `Placed` is not inductive without `Cleared`, which is why a patch
  inside a freeze is safe for those the helper holds; when it dies they lose
  `Cleared` with it, and those in the middle of a patched function are exposed.
  `BoundariesExact` carries a moved thread to the copy of the instruction it
  stood at, so that `NothingSkipped` survives the move.  `FreezerOK` connects the
  phases: nobody is stopped outside a freeze, the function half written is the
  one the engine is at, and the page that is unmapped is that of its item.
- `Freeze`: `TypeOK`, how far caller and helper are apart (`InStep`), that no
  earlier helper is left (`Alone`, until `wait(NULL)` has reaped something
  else), that only a live helper holds threads (`Holders`), that it holds what
  it has been through but for what it missed (`Passed`), and that these have
  stopped and are let go in turn, where waitpid waits (`Attached`).
  `PatchWhileHeld` needs the last two: being in position "stopped" says nothing
  about the threads by itself.
- `AppGlue`: `TypeOK`, `Loans` (what the structure knows of what the framework
  has lent, by callback and position), `Orders` (INIT, TERM and DESTROY are on
  their way at most once, in `ui.out`, in the pipe or in the application thread,
  and while one is its callback waits), `Uses`, `Ends`.  `Orders` is the heart:
  without it an old TERM could clear a newer window.  That nothing else is in
  the pipe behind DESTROY gives `FreedLast`.
- `CopyHook`: the progress of `hook_lwp` and what each frame says of it; a call
  that is not `early` never stands at words 1 or 2 of patched code; every word of
  a page that `*origFunc` names is in memory, and once `hook_lwp` has returned
  no word of the function is unflushed.
- `ToggleHook`: `ToggleInv == Basic /\ Debt /\ Turns /\ Window`.  It reads the
  stacks through the innermost frame and the depth (`tops`, `depths`), since the
  frames below are all wrappers that wait.  `Debt` says that a word that is not
  the jump's is owed it by somebody, an installation or a wrapper with
  `hook_postcall` to come; when nobody is inside nobody owes, hence
  `HookedWhenQuiet`, and this needs no turns and no mutex.  `Turns` is the state
  of the code given the frame of the one thread inside, for any depth and any
  number of installations (`SafeInTurn`).  `Window` says, with one installation,
  that the words are exactly as far as the routine that writes them, that one
  thread at a time is between its two routines, and that it holds the mutex if
  there is one (`WrapperSeesOriginal`).
- `GotHook`: `Provenance` (slots hold their definition, the replacement or what
  the file had; `__old_impl_*` a definition, unless `tainted`), `Place`, `Passed`
  (a thread past a redirected slot finds `__old_impl_*` set), `Current` (what the
  maps said holds, and slots are bound, but for `raced` modules), `Swept` (what
  the loops are past is redirected).
- `SymbolLookup`: what the loops have passed has not got the name.  `First`,
  `Following` and the numbers of `GotHook` are least elements; that they exist
  comes from the well-foundedness of the order on `Nat`.
- `Interceptor`: `HookInv` ties `word` to `enabled` and to the position of the
  API call; `StackInv` and `MatchInv` say which frames of a thread are between
  their thunks, and that the call stack lists exactly their depths; `WordsInv`
  that a thread between two words of a function is between two of its original
  words, unless `exposed` or the thread is `stale`; a frame can be stale only
  while it is the innermost one (`Sound`).
- `CodeSlices`: `Sound`, until one of the two wrong tests was passed: every page
  is memory the system mapped with its position within it, pages have nothing in
  common, each slice lies in front of the position of a page, and slices do not
  overlap.  The second and third part together make a new slice, cut at a
  position, disjoint from all earlier ones, those on the other half of a split
  page included.  The position stays within the page because `Align` alone can
  move it past the end, and only in a full page with an odd end, which the
  unsigned difference then takes for roomy: that is `wrapped`.  `InReach` follows
  from the types and the tests of the four ways.

**Only model-checked**: liveness (`StoppedRunAgain`, `ReturnsOrHangs`,
`ReturnsOrPipeFull`, `CallReturns` of `CopyHook` and `ToggleHook`,
`SetHookReturns`, the termination in `FindsSymbol`).  Liveness under fairness,
ENABLED, and what a recursive definition computes for every input are outside
the proof system.  Every invariant and every action property of a passing run,
and both refinements, are theorems.

## 6. What the checks found

- `glue_activity_state`: `android_native_app_glue.h:139-140` promises that
  `activityState` is START, RESUME, PAUSE or STOP.  `memset` leaves it 0, which
  is `APP_CMD_INPUT_CHANGED`, and the application runs with it until the first
  lifecycle command.
- `code_slices_span`: for a page in which the branch's span ends,
  `allocator.c:210` takes the page when the room up to that end is at most the
  slice, where the comment at line 182 asks for enough; the slice then runs out
  of the page.

Behaviours no document denies and the models therefore contain:

- registry and freezing: the hangs listed in `ReturnsOrHangs`, the five kinds of
  exposed threads, the NULL write with a full table, boundary tables overwritten
  because `count` is never reset;
- glue: the wait for a thread that `pthread_create` did not create; the UI
  thread in `write` with the mutex held and the pipe full;
- adbi: a thread between the three words when they change; a page nobody flushes
  (`hook.c:232`), although `hook.c:34-36` says that a change may not take effect
  without; a call that returns 0 without the original during installation;
  endless recursion after the second `hook_lwp`;
- exported functions: the same words torn by overlapping wrappers; the second
  `doHook` that saves a jump.  The model abstracts from what the wrappers of
  `hook_libc.c` pass on: `strrpl` (`doHook.c:38`) fills the buffer with the low
  byte of the path's address, and `my_rename` and `my_symlink` use one buffer
  for both paths;
- GOT hook: see section 2;
- interceptor: the key list read while `realloc` moves it; functions, slices and
  thunks that are never flushed from the cache; a near hook for which
  no room is found leaves its transfer trampoline NULL and is branched to
  (`interceptor-arm.c:196`, `ZzBuildTrampoline` drops the status);
- allocator: after a split at an odd halfword the alignment of
  `allocator.c:140` moves a full page's position past its end, and the unsigned
  difference passes the test (`wrapped`).

## 7. Not modelled

Besides the components of section 1 that say so:

- engine: the ARM and Thumb encodings, what a relocated instruction does,
  `mprotect` failures, address ranges (`isExecutableAddr` accepts the first
  address behind a mapping), `malloc` and `mmap` failures;
- glue: input events (`process_input` only forwards to a handler),
  `AConfiguration`, logging, helpers of the client, the contents of saved
  state, EGL;
- adbi: `find_name` and the ELF parsing of `util.c`;
- GOT hook: the `dump_*` functions, which print; parsing of segments and
  relocation sections, of which a slot is the outcome;
- interceptor: the search for zero bytes near a function, `ZzRuntimeCodePatch`,
  `ZzHookGOT` (a stub on Linux), freeing of keys, which nobody calls.

Two hazards in `PROJECT.json` have no property: the full table
(`inlineHook.c:276`), which the model takes as a crash step, and the near hook
without room (`interceptor-arm.c:196`), which depends on a linker's layout.

The vendored trees (`valgrind`, `tcmalloc`, `nativeutils` and the hookzz
dependencies) hold nearly all lines of the repository and none of its own
logic.

## 8. What is left

1. Relocation: lengths and offsets that `relocate.c` produces for each
   instruction class, from which `OffsetsAssumption` would follow.
2. Proofs: that the steps of `HookThreads` and of `Freeze` are two views of one
   freeze; abstract specifications of the interceptor and of the allocator, as
   `HookTable` is one of the registry.
3. Two threads that call the API of the interceptor at once, which copy whole
   pages back over each other's words.
