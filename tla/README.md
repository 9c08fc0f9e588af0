# TLA+ models of the Pintos file system and kernel pieces

This directory holds TLA+ models of the code in `src/`, the TLC configurations
that check them, and `PROJECT.json`. `PROJECT.json` records:

- every component and whether it is modelled;
- every run and mutant;
- the source lines each definition translates;
- the findings;
- the hazards each property is aimed at.

Source paths below are relative to `src/Pintos Operating System Integration/src/`
unless they name the calculator.

## 1. The system

The repository has three programs.

### The Pintos kernel

The file system is the core. It has four layers:

- **Buffer cache** (`filesys/cache.c`)
  - An LRU list, `cache_list`, of at most 64 `cache_info` objects. The front is the least recently used.
  - Each object holds a sector number, 512 bytes of data, `is_dirty`, and a per-entry `rw_lock`.
  - `get_info` scans the list and moves a hit to the back.
  - `read_block` and `write_block` copy data under the entry lock on a hit. On a miss they read the device and insert a new entry, evicting the front entry if the list size is exactly 64.
  - `read_ahead` and `cache_sector` only populate.
  - `evict_cache` unlinks the front entry, writes it back under its lock, and frees it.
  - `refresh_cache` writes dirty entries back. Nothing in this tree calls it.
  - `delete_cache` flushes and frees everything. `filesys_done` calls it at shutdown.
  - **Nothing protects the list itself.** Any thread in any file-system call can run these functions concurrently.
- **Inode layer** (`filesys/inode.c`)
  - On-disk inodes with 115 direct pointers, 5 indirect pointers and 4 double-indirect pointers, 64 pointers per index block.
  - `byte_to_sector` does the address arithmetic.
  - `inode_create` and `inode_extend` allocate the tiers from the free map. `inode_create` writes with `block_write`, which bypasses the cache.
  - The in-memory `open_inodes` list is reference counted through `inode_open`, `reopen` and `close`. Removal is deferred until the last close, which frees every sector.
  - `deny_write` and `allow_write` keep a count per inode.
  - `write_at` extends the file under a per-inode `extension_lock`.
  - All reads and writes go through the buffer cache.
- **Directory layer** (`filesys/directory.c`)
  - A directory is an inode holding an array of `dir_entry`.
  - `dir_add2` looks the name up, finds a free slot, and writes the entry.
  - `dir_remove` refuses non-empty or busy directories.
  - `dir_readdir` walks the entries.
  - Path resolution is `build_path` in `filesys/filesys.c`.
- **Free map**
  - Only the header `filesys/free-map.h` is in this tree.

The kernel also has these parts:

- System calls (`userprog/syscall.c`): a per-thread `fileArray` of 128 descriptors with a count, `num_fds`.
- Process wait and exit (`userprog/process.c`): a handshake between parent and child that relies on interrupt disabling and a semaphore.
- Virtual memory (`vm/`):
  - a frame table with second-chance eviction under `frame_lock`;
  - a swap slot table;
  - supplemental page tables;
  - mmap.
- Fixed-point arithmetic for the scheduler (`threads/fixed_point.h`).

### The shell

`shell/mysh.c` and `shell/command.c` form an interactive command parser with a fork, exec and pipe driver.

### The big integer calculator

`src/Big Integer Calculator/bigint.c` is an arbitrary-precision limb arithmetic library. It implements addition, subtraction, schoolbook, Karatsuba and Toom-Cook multiplication, and shifts.

### How the parts interact

A path operation runs through three layers:

1. It resolves through `build_path` and the directory layer.
2. The directory layer opens inodes.
3. The inodes read and write sectors through the buffer cache. The cache reaches the device only on a miss, an eviction or a flush.

Every user thread that makes a file system call can be inside the cache at the same time. The file-system layers take no global lock.

## 2. Modules

| Module | Models | State (code) | Actions (code) |
|---|---|---|---|
| `SectorStore` | What the cache promises its callers (abstract) | `store` (the sector contents callers see), `wreq` (write calls not yet applied) | `Call`, `Commit` |
| `BufferCache` | `filesys/cache.c`, plus `filesys_init` and `filesys_done` | `cacheList` (`cache_list`), `entry` (each object's sector, data and dirty bit), `alloc` (malloc'd objects), `locked` (`rw_lock` held across a device write), `disk` (`fs_device`), `mounted`, `flush` (refresh iteration between its write and `is_dirty = false`), and per thread `pc`, `op`, `ptr` and `buf` | `ReadBlock`, `WriteBlock`, `ReadAhead`, `CacheSector`, `HitCopy`, `MissFill`, `EvictWrite`, `Return`, `RefreshEntry`, `RefreshClear`, `DeleteCache`, `FilesysInit` |
| `InodeLayout` | The on-disk block tree of `filesys/inode.c`: `inode_create`, `inode_extend`, `byte_to_sector` | `next` (free map: sectors below it are allocated), `blk` (pointer slots of every sector), `dinode` (each file's `inode_disk`), `createDirect` and `extendDirect` (the `static char direct[]` buffers at lines 200 and 566), `ovf` (a write went past a buffer or array) | `Create` (`filesys_create_file` allocating the inode sector, then `inode_create`), `Extend` (`inode_extend` as `inode_write_at` calls it) |
| `InodeTable` | The open-inode table of `filesys/inode.c` (`inode_open`, `inode_reopen`, `inode_close`, `inode_remove`, `inode_deny_write`, `inode_allow_write`) and its callers `dir_lookup2`/`filesys_open`, `dir_remove`, `filesys_create_file` and the file layer | `openList` (`open_inodes`), `hinfo` (each `struct inode`'s sector, `open_cnt`, `deny_write_cnt`, `removed`), `halloc` (malloc'd inodes), `used` (free map), `linked` (files with a directory entry), `held`/`denied` (files each thread has open, and which deny writes), per thread `pc`, `tgt`, `why`, `hnd`, `closing` (the inode whose last close it is finishing) | `Lookup`, `OpenScan`, `OpenNew`, `Erase`, `RemoveClose`, `InodeRelease`, `DenyWrite`, `AllowWrite`, `FileClose`, `Create` |
| `Directory` | The path layer: `build_path`, `filesys_create`/`filesys_open`/`filesys_remove` (`filesys/filesys.c`), `lookup`, `dir_lookup2`, `dir_add2`, `dir_create2`, `dir_remove` (`filesys/directory.c`), the system calls `create`, `mkdir`, `remove`, `chdir`, `open`, `close` (`userprog/syscall.c`), and the working directory `process_execute` shares and `process_exit` keeps | `ents` (each inode's directory entry slots), `kind` (free map and file/dir), `ocnt` (`open_cnt`), `removed`, `dobj`/`dalloc` (malloc'd `struct dir`s of working directories and the inode each wraps), `cwd` (`working_dir`), `alive`, `fds` (open files per process) | `SysCreate`, `SysRemove`, `SysChdir`, `SysOpen`, `SysClose`, `Exec`, `Exit` |
| `BigInt` | `bigint.c`: `big_add`, `big_sub` and their helpers, `cmp_abs`, `big_cmp`, `big_mul`, `big_karatsuba` (`split_bigint`, `big_shift_left`), `big_toom_cook` (`split_bigint_three`, `evaluate_polynomials`, `big_bit_shift_left`/`right`, `divide_by_3`, `interpolate_results`, `big_pad`), `big_read_string`, `big_bitlen` | `xs`, `ys`: the two strings a caller reads in with `big_read_string` (`x`, `y` are the bigints made of them) | `ReadX`, `ReadY` |
| `ProcessWait` | The exec/wait/exit handshake of `userprog/process.c`: `process_execute`, `start_process`, `process_wait`, `process_exit` | `cst` (each child thread's life), `linked` (`parent`), `loaded`, `children`, `info` (`child_statuses`), `st` (`exit_status`), `psema` (`parent_sema`), `sema` and `loadSema` (the two stack semaphores), `loadOk` (`load_success`), `ppc`/`tgt` (where the parent is, and for which child), `panic` (a NULL dereference) | `Execute`, `LinkChild`, `LoadWait`, `WaitScan`, `WaitSet`, `WaitDown`, `StartProcess`, `Exit` |
| `FdTable` | A process's descriptor table in `userprog/syscall.c`: `open`, `close`, `filesize`, `read`, `write`, `seek`, `tell` and the dispatcher's checks, and the close loop of `process_exit` | `fa` (`fileArray`), `num` (`num_fds`), `alive` (`struct file`s opened and not closed), `live` (the process has not exited), `oob` (`fileArray` indexed past its end), `nullDeref` (`tell` passed NULL to `file_tell`) | `Open`, `Access` (the five calls that only read the table), `Close`, `Exit` |
| `FrameTable` | `vm/frame.c`: `get_free_frame`, `frame_create`, `evict_policy`, `frame_evict`, `frame_free`; from `vm/page.c` and `vm/swap.c`: `set_frame`, `pin_page`/`unpin_page`, `free_func`, `swap_insert`, `swap_out` | `frames` (`frame_table`, front first), `made` (frames malloc'ed), `inUse`, `evicting`, `pinned`, `page` (the kind of `frame->page`), `accessed` (the pagedir accessed bits), `owner` (`frame_lock`), per thread `pc` and `held` (the frame its call returned), `swapUsed`, `panic` | `Call`, `Acquire`, `GetScan`, `CreateAlloc`, `EvictStep`, `SetFrame`, `Touch`, `FreeFrame`, `SetPinned`, `SwapOut` |
| `FileSys` | `BufferCache` composed with the inode layer's sector allocation (`inode_create`, `inode_extend`) and release (`inode_close`) | `BufferCache`'s variables, plus `used` (the free map) | `BufferCache`'s actions, plus `Alloc` and `Release` |
| `DirAdd` | Concurrent `dir_add2` and `dir_remove` on one directory (`filesys/directory.c`), through `lookup`, the free-slot scan and `inode_write_at`'s length check and extension (`filesys/inode.c`) | `dir` (the directory file's entries), `len` (its length in entries), per thread `pc`, `op`, `idx` (the next entry a scan reads), `ofs` (where it writes), and `added` (names an add reported as added and no remove has since) | `AddCall`, `RemoveCall`, `LookupStep`, `ScanStep`, `WriteLen`, `Extend`, `Put` |
| `MC_DirAdd`, `MC_FileSys`, `MC_BufferCache`, `MC_InodeLayout`, `MC_InodeTable`, `MC_Directory`, `MC_BigInt`, `MC_ProcessWait`, `MC_FdTable`, `MC_FrameTable` | Model values and definitions for TLC | | |

### How BufferCache follows the code

**Granularity.** Each call is split at the points where its thread can block:

- the scan (`get_info`, including its move to the back);
- the copy under the entry lock (`HitCopy`);
- the device read on a miss, followed by the unlocked size test and eviction start (`MissFill`);
- the device write of the victim, followed by its free and the push of the new entry (`EvictWrite`).

A thread can be preempted between any two statements. Preemption inside one of these steps adds no behaviour the properties can tell apart, with one exception: `refresh_cache` clears `is_dirty` after releasing the lock, so its write and its clear are two actions.

**Memory.** Objects are model values, `Slots`.

- `malloc` picks any slot not in `alloc`, so an object freed by `evict_cache` can be reused at once by the next miss. The entry a miss pushes after an eviction is never the victim's slot, because `new_info` was malloc'd before `evict_cache` freed the victim (`PushVictimFreed`).
- A read through a freed pointer returns any value.
- A write through a freed pointer changes either nothing or the reused object. This is the undefined behaviour of the C code, modelled as a nondeterministic choice.

**History variables.** `latest`, `okv` and `ret` hold no code state.

- `latest[s]` is the last completed write to sector `s`.
- `okv[t]` is the set of values a read in progress may return. It holds the value at call time plus every value written while the read runs.
- `ret[t]` is the value returned.

**The periodic flusher.** `refresh_cache` has no caller under `src/`. The constant `Flusher` switches it on, for the periodic flush the spec describes.

**Capacity.** The constant `Capacity` plays the role of 64. The code tests `list_size == 64` at lines 82, 122, 151 and 187, and `CacheFull` models that test. The behaviour at the boundary depends only on the test being an equality, so 2 stands in for 64.

### How InodeLayout follows the code

**Scaled constants.** The code's constants are parameters:

- `ND`, `NI` and `NDI` are `NUM_DIRECT`, `NUM_INDIRECT` and `NUM_DOUBLE_INDIRECT`.
- `K` is the 64 pointers per index block, `BLOCK_SECTOR_SIZE / 8` in the code.
- A 512-byte buffer holds `BufSlots = 2K` four-byte pointers. The code fills only the first 64.
- `SS` is the sector size in bytes.

The runs use `ND = 2`, `NI = 2` or `3`, `NDI = 2`, `K = 2` and `SS = 2`. All three tiers, every tier boundary and every "last block is partial / exactly full" case occur within 16 sectors. `NI = 3` keeps the relation `NI*K > 2K` of the real constants (320 > 128), which is what lets a fill run past a buffer.

**Operations.** Each operation is one step. Its loops are RECURSIVE operators (`Fill`, `CreateIndirects`, `FullIndirects`, `DoubleLoop`, `TopUp`, `ExtendIndirects`). They thread an accumulator through the allocations and block writes in the order the code makes them.

**Allocation.** The free map (`free_map_allocate_one`, not in this tree) hands out the lowest free sector. Nothing is freed in this module, so that is the counter `next`. Sectors 0 and 1 are the free map and the root directory.

**Static buffers.** A `static` buffer is state, because its contents survive from one call to the next. The other statics of these functions are either refilled in full before use or sit in branches that can never be taken, so they need no state.

**Reads out of bounds and unsigned wrap.** Reading past a buffer, or from a pointer that is not a sector, yields `Undef`. A `size_t` difference that would be negative wraps to a value above every loop bound (`USub`).

**Reference.** `RefLookup` is the tree walk spec section 4.2 fixes. `byte_to_sector` is checked against it over every byte of every file.

### How InodeTable follows the code

**Granularity.** Opening a file by name is three steps: the directory `lookup` that yields `e.inode_sector` (`Lookup`), `inode_open`'s scan of `open_inodes`, which reopens a match (`OpenScan`), and, on a miss, `malloc` followed by the push to the front (`OpenNew`). Nothing locks `open_inodes`, and `malloc` and the directory read can block, so other threads run between these steps. `dir_remove` on a regular file is `Lookup` and the same two open steps, then the erase of the entry (`Erase`, an `inode_write_at` through the cache that can block), then `inode_remove` and `inode_close` (`RemoveClose`). `inode_close` is two steps. `--open_cnt` and its test come first (in `FileClose` and `RemoveClose`). Then, for the last reference, `list_remove`, the release of a removed inode's sectors and the `free` (`InodeRelease`). Nothing locks `open_inodes`, and the timer can preempt a thread between the two statements. Once the inode is off the list no scan can find it, so the rest of the close is one step. `inode_open`'s scan is one step; splitting it per list element could add more use-after-free behaviours, and `table_close_race` already has one.

**Files and sectors.** A file is its inode sector, with a fixed set of direct data sectors and, optionally, indirect blocks and their data sectors (`DirectOf`, `IndirectOf`, `DataOf`). The shape of the block tree is `InodeLayout`'s subject; here only which sectors a file owns matters. `Create` is `filesys_create_file` allocating those sectors again once all of them are free, so a sector can be reused by a new file.

**The free map.** `free-map.c` is not in this tree; the free map is the set `used` of allocated sectors, filled by `Create` and emptied by `inode_close`.

**Undefined behaviour in `inode_close`.** `memcpy (db, ...)` at line 385 writes through the uninitialised `db` instead of into it, so what is released for each indirect pointer is stack garbage: the constant `Garbage` is the set of values it may hold, 0 meaning "skipped".

**The file layer.** `file.c` is not in this tree. `file_deny_write`, `file_allow_write` and `file_close` are modelled from the spec: a file denies at most once, allows only if it denied, and allows before `inode_close`.

### How Directory follows the code

**Granularity.** Each system call is one step: the model asks what sequences of calls by several processes do to the directory tree and the reference counts, not how two calls race inside `dir_add2`; `DirAdd` asks that. With each call atomic, a name cannot be bound twice in this module, so no property of `dir_names` is about name uniqueness. Every call is the whole handler: `SysCreate` is `build_path`, the free-map allocation, `dir_create2` writing the new inode's "." and ".." entries, `dir_add2`, and the `dir_close` of the parent, or, for a file whose path has no directory part, `filesys_create_file` in the working directory without that close.

**Paths.** A path is a sequence of characters over `"a"`, `"/"` and `"."`. `BuildPath` is `build_path`'s `switch` on the first character, and `Walk` is its loop as a RECURSIVE operator: each component followed by `/` must name a directory, and the last one is returned unresolved, or as `"."` when it is empty. A name is a sequence of characters, so `"."` and `".."` are names like any other, exactly as `lookup`'s `strcmp` treats them.

**Reference counts.** An inode is its sector, and `ocnt[s]` is the `open_cnt` of its one `struct inode` (InodeTable shows there is one unless opens race). `Settle` is what `inode_close` does once the counts drop: a removed inode that nobody has open goes back to the free map. `Dec` leaves a count already at 0 at 0, which is where the code would use a freed `struct inode`. `filesys_open(".")` wraps the working directory's inode without reopening it, so the file it returns does not own a reference (`Opened`). `FreeSector` is `free_map_allocate`'s lowest-free choice; `free-map.c` is not in the tree.

**Working directories.** `process_execute` hands the child the parent's `working_dir` pointer (`Exec`), and `process_exit` closes the open files but not the working directory (`Exit`). `chdir` opens the target, wraps it in a new `struct dir` (drawn from `DirObjs`) and closes the old one, with no check that the target is a directory.

### How DirAdd follows the code

**Granularity.** No lock is held across `dir_add2` or `dir_remove`, so each `inode_read_at` of one entry is a step: `LookupStep` is one iteration of `lookup`, and `ScanStep` one iteration of `dir_add2`'s free-slot loop. A read at or past the length is short and ends the loop. `inode_write_at` is split where the code takes `extension_lock`. `WriteLen` reads `inode_length` without the lock. `Extend` is the locked part: the re-read, and `inode_extend` when the file is still short. `Put` is the write loop, which writes nothing past the length.

**Abstractions.** An entry is `in_use` and a name; the inode sector and `is_dir` are left out. `dir_remove`'s checks between its lookup and its erase are left out, because the names are files that nobody has as a working directory. So is the inode it removes, whose lifecycle `InodeTable` models. The directory starts as `mkdir` leaves one: `dir_create2` with size 0, then `"."` and `".."`, two entries long. `AddCall` is `dir_add2` starting its lookup, and it is enabled only while each thread's add could still grow the file within `MaxEntries`. `RemoveCall` is `dir_remove` starting its lookup, and it can always start, so the system never stops.

### How BigInt follows the code

**Numbers.** A `bigint` is the record `[signum, data]`, with `data` the limbs least significant first, as in the C array. `Val` is the integer `big_write_string` prints: the magnitude, negated when `signum < 0`. Every routine is an operator that returns the bigint the C function leaves in its output argument; the harness only picks operands, so the state space is the set of operand pairs and each state checks every routine on them.

**Input.** The harness reads each operand as `main` and the tests do: a hex string passed to `big_read_string`. A string is its sign character (`neg`) and its digits, most significant first. `ReadString` keeps the code's steps: the sign, the padding with `'0'` to a multiple of `Digits` digits, and the `strtoull` of each section (`StrToLimb`) stored from the top limb down. A digit is `W \div Digits` bits wide, so `Digits = 2` with `W = 2` gives one-bit digits. Every padding length occurs, and the `'0'` padding keeps whole zero limbs when the string starts with them. `BigBitlen` is `big_bitlen`: skip zero limbs from the top, then count the top limb's bits.

**Width.** Limbs are `W` bits wide and every limb operation is taken `% 2^W`, with the borrow and carry tests of the code (`a_limb == 0` becoming `UINT64_MAX`, `sum < a` for a carry) kept as written. `W = 2` keeps the limbs small enough to enumerate every three-limb operand. The recursion cut-offs are scaled with it: Karatsuba falls back to `big_mul` below `KaratsubaCut = 1` limb (64 in the code) and Toom-Cook to Karatsuba below `ToomCut = 2` (225), so every recursion level of both algorithms is reached. `divide_by_3`'s constant 6148914691236517205 is `(2^64 - 1) / 3`, so the model uses `Third == (2^W - 1) \div 3`.

**What is kept.** The exact limb counts: `big_add_helper` keeps `X`'s old upper limbs and extends by one limb for a carry out, `big_sub_helper` trims, the bit shifts trim to at least one limb, `divide_by_3` does not trim, and `big_cmp`/`cmp_abs` decide by limb counts first. These are what the properties turn on.

**Evaluation.** `interpolate_results` and `big_toom_cook` are straight-line code over local variables; `Bind(e, Op)` evaluates `e` once and passes its value on, one `Bind` per statement in the code's order. It makes TLC compute each local once, where a chain of `LET`s is recomputed at every use when TLC collects coverage.

### How ProcessWait follows the code

**Steps.** A step is a stretch of one thread's code that nothing else can interleave with. `process_exit` and the scans of `process_wait` run with interrupts off, so each is one step (`Exit`, `WaitScan`). `process_wait` re-enables interrupts at line 255 before it publishes `parent_sema`, so `WaitSet` (lines 256-259) is a step of its own, and `WaitDown` is `sema_down` returning. `process_execute` is split at `thread_create` (`Execute`), because the new thread may run before the parent links it (`LinkChild`), and at its `sema_down` on the load semaphore (`LoadWait`).

**Abstractions.** One parent, whose children never exec and which never exits. Lists are sets. A thread's struct is `cst`; a `"dead"` child's struct is freed, and `WaitSet` on a dead child is the write into it. A NULL dereference stops the model (`panic`). A child whose load failed jumps to an invalid entry point and exits with -1. `init_thread` is not in the tree; `Init` assumes it zeroes `parent` and `parent_sema`.

### How FdTable follows the code

**Steps.** A process makes one system call at a time, and nothing else touches its `fileArray`, so each call is one step. `Access(call, fd)` covers `filesize`, `read`, `write`, `seek` and `tell` together, and `Accepts` is each call's range test. The only state those calls change is a read past the end of the table (`oob`) or `tell`'s unchecked NULL (`nullDeref`). `read(0)` is stopped by the dispatcher's `*(void **) arg1 == NULL` test (line 146), which ends the process. A rejected `close` calls `exit(-1)`. Both of these become `Exit`, the close loop of `process_exit` (`process.c:352-357`).

**Abstractions.** `Size` stands for 128 and `TellMax` for 15. The slots `open` fills and `exit` closes are `2 .. Size - 1`, as in the code. A `struct file` is a model value, and `filesys_open` failing is `ok = FALSE`. `init_thread` is not in the tree, so `Init` assumes an empty table and `num_fds = 0`. What `close(Size)` overwrites past the array is unknown: the model records the write (`oob`) and leaves the table alone. `MinFds` bounds how far `num_fds` can be driven below 0.

### How FrameTable follows the code

**Steps.** `Call` is a thread entering `get_free_frame` or `frame_create`. `Acquire` is `lock_acquire(&frame_lock)` returning; acquiring the lock again while holding it fails the lock's assertion. Everything the code does under the lock, up to its return or its call of `evict_policy`, is one step (`GetScan`, `CreateAlloc`). One iteration of `evict_policy`'s `while (true)` is one step (`EvictStep`). The iteration that picks a victim also runs `frame_evict` (`Evict`) and the caller's tail:
- `get_free_frame` resets the victim and releases the lock;
- `frame_create` returns the victim with `evicting` set, `in_use` cleared and the lock still held (`Return(t, f, FALSE)`).

**Abstractions.** The page-fault handler that calls these functions is not in the tree. A thread that got a frame links a page of some kind to it (`SetFrame`, `set_frame`). The rest of the system may do any of these at any time:
- set an accessed bit (`Touch`);
- free a frame (`FreeFrame`, `free_func`);
- pin or unpin a frame (`SetPinned`);
- read a page back from swap (`SwapOut`).

`frame_create` leaves `in_use` and `pinned` as `malloc` left them, which the model takes as a nondeterministic boolean. `get_free_frame` never sets `page` on a new frame, and the model takes it as NULL. A frame with no page, or an empty `frame_table`, faults in `evict_policy` (`panic`). The two accessed bits of line 47 are one bit. Dirty bits and the FILEIO write-back change no modelled state. A full swap on eviction is the `PANIC` of line 90.

### How FileSys follows the code

`FileSys` EXTENDS `BufferCache` and uses its actions unchanged. It adds `used`, the sectors the free map has allocated. The cache calls the inode layer makes (`ReadBlock`, `WriteBlock`, `ReadAhead`, `CacheSector`) are restricted to allocated sectors.
- `Alloc(s, v)` is `free_map_allocate_one` followed by `block_write (fs_device, s, ...)`, as `inode_create` (lines 188-192) and `inode_extend` do for every sector they allocate. It is recorded in `latest` like a completed `write_block` copy.
- `Release(s)` is `free_map_release` in `inode_close` of a removed file. The cache keeps whatever it holds for `s`.
- The file structure is `InodeLayout`'s and `InodeTable`'s subject. Here a sector's contents are one value, whatever role the sector plays.

### Refinement

`BufferCache` instantiates `SectorStore` with the mapping `Contents` and `WriteRequests`.

- `Contents[s]` is the data a caller would see for sector `s`. It is taken from the first of these that exists:
  1. the entry `get_info` would find;
  2. an entry a missing thread is about to push;
  3. the victim being written back;
  4. the device.
- `WriteRequests[t]` is the write call thread `t` has made whose bytes are not yet copied.

`CacheRefinesStore` asserts `Abstract!Spec`. A sector's contents may change only as the commit of a pending write with that write's value. Evictions, flushes, the shutdown flush and remounts must be invisible.

## 3. Runs

All runs use 3 sectors, values `{v0, v1}`, `Capacity = 2` and symmetry over the slots.

- **Why these bounds are enough.**
  - Three sectors with capacity two force evictions, and let a sector be evicted and read back.
  - Two values tell a lost write apart from the initial contents.
  - One spare slot lets a freed object be reused.
  - Shutdown and remount are unbounded: the model cycles through them.
  - Sequential runs have 1 thread and 3 slots. Concurrent runs have 2 threads and 4 slots.
- **Why symmetry is sound.** Only the slots are symmetric. No definition tells two slots apart. `Garbage` uses `CHOOSE` over `Sectors`, which is why sectors are not declared symmetric. `cache_noflush` does without it, because it checks liveness.

| Run | Threads, flusher | Checks | Result | What it shows |
|---|---|---|---|---|
| `cache_seq` | 1, on | `TypeOK`, `NoLostWrite` | pass (233,616 states) | With one caller and the flusher, LRU, eviction, write-back and refresh keep the list well formed. No completed write is lost while mounted, across shutdowns and remounts. One entry per sector, the capacity bound and linearizable reads need two callers to fail (findings 2 and 3), so they are not asked of this run. |
| `cache_noflush` | 1, off | `ShutdownDurable`, `CacheRefinesStore`, `CallsReturn` | pass (174,168 states, no symmetry) | As built, with no flusher, every write is durable after `filesys_done`, and the cache is transparent: it refines `SectorStore`. Under `FairSpec`, every call returns: `evict_cache` always releases the victim's `rw_lock`, so no later hit on a reused slot waits for good. Deadlock is not checked separately. With every thread idle, a call or `filesys_init` can always start, so a stuck state is a `CallsReturn` violation. |
| `cache_conc_uaf` | 2, off | `NoUseAfterFree` | violation | Finding 4 below. |

### InodeLayout runs

All `InodeLayout` runs use two files with symmetry. They use `CHECK_DEADLOCK FALSE`: writes are optional, and once every file has reached the length bound nothing is enabled.

| Run | Inputs | Checks | Result | What it shows |
|---|---|---|---|---|
| `layout_append` | Files created empty; each write adds at most one sector; up to 12 bytes | `TypeOK`, `ByteToSectorCorrect`, `SectorsOwnedOnce`, `NoLeakedSectors` | pass (25,653 states) | Growth one sector at a time through the direct and indirect tiers is correct. This includes growth across block boundaries and the interleaving of two files through the shared static buffers. |

### InodeTable runs

Two threads, two files of two sectors each (sectors 1-4), three `struct inode` objects, and one open file per thread, with symmetry over threads and objects. Two threads are what every race in this table needs; the third object lets a freed `struct inode` be reused while two others are live. The table has no passing run: with `inode_close` split as the code is, two threads reach a freed `struct inode` within eight steps, and every invariant about counts or releases then fails.

| Run | Checks | Result | What it shows |
|---|---|---|---|
| `table_close_race` | `RefCountsExact` | violation (8 steps) | Finding 30 below. |
| `table_stale_lookup` | `NoReleaseWhileOpen` | violation | Finding 11 below. |

### Directory runs

Two processes, three inode sectors with sector 1 the root, `NAME_MAX` 2, two `struct dir` objects for working directories, at most one open file per process and open counts up to 2.

| Run | Paths | Checks | Result | What it shows |
|---|---|---|---|---|
| `dir_names` | `a` and `/a/a`: every component a name | `TypeOK`, `NoDanglingEntry` | pass (73,508 states) | Across creates, mkdirs, removes, chdirs, opens, closes, execs and exits of two processes, no named entry of a live directory outlives the inode it names. |

### DirAdd runs

Two threads, three names, a directory file of up to six entries (`"."`, `".."` and four more), symmetry over threads and over names. Two threads are what the race needs, and three names let an add and a remove of different names meet as well.

| Run | Checks | Result | What it shows |
|---|---|---|---|
| `dir_add_race` | `NoLostAdd` | violation (20 steps) | Finding 29 below. |

### BigInt runs

`W = 2`, `Digits = 2`. The operands are the strings of one to six binary digits without leading zeros, of either sign (128 strings). They read as every normalised bigint of one to three limbs, including the `-0` of `"-0"`, which is also what `big_mul` produces. Three limbs are enough for Karatsuba to split twice and for Toom-Cook to split into three parts and recurse. Deadlock is checked: a new operand can always be read.

| Run | Checks | Result | What it shows |
|---|---|---|---|
| `bigint_ops` | `TypeOK`, `AddSubCorrect`, `ProductCorrect`, `ReadStringCorrect` | pass (16,384 states) | `big_read_string` gives each string's value, and `big_bitlen` its bit length. `big_add`, `big_sub`, `big_mul` and `big_karatsuba` are exact on every pair of operands, and their results are normalised (so their limb counts can feed `big_cmp`). |

### ProcessWait runs

Two children and exit statuses `{1, 2}`. Two children let one be waited for while the other is created, and the statuses differ from the 0 a new `wait_info` holds. The run assumes weak fairness of the parent's in-kernel steps (section 4). It sets `CHECK_DEADLOCK FALSE` because a parent blocked for good is the failure `WaitReturns` reports.

| Run | Checks | Result | What it shows |
|---|---|---|---|
| `wait_lost_wakeup` | `WaitReturns` | violation (884 states) | Finding 20 below. |

### FdTable settings

`FdTable` has no kept run: its finding is reproduced from `MC_FdTable_count.cfg` (finding 22). The cfg uses `Size = 4`, which gives slots 2 and 3, with fd 4 one past the end. It also sets `TellMax = 2`, three file objects, and `num_fds` down to -2. Two slots under a limit of four keep the code's shape (126 slots under 128). Three objects let a third open succeed with both slots full. `CHECK_DEADLOCK FALSE` is set because an exited process does nothing more.

### FileSys runs

The run uses one caller, two sectors, values `{v0, v1}`, a two-entry cache and the flusher on, with symmetry over the cache objects. One sector is enough to release and reallocate, and the second lets eviction happen.

| Run | Checks | Result | What it shows |
|---|---|---|---|
| `fs_reuse` | `ReadsLinearizable` | violation (8 steps) | Finding 27 below. |

### FrameTable runs

The run uses two threads, two user pages and one swap slot. Two pages let both frames be in use, so that a call must evict. Two threads let one wait for `frame_lock` while the other holds it. `CHECK_DEADLOCK FALSE` is set because a thread stuck for good is what `RequestsReturn` reports. The run assumes the fairness of section 4.

| Run | Checks | Result | What it shows |
|---|---|---|---|
| `frame_livelock` | `RequestsReturn` | violation (about 1.5 million states, one minute) | Finding 23 below. |

### Findings

All but 19 are code bugs; 19 is a divergence from the header. Findings 4, 11, 20, 23, 27, 29 and 30 are runs and are detailed in `PROJECT.json`'s findings. The others were found by TLC on the same modules with the settings given for each; they are recorded as notes on the matching hazards in `PROJECT.json`, and each is reproduced by editing the named cfg as stated.

1. **Refresh race** (`cache.c:169` and `cache.c:225`).
   - `write_block` sets `is_dirty` before it takes the lock.
   - `refresh_cache` clears `is_dirty` after it releases the lock.
   - A write copied in between sits in a clean entry, and `delete_cache` skips it at shutdown.
   - This is latent until a periodic flusher calls `refresh_cache`.
   - Reproduce: `MC_BufferCache_seq.cfg` checking only `ShutdownDurable`.
2. **Concurrent misses** (`cache.c:122-126`).
   - Two misses of the same sector both insert an entry.
   - A later read can return the stale copy instead of the thread's own completed write.
   - Reproduce: `MC_BufferCache_noflush.cfg` with `Threads = {t1, t2}`, `Slots <- MCSlots2`, checking `ReadsLinearizable`.
3. **Capacity test** (`cache.c:122`).
   - `== 64` is tested without a lock, so the list grows to 65.
   - From then on eviction never happens again.
   - Reproduce: as for 2, checking `CacheBounded`.
4. **Use after free** (`cache.c:102` and `cache.c:207`).
   - A hit's pointer is freed by another thread's eviction before the hit locks it.
5. **Exactly full last indirect block** (`inode.c:175`).
   - `indirect_direct` is 0, so the last indirect block is written from the static buffer as it stands.
   - It then holds zeros (pointing at sector 0, the free map) or another block's pointers.
   - Reproduce: `MC_InodeLayout_double_extend.cfg` with `MaxLen = 16`, `MaxGrowth = 2`, `CreateLens = {8}`, checking `SectorsOwnedOnce`.
6. **Partial indirect block skipped** (`inode.c:543`).
   - Growing past a partially filled indirect block in one write skips topping that block up.
   - Reproduce: as for 5 with `MaxGrowth = 16`, `CreateLens = {0}`.
7. **Double-indirect addressing** (`inode.c:97` and `inode.c:106`).
   - `byte_to_sector` picks the wrong indirect block in the double-indirect tier.
   - It also reads beyond the 64 pointers of the block.
   - Reproduce: `MC_InodeLayout_double_extend.cfg` with `MaxLen = 18`, `MaxGrowth = 2`, `CreateLens = {18}`, checking `ByteToSectorCorrect`.
8. **Double-indirect over-allocation** (`inode.c:231`).
   - The partial-subtree branch can never be taken, so `inode_create` allocates full 64×64 subtrees.
   - Reproduce: as for 7, checking `NoLeakedSectors`.
9. **Double-indirect extension** (`inode.c:580`).
   - `inode_extend` miscounts the double-indirect blocks by a factor of 64 and writes past `double_indirect[4]`.
   - It skips allocating the lower tiers a short file is missing.
   - Reproduce: `MC_InodeLayout_double_extend.cfg` as it stands (`NoOverflow`).
10. **Two `struct inode`s for one sector** (`inode.c:297` and `inode.c:314`).
    - `inode_open` scans `open_inodes` and, after `malloc`, pushes with no lock, so two threads opening one sector each get their own.
    - `removed` and `deny_write_cnt` are then split between them.
    - Reproduce: `MC_InodeTable_close_race.cfg` checking only `OneHandlePerSector`.
11. **An open that lands on a released file** (`inode.c:314`, `directory.c:169`).
    - An opener and a remover both miss in `open_inodes`; the remover pushes, erases the entry and, as the only opener of its `struct inode`, releases the sectors; the opener then pushes a fresh `struct inode` for the freed sector.
    - The opener holds a file whose sectors the free map can hand to the next created file.
12. **Indirect data never released** (`inode.c:385`).
    - `memcpy (db, ...)` copies into the address an uninitialised `db` holds, so `db` is garbage; the loop also covers only half the block.
    - Whatever `db` holds, the indirect block's data sectors stay allocated after the last close of a removed file, and a garbage `db` can release another file's sector. The double-indirect loop (lines 402-409) does the same without the `!= 0` check.
    - Reproduce: `MC_InodeTable_close_race.cfg` with `Threads = {t1}`, `IndirectOf <- MCIndirect`, `Garbage = {0, 3}`, checking only `NoLeakAfterRemove`.

13. **A trailing `/` removes a directory through its own "." entry** (`filesys.c:148`).
    - `build_path("a/")` opens `a` and returns the name `"."`, so `remove("a/")` calls `dir_remove(a, ".")`.
    - It erases `a`'s self entry and removes `a`; the root's entry `a` stays, naming a sector the next create reuses.
    - Reproduce: `MC_Directory_trailing_slash.cfg` as it stands (`NoDanglingEntry`).
14. **A relative file create leaks a reference** (`filesys.c:181`).
    - The `filesys_create_file` branch never closes the directory `build_path` opened, so the working directory's `open_cnt` only grows and a removed working directory is never released.
    - Reproduce: `MC_Directory_names.cfg` checking only `RefCountsExact` (one `create("a")`).
15. **`chdir` into a file** (`syscall.c:520`).
    - `chdir` tests the path pointer `dir` instead of `new_dir`, and nothing checks `is_dir`; a later `mkdir` writes directory entries into the file.
    - Reproduce: `MC_Directory_names.cfg` checking only `CwdValid`.
16. **`open(".")` and the shared working directory** (`filesys.c:238`, `process.c:115`).
    - `filesys_open(".")` returns a file over the working directory's inode without reopening it, and a child shares its parent's `struct dir`; closing either drops a reference the caller never took. These are modelled (`Opened`, `Exec`); TLC reports findings 14 and 15 first on the properties that would show them.
17. **Toom-Cook returns a wrong product** (`bigint.c:875`, `bigint.c:953`).
    - `divide_by_3` divides `b` in place without trimming, so `b` can keep a zero top limb.
    - `big_sub(&temp4shifted, &temp4shifted, &b)` compares limb counts, takes `b` as the larger, and `d` comes out with the wrong sign and magnitude: in base 4, `-(0,1,1) * -(1,0,2)` gives 596, not 660.
    - Reproduce: `MC_BigInt_toom.cfg` as it stands (TLC reports it in the initial state).
18. **`divide_by_3` carry overflow** (`bigint.c:874`).
    - `carry = (cur->data[i] + carry) % 3` adds before reducing, so a limb of `UINT64_MAX` with a carry wraps; the `remain != 0` "+1" repair hides only some cases.
    - Reproduce: `MC_BigInt_toom.cfg` with `Inputs <- MCCarryInputs`: `-(0,1,3) * -(0,3,1)` gives 1396, not 1456, while `b` is trimmed.
19. **`-0` compares below `+0`** (`bigint.c:487`, `bigint.c:380`).
    - `big_mul` and `big_karatsuba` give a zero product the sign of the operands' product; `big_cmp(-0, +0)` returns -1, where `bigint.h:185` says 0 for equal numbers.
    - Reproduce: `MC_BigInt_ops.cfg` checking only `CmpCorrect`.

Also in `interpolate_results` (line 945): `bigint one` is used uninitialised by `big_set_nonzero`'s `realloc`, undefined behaviour the model replaces by the intended value 1.
20. **Lost wakeup in `process_wait`** (`process.c:255`).
    - The parent finds the live child with interrupts off, re-enables them, and only then sets `wait_child->parent_sema`.
    - A child that exits in between takes `process_exit`'s branch for a parent that is not waiting, so it does no `sema_up`.
    - The parent then writes into the dead thread's struct and sleeps in `sema_down` forever.
    - TLC's trace: wait(k1) scans while k1 runs, k1 exits, the parent sets `parent_sema` and stutters in `"down"`.
21. **Exec failure forgets every child** (`process.c:131`).
    - A failed load runs `list_init(&cur->children)`.
    - A later wait on an earlier, still running child then finds only its `wait_info` and returns 0 at once.
    - Modelled in `LoadWait`; no property states what wait returns.

22. **`num_fds` drifts from the table** (`syscall.c:494`, `syscall.c:379`).
    - `close` of an in-range descriptor clears the slot and decrements `num_fds`, whether or not the slot held a file. `close(2)` on a fresh process leaves `num_fds = -1`.
    - `open` refuses only at `num_fds == 128`, but its scan covers only 126 slots. With the slots full, `open` still counts the file, leaks it and returns the uninitialised `next_fd`.
    - Reproduce: `MC_FdTable_count.cfg` as it stands (`FdCountExact`, one step).
    - Reproduce the leak: `MC_FdTable_count.cfg` checking `NoLeakAtExit` (three opens, then exit).
23. **`evict_policy` never gives up a second chance** (`frame.c:50`, `frame.c:167`).
    - A frame that is accessed, evicting or pinned is marked `evicting` and pushed back.
    - Only the victim of a `get_free_frame` eviction is ever unmarked.
    - Once every frame is marked, the loop spins with `frame_lock` held, and the other thread's call never returns. In TLC's trace the frames are a pinned MMAP frame and a FRAME_TABLE frame.
    - `frame_create`'s eviction path also returns with `frame_lock` held. TLC reports the spin first. The kept lock is also reachable: two frames and one `frame_create` eviction lead to an idle thread owning the lock.
24. **Evicted frames leave `frame_table`** (`frame.c:55`).
    - The victim is popped and never pushed back, so `get_free_frame`'s scan never sees it again.
    - After as many evictions as there are frames, `list_pop_front` runs on an empty list.
    - Reproduce: `MC_FrameTable_livelock.cfg` with `INVARIANT FramesTracked`.
25. **Descriptor 128** (`syscall.c:386`, and the same test in `read`, `seek` and `close`).
    - The test `fd > 128` lets `fd == 128` index `fileArray[128]`, one past its end.
    - `close(128)` writes NULL there.
    - Reproduce: `MC_FdTable_count.cfg` checking `InRange`.
26. **`tell` on an unopened descriptor** (`syscall.c:481`).
    - `tell` never tests the slot for NULL before it calls `file_tell`.
    - Reproduce: `MC_FdTable_count.cfg` checking `NoNullTell`.

27. **A reallocated sector is read from the old file's cache entry** (`inode.c:191`, `inode.c:362-373`).
    - `inode_create` and `inode_extend` give each new sector its contents with `block_write` to `fs_device`. Every later access reads the sector through the cache.
    - `inode_close` releases a removed file's sectors without dropping their cache entries.
    - TLC's trace: a sector is allocated and read (so it is cached), released, and allocated again with new contents on the device. The next `read_block` hits the old entry.
    - For an inode sector, the new file gets the old inode's length and block pointers. A dirty old entry is later written back over the new contents.

28. **A string with a leading zero limb breaks add, subtract and compare** (`bigint.c:143`).
    - `big_read_string` sets `num_limbs` to the padded string's limb count. A string longer than 16 digits whose top 16-digit section is all zeros therefore gives a bigint with a zero top limb.
    - `cmp_abs` and `big_cmp` rank by `num_limbs` first, so `big_sub` takes the wrong operand as the larger one. With 64-bit limbs, `1 - "00000000000000000"` (17 zeros, two limbs) is `-(2^128 - 1)`.
    - `bigint.h` promises only an import of the hex string. No test reads such a string.
    - Reproduce: `MC_BigInt_padded.cfg` as it stands (strings with leading zeros, `AddSubCorrect`). TLC reports `1 - "000"`, which gives -15 with 2-bit limbs.

29. **Two concurrent adds to one directory lose an entry** (`directory.c:230-267`).
    - `dir_add2` looks the name up, scans for a free slot and writes it, with no lock across the three. Two adds of different names both scan to the same free slot; the second write replaces the first, and both calls return true.
    - The same gap lets a `dir_remove` erase an entry another thread wrote at the offset its lookup returned, after a second remove freed that slot and an add reused it.
    - Run `dir_add_race`. TLC's trace: `add(a)` and `add(b)` both reach offset 3 past the end, one extends the file, and `b` is written over `a`.

30. **`inode_close` frees an inode another thread has just reopened** (`inode.c:354` and `inode.c:358`).
    - `inode_close` decrements `open_cnt`, and only in the next statement takes the inode off `open_inodes`, with no lock. A thread preempted between the two leaves an inode with `open_cnt` 0 on the list.
    - Another thread's `inode_open` of the same sector finds it there and reopens it (`open_cnt` 1). The first thread then unlinks and frees it, and the opener holds a freed `struct inode`.
    - Run `table_close_race`: t1 opens and closes file 1, t2's open scans between t1's decrement and its `list_remove`.

### Mutants

Every property of a passing run has a mutant: a plausible bug in a mapped helper that TLC must then catch. Each variant is defined just above the helper it replaces.

| Mutant (helper → variant) | Caught by |
|---|---|
| Move-to-back by index only | `TypeOK` |
| Eviction without write-back | `CacheRefinesStore` |
| Eviction writes back only dirty entries | `NoLostWrite` |
| A missed write's entry left clean | `ShutdownDurable` |
| Sector buffer sized in pointers, not slots | `TypeOK` (InodeLayout) |
| Topped-up indirect block not written back | `SectorsOwnedOnce` |
| Topped-up indirect block refilled from slot 0 | `NoLeakedSectors` |
| Indirect slot counted from the start of the tier | `ByteToSectorCorrect` |
| `inode_remove` runs when the erase of the entry is lost | `NoDanglingEntry` |
| `open` without the full-table check | `TypeOK` (Directory) |
| `big_add_helper` stores a limb sum without truncating it to a limb | `TypeOK` (BigInt) |
| `cmp_abs` compares the lowest differing limb instead of the highest | `AddSubCorrect` |
| `big_shift_left` shifts by one limb too few | `ProductCorrect` |
| `big_read_string` stores the sections in reading order | `ReadStringCorrect` |
| `evict_cache` never releases the victim's `rw_lock` | `CallsReturn` |

## 4. Fairness

`ProcessWait`, `FrameTable` and `BufferCache`'s `FairSpec` carry fairness. In `ProcessWait` it is weak fairness of `LinkChild`, `LoadWait`, `WaitSet` and `WaitDown`, the steps of a parent already inside `exec` or `wait`.

- Pintos's timer preemption runs every ready thread eventually, which justifies weak fairness of those steps. `WaitDown` stays enabled once `sema > 0`, because only the parent downs that semaphore.
- Whether the parent calls `exec` or `wait`, and whether a child ever exits, is up to user programs, so those steps get no fairness. `WaitReturns` is stated only for a child that has already exited.
- `BufferCache`'s `FairSpec` (run `cache_noflush`) uses the same two kinds for each caller. `HitCopy` takes the entry's `rw_lock`, so it is strongly fair; `MissFill`, `EvictWrite` and `Return` are weakly fair. Calls, the flusher and shutdown belong to the environment and get no fairness.
- `FrameTable` assumes two kinds of fairness for each thread:
  - Weak fairness of the steps under `frame_lock` (`GetScan`, `CreateAlloc`, `EvictStep`). A thread holding the lock is running kernel code, and the timer keeps scheduling it.
  - Strong fairness of `Acquire`. `lock_acquire` sleeps on the lock's semaphore. `lock_release` ups that semaphore, and the semaphore wakes its waiters in order. So each waiter eventually takes a lock that is free again and again.
- In `FrameTable`, calling, linking a page, touching, pinning, freeing and swapping belong to user programs, and get no fairness.

## 5. Plan

Modules are to be built in this order. Each gets a type invariant, properties aimed at its hazards, mutants, and a map to its source lines.

1. *(done)* **`InodeLayout`**: `inode_create`, `inode_extend` and `byte_to_sector`. Still to add:
   - a run with the real constants on single creates at the tier boundaries the spec's tests name (115, 116, 435 and 436 sectors);
   - freeing a file's tree in `inode_close`, which belongs with `InodeTable`.
2. *(done)* **`InodeTable`**: the open-inode table, deferred deletion and the file layer's deny/allow, with `inode_close` split where it can be preempted (finding 30). Still to add: `inode_open`'s scan one list element per step, and directories in `dir_remove` (the `open_count > 2` and emptiness checks), which belong with `Directory`.
3. *(done)* **`FileSys`**. Composes the inode layer's sector allocation and release with `BufferCache`. Its run finds the stale reuse (finding 27). Still to add: `inode_close`'s `block_read` of index blocks that `inode_extend` updated only in the cache (`inode.c:382`).
4. *(partly done)* **`InodeGrowth`**. `DirAdd` models `inode_write_at`'s unlocked length read and its double-checked extension under `extension_lock`. Still to add: the data writes of files, which need `InodeLayout`'s block tree.
5. *(done)* **`Directory`**: the path system calls over a tree of directories, `build_path` as a RECURSIVE operator. Concurrent `dir_add2` and `dir_remove`, split at each entry read, are `DirAdd` (finding 29). Still to add: `dir_readdir`.
6. *(done)* **`FdTable`**. `open`, `close` and the other descriptor system calls, with a scaled table size. Still to add: the file layer behind the calls (positions, `dir_or_no`), and `readdir`, `isdir` and `inumber`.
7. *(done)* **`ProcessWait`**. The `process_wait` / `process_exit` handshake. Its run checks that wait returns under weak fairness, and TLC finds the lost wakeup. Still to add: a parent that exits (the `allelem` loop at `process.c:283`), and the status wait returns as a property.
8. *(done)* **`FrameTable`**. `get_free_frame`, `frame_create` and `evict_policy`. Its run checks that a call returns, and TLC finds the eviction loop spinning. Still to add: the page-fault handler, once it is in the tree.
9. *(done)* **`BigInt`**. Limb addition, subtraction and the multiplication algorithms, as RECURSIVE operators over narrow limbs checked against Integers. `big_read_string` and `big_bitlen` are modelled; leading zero limbs are finding 28. Still to add: `X` reused as in `experiment1`.

Once the inode layer exists, an abstract file specification (a byte sequence per file) will be refined by `InodeTable` plus `BufferCache`.

## 6. Not modelled, and why

- **`big_pad`'s side effect, `big_copy`, `big_set_nonzero` and `big_size`** (`bigint.c:1023`, `bigint.c:26-99`). Each operator returns a value, so copying into an output argument and the in-place padding of the caller's operand are not separate steps. `big_size` has no caller in the tree.
- **The shell.** Line parsing and process I/O. There is no shared state for TLC to explore.
- **The user test programs** under `tests/`. They are the test suite, not part of the system.
- **ELF loading, argument passing and user-pointer validation** in `process.c` and `syscall.c`. This is byte-level I/O.
- **The hash-table page store, the Pintos list library and the block device.** These are library code outside `src/`. The block device appears only as the `disk` function.
- **The contents of a sector.** A sector holds one value from a small set. No property depends on byte offsets within a sector, so `sector_ofs` and `size` are abstracted away. Partial-sector writes behave like whole-sector writes for every property checked.
- **`mmap.c`, the supplemental page table's lookups and the swap block's I/O.** Their callers (the page-fault handler, `mmap`/`munmap` system calls) are not in the tree. `FrameTable` models only the frame-level effects: `set_frame`, pinning, `free_func`, and the count of swap slots that `swap_insert` and `swap_out` change.
- **The fixed-point header** (`threads/fixed_point.h`). It is pure macros whose users (the scheduler) are not in the tree.
