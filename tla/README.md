# TLA+ models of the multi-terminal kernel core

These modules model the process, address-space and scheduling core of the
kernel in `src/student-distrib`. The kernel runs one program tree per terminal
on one CPU: three terminals, six process slots, and a round-robin switch
between terminals on every PIT tick. The models are checked with TLC.

## 1. Inventory

### Components, their state and operations

| Component | Source | State it keeps | Operations that change state |
|---|---|---|---|
| AddressSpaceManager | `paging.c` | Page directory and the first page table. After boot, three entries change: the 4 MiB entry of the process window (128 MiB), the 4 KiB directory entry of the video alias (132 MiB), and entry 0 of the first page table. Directory entry 0 shares that table with the kernel. | `init_paging`/`set_up_PD_PT` (boot), `remap`, `remap_vid` |
| ProcessTable | `syscall_handler.c/.h` | `pid_array[6]`, a PCB per pid in that pid's kernel-stack region (`_8KB`, which is 0x8000, so 32 KiB), `cur_pid` | `get_available_pid`, `init_pcb`, `get_parent_pcb`, `open_func`/`close_func`/`read_func`/`write_func` (descriptor table) |
| ProgramLoader | `execute_func` | Writes into the above. Also writes `tss.esp0/ss0`, `term[curr_term].esp0/running_pid` and `running_term`. | Parse, file checks, pid, remap, load, PCB, TSS, artificial iret |
| ProcessTerminator | `halt_func` | The same state. | Picks the victim (status 1 = Ctrl+C: the foreground process; otherwise `cur_pid`). Frees the pid, closes fds, respawns a root shell or returns to the parent's execute frame. |
| TerminalScheduler | `pit.c` | `running_term`, `next_term` | `pit_interrupt_handler` → `get_next_process` → `schedule` (video alias, save esp0 and ebp/esp, remap, load esp0, resume) |
| TerminalSwitching | `terminal.c` | `term[3]`: running_pid, esp0/ss0, video backup page, keyboard backup, cursor; `curr_term` (foreground) | `init_term`, `launch_term` (Alt+Fn), `switch_terminal`/`save_term_info`/`restore_term_info`, `terminal_read`/`terminal_write` |
| KeyboardDriver | `keyboard.c` | Global `keyboard_buffer`, `length_key`, modifier flags, `term[].has_enter` | `keyboard_interrupt_handler` (Ctrl+C → `halt(1)`, Alt+Fn → `launch_term`, Enter sets `has_enter`), `read_buffer` (spin on `has_enter`) |
| FileSystem | `file_system.c` | Read-only boot block, per-fd `file_position`, global `dir_number` | `read_dentry_by_name/index`, `read_data`, `file_read`, `dir_read` |
| RtcDriver | `rtc_handler.c` | `rtc_interrupt_occurred[3]`, `term[].rtc_freq` | `rtc_interrupt_handler`, virtualised `rtc_read`/`rtc_write`/`rtc_open` |
| ExceptionHandlers | `exception_handler.c` | None beyond the spinning CPU | Print, then `squash()` spins forever on the faulting program's kernel stack |
| InterruptSetup | `idt_init.c`, `i8259.c` | IDT, PIC masks | Boot only. The gate types decide whether a handler runs with interrupts enabled: trap gates for exceptions and the system call, interrupt gates for the PIT, keyboard and RTC |

### How they interact

- **Synchronous calls.** The system calls `execute` and `halt` call `get_available_pid`, `init_pcb` and `remap` directly. `halt` can call `execute("shell")` to respawn a root shell.
- **Asynchronous entry points.** The PIT and the keyboard interrupt whatever is running. The keyboard handler calls `halt(1)` for Ctrl+C and `launch_term` for Alt+Fn. It does this after `sti()`, on the kernel stack of the interrupted process. `launch_term` may call `execute`.
- **Shared state.** All components read and write the same globals: `term[]`, `running_term`, `curr_term`, `cur_pid`, `pid_array`, `tss` and the page directory. There are no locks; `cli`/`sti` brackets stand in for them.
- **Two meanings of "current".** `curr_term` is the terminal on screen. `running_term` is the terminal whose process owns the CPU. A tick can make the two differ at any moment.

### Hard behaviours

- **Foreground vs. resident.** `execute`/`init_pcb`, the root-shell respawn, and the status-1 halt all use `curr_term`. They can therefore act on a terminal other than the caller's.
- **Saved kernel stacks.** `tss.esp0` is kept in three places: the TSS, the terminal record and the PCB. Execute, halt, schedule and launch_term each update a different subset of them.
- **Pid exhaustion.** Every execute, every launch of a new terminal and every respawn competes for 6 slots.
- **Interrupt windows.** `halt_func` opens with `cli()`, but `clear_keyboard_buffer`/`clear_keyboard_backup`, which it calls at lines 201-208, end with `sti()`. Everything after that runs interruptibly: the pid free, the relink, remap, `tss.esp0`, `cur_pid` and the jump. The same two functions re-enable interrupts in the middle of every terminal switch (`save_term_info`). The keyboard handler calls `sti()` before acting on a key, and `terminal_read` runs entirely with interrupts on.
- **Busy waits.** `read_buffer` and `rtc_read` spin with interrupts enabled on per-terminal flags.
- **Boundary code.** The command parse off-by-ones, the `file_position` arithmetic, and a `uint8_t` status that cannot carry the fault status 256.

### Properties that make each component correct

- **ProcessTable / Loader / Terminator.**
  - Each terminal's processes form one parent chain from its root shell to `running_pid`.
  - Every pid in use is on such a chain, so none leaks.
  - The child of an execute belongs to the caller's terminal and has the caller as parent.
  - Halt returns into the parent's execute frame on the parent's stack.
  - A program's halt only affects its own terminal.
  - A terminal keeps a shell once it is launched.
- **Scheduler / AddressSpaceManager.**
  - The served `cur_pid` is the resident terminal's running process, and its slot is mapped.
  - `tss.esp0` and every saved `term[t].esp0` lie in the stack of the process that will trap on them.
  - The video alias is live memory exactly when the resident terminal is the foreground one.
  - Every terminal with a process is eventually resident.
- **FileSystem.**
  - Successive reads continue at the file position: read(10) followed by read(10) equals read(20).
  - `read_data` returns the bytes of the flat file.
  - `read_dentry_by_name` returns only an entry of exactly the name asked for.
- **Keyboard / Terminal.** A line typed on terminal t is read only by terminal t's process.

## 2. Plan

Modules in order; the first is the most important behaviour:

1. **`Kernel`** (done). It models execute, halt (both paths), Ctrl+C, Alt+Fn/`launch_term`, the PIT tick, vidmap, remap and remap_vid, over the state `pid_array`, `cur_pid`, `running_term`, `curr_term`, `term[].running_pid/esp0`, `tss.esp0`, the PCB fields `parent/term_id/esp`, the page-directory and page-table entries that `set_up_PD_PT`, `remap` and `remap_vid` write. `MCKernel` instantiates it.
2. **`HaltWindow`** (done). `halt_func` is split into its statements after the keyboard clear, with the saved execution of each pcb made explicit. Properties: the frame halt jumps to is still the parent's, and schedule resumes each terminal's own execution.
3. **`Descriptors`** (done): the in-use flags of each PCB's fd table with `open_func`, `close_func`, the stdin/stdout set-up of `init_pcb`, and the closing loop of `halt_func`. `read_func` and `write_func` only dispatch and change no flag. Properties: open never allocates past the table, and halt closes the victim's descriptors. It composes with `Kernel` through `cur_pid`.
4. **`FileSystem`** (done): `read_data`'s block walk and `file_read`'s `file_position`, as RECURSIVE operators checked against a flat reference over small files (offset continuity); `dir_read` with `read_dentry_by_index` and the global `dir_number`, checked against the boot block's entries; and `read_dentry_by_name`, checked against the entries' names.
5. **`ExecuteParse`**: the tokeniser of `execute_func`, checked against a reference tokeniser over short command strings. Undefined bytes are a nondeterministic choice.
6. **`TerminalInput`** (done): `keyboard_buffer`, `has_enter`, `save/restore_term_info`, `terminal_read`, and the Enter/switch race.
7. **`TerminalTrees`** (done), an abstract specification. Each terminal has a stack of programs; execute pushes and halt pops. `Kernel` is shown to refine it through `INSTANCE TerminalTrees WITH stacks <- (the parent chains)` under the foreground-driven environment.
8. **RTC in `Kernel`** (done): `rtc_open`, `rtc_write`, `rtc_read`'s wait loop and `rtc_interrupt_handler`, with the liveness of readers in background terminals.

## 3. Modules and runs

### `Kernel.tla` / `MCKernel.tla`

**Abstraction.**
- A kernel stack is identified by the pid whose 32 KiB region (`_8KB` = 0x8000) holds it. `tss_esp0`, `term_esp0[t]` and `pcb[p].esp` each record that pid, or `NoStack` for the boot stack or a zeroed record. Halt's `tss.esp0 = cur_pcb->esp` therefore becomes "the stack execute ran on".
- Paging is the `paging.h` entries that a translation reads. `page_directory` holds directory entries 0, 1, 32 (128 MiB) and 33 (132 MiB). `page_table` holds, in `page_table_array[0]`, entry 0 and the entries 0xB8–0xBB of video memory and its backups. Each entry keeps `p`, `us`, `ps` and its base. `rw` is 1 everywhere, and the caching bits do not change a translation. The other entries are set not present by `set_up_PD_PT` and are never written again, so they are left out.
- `set_up_PD_PT` gives the initial entries (`InitPageTable`, `InitPageDirectory`). Init follows them with boot's `remap` for pid 0.
- `remap` is `RemapDir`, a present user 4 MiB entry at index 32. `remap_vid` is `RemapVidDir` plus `RemapVidTable`: a present user 4 KiB entry at index 33, and entry 0 of the shared table pointed at the target page. `PitTick` applies both, in the order of `schedule`.
- `page_window` (the pid whose slot entry 32 maps) and `vid_map` (the page the 132 MiB alias maps, 0 while not present) are translations of these entries.
- Screen contents, keyboard buffers and register values are left out.

**Actions.** Each action is one `cli`…`sti` critical section of the code. The exceptions are halt and `launch_term`: they re-enable interrupts midway through their keyboard-buffer clears, and `HaltWindow` and `TerminalInput` split them at those points.

| Action | Code |
|---|---|
| `Execute` | `execute_func`. The file checks succeed (a failure changes no state), then `Load`. |
| `Halt(s)`, s ≠ 1 | `halt_func` normal path (victim `cur_pid`, `halt_term = pcb->term_id`), then `Terminate` |
| `UserHaltOne` | A program's `halt(1)`, which `halt_func` handles as Ctrl+C |
| `CtrlC` = `ForcedHalt` | The Ctrl+C path: victim `term[curr_term].running_pid`; saves esp0 and sets `running_term` if they differ |
| `LaunchTerm(t)` | `launch_term`: a new root shell through `Load`, the ignored `-2`, or a switch with `vidmap`/`remap_vid` |
| `Vidmap` | `vidmap_func` |
| `PitTick` | `pit_interrupt_handler` + `get_next_process` + `schedule` |
| `RtcOpen` | `rtc_open`: the resident terminal's `rtc_freq` becomes `MIN_RTC_FREQ` |
| `RtcWrite(f)` | `rtc_write`: a rate within `MIN_RTC_FREQ..MAX_RTC_FREQ` becomes the resident terminal's; others return -1 |
| `RtcRead` | `rtc_read` up to its loop: `count = MAX_RTC_FREQ / rtc_freq / num_running` (`NumRunning`), kept in `rtc_count[cur_pid]`; a count of 0 returns at once |
| `RtcWait` | One round of `rtc_read`'s loop: the resident terminal's flag is set, so it is cleared and the count drops; the last round returns |
| `RtcInterrupt` | `rtc_interrupt_handler`: sets the flag of every terminal |
| `Exception(v)` | `exception_0`…`exception_19` for vector v: the resident program joins `squashed` and makes no more calls. `eflags_if` keeps its value through a trap gate (`TrapGate`, from `initialize_IDT`) and is cleared by an interrupt gate. |
| `Spin` | One turn of `squash()`'s `while (1)` |

`CtrlC`, `LaunchTerm`, `PitTick` and `RtcInterrupt` are interrupts, taken only while `eflags_if = 1`. Every code path ends with `sti()`, so this flag is 0 only after a non-returning handler was entered through an interrupt gate. No vector `Exception` takes has one, so in every run the flag stays 1. The variable records what the gates do, and no property rests on it. `Exception` and `Spin` are not in `Kernel`'s `Next`: the `Kernel` runs ask about programs that keep making calls. `Descriptors` composes them in (below).

`rtc_count[p]` is the state of `rtc_read`'s locals for a process blocked in it (`NoRead` otherwise). A blocked process makes no other call until the read returns (`MayCall`), and a halt or Ctrl+C that kills it discards the wait (`AbandonFrames`). It also discards the `squash()` loop of a faulted victim. The read reaches `rtc_read` through `read_func`'s descriptor dispatch, which `Descriptors` models; here it is called directly.

`Terminate` is the shared tail of halt. It respawns a root shell through `Load` with the code's `curr_term`, or sets the parent as the terminal's running process, remaps it, and sets `tss.esp0 = pcb[victim].esp`.

**Environment.** User programs are arbitrary, so any resident process may make any call in the constant `Calls`. `Kernel.cfg` allows all of them, RTC calls included. The other runs leave the RTC out (`MCCallsNoRtc`), because their questions do not involve it. They check with `VIEW NoRtcView`, which drops the interrupt flags: those change only through `RtcInterrupt` and, with no reader, nothing reads them. The constant `BackgroundCalls` says which calls a process may make while its terminal is not in the foreground.
- The normal environment is `{"halt"}`, and `{"halt", "rtc"}` in `kernel_safety`, where background programs such as pingpong and fish also pace themselves on the RTC. Background programs such as counter finish on their own. Only the shell calls execute, and it acts on a line typed at the foreground terminal. A root shell exits only on a typed `exit`.
- The violation runs widen this set to show what the code does when the assumption fails.

**Bounds.**
- `NUM_TERM = 3`, as in the code; `pit.c` indexes terminals 1 and 2 directly.
- `MAX_PROCESSES = 4` in the violation runs. That is three root shells and one child, enough for the pids to run out while a terminal is being launched (the `kernel_launch_exhausted` trace does exactly that). With 5 pids the state space, mostly leftover PCB contents of freed pids, passes 17 million states without finishing.
- `MAX_PROCESSES = 3` in `kernel_safety`, which also checks liveness. Three root shells exhaust the pids, and a child can run while a terminal is unlaunched. The 4-pid graph (over 1.1 million states) takes longer than 5 minutes once liveness is checked too.
- `MAX_RTC_FREQ = 2` stands for 1024 and equals `MIN_RTC_FREQ`, so every terminal's rate is 2 and `rtc_write` is given 2. `rtc_read`'s count, 2 divided among 1 to 3 running terminals, is `MAX_RTC_FREQ / rtc_freq / num_running` = 2 / 2 / n, so 1 with one running terminal and 0 with two or three. Reads that wait once and reads that do not wait at all both occur. With rates 2 and 4 the state space grows from 35 thousand to 773 thousand states (the rates' product over three terminals), and the liveness check no longer finishes in 5 minutes. The rate itself enters no property.
- `UserStatuses = {0, 1}`, where 0 stands for any status other than 1.

**Fairness.** `FairSpec` adds three conditions:
- `WF_vars(PitTick)` and `WF_vars(RtcInterrupt)`. The PIT and the RTC interrupt at fixed rates, and their handlers run whenever interrupts are enabled.
- `SF_vars(running_term = t /\ RtcWait)` for each terminal `t`. A reader on `t` tests its own flag in a tight loop whenever `t` is resident, far more often than the PIT switches terminals. So a wait that is enabled again and again is eventually taken.

The fairness is per terminal: a single `SF_vars(RtcWait)` would be met by one terminal's reader alone, starving another's. Nothing else is fair. Keys and system calls come from the user and may stop.

| Run | cfg | Expect | What it shows |
|---|---|---|---|
| kernel_safety | `Kernel.cfg` | pass | `ProcessTrees`: each terminal's live processes are exactly the parent chain from a root to `running_pid`, with no leaked pid. `ResidentConsistent`: `cur_pid` is the resident terminal's running process, belongs to that terminal, and its slot is mapped. `UserMemoryIsolated`: the memory user mode reaches, computed from the entries' present, user and size bits, is the resident process's own 4 MiB slot plus at most one video page. It is never the kernel, another slot, or a second saved screen. This holds over every sequence of `remap_vid` calls to different targets. `RoundRobin` (under `FairSpec`): once only ticks occur, every terminal with a process becomes resident. `ImplementsTerminalTrees`: the kernel refines the abstract `TerminalTrees` (below). `RtcReadReturns`: once Ctrl+C and Alt+Fn stop, every process blocked in `rtc_read` returns, in a background terminal too (35k states, about 90 s). |

Why `RtcReadReturns` needs quiet keys: each Ctrl+C and Alt+Fn makes the foreground terminal resident. TLC shows that keys pressed forever, one per tick, keep a background reader's terminal from ever running. A human cannot type faster than the 100 Hz PIT, so the premise `KeyboardQuiet` is the realistic case. The mutant that sets only the resident terminal's flag starves a background reader even with quiet keys.
| kernel_stack_owned | `KernelStack.cfg` | violation | `KernelStackOwned`. Execute, Halt, Alt+F2, then a tick: terminal 0 gets the dead child's stack, which the new shell of terminal 1 now owns. |
| kernel_video_alias | `KernelVideo.cfg` | violation | `VideoAliasMatchesResident`. Ctrl+C while a background terminal is resident leaves the alias on that terminal's backup page. |
| kernel_launch_exhausted | `KernelLaunchFail.cfg` | violation | `ForegroundHasProcess`. Alt+Fn with no free pid leaves the foreground terminal with no process. |
| kernel_background_calls | `KernelBgCalls.cfg` | violation | `CallsActOnCallersTerminal`, with background programs that execute and `halt(1)`. A background execute attaches the child to the foreground terminal. The root-shell respawn goes through the same `execute`. The same property also fails for a background `halt(1)`, which kills the foreground process; TLC reports the shorter execute trace. |

The `findings` section of `PROJECT.json` explains each violation with the code lines involved.

Why `KernelStackOwned` is not in the passing run: the stale `term[].esp0` comes from an everyday sequence (run a program, let it exit, press Alt+F2). Every stack-related property inherits that bug.

### `TerminalTrees.tla` (abstract specification)

This module states what the kernel promises about programs and terminals, with no pid bitmap, stacks, page tables or TSS. Each terminal holds a stack of programs named by pid. The root shell is at the bottom, and every program below the top is blocked in the `execute` that started the one above it. `fg` is the foreground terminal and `resident` the one whose top program has the CPU.

**Actions.**
- `Run`: push a fresh pid on the resident terminal's stack.
- `Exit`: pop the top of the resident or foreground terminal, which becomes resident.
- `Restart`: replace a lone root shell with a new one.
- `Launch`: give an empty terminal a root shell and bring it to the foreground.
- `LaunchEmpty`: bring an empty terminal to the foreground when every pid is taken. This step records what the code does; the spec's promise that every terminal keeps a shell is broken by it (`kernel_launch_exhausted`).
- `Switch`: bring a terminal with programs to the foreground.
- `Schedule`: make any terminal with programs resident.

**Refinement.** `Kernel` instantiates the module as `Trees` with this mapping:
- `stacks[t]` is `ChainSeq(running_pid[t])`, the parent chain of the terminal's running pid, root first;
- `fg` is `curr_term`;
- `resident` is `running_term`.

`kernel_safety` checks `Trees!Spec` as the property `ImplementsTerminalTrees`. Each kernel step must be one abstract step or leave the mapped state unchanged.
- `Vidmap` is a stutter.
- A tick is a `Schedule`.
- A halt is an `Exit` or a `Restart` on the halting terminal, never a change to another terminal's stack.

The foreground-driven environment is what makes this hold: a background `execute` or `halt(1)` breaks it, as `kernel_background_calls` shows. The mutant in which Ctrl+C takes the resident terminal's process as its victim breaks the refinement in a few steps.

### `Descriptors.tla` / `MCDescriptors.tla`

`Descriptors` EXTENDS `Kernel` and adds one variable. `fd_flags[p]` is the set of descriptors whose `flags` field is 1 in pcb p. Each Kernel action is conjoined with what it does to the tables:
- `DExecute` and `DLaunchTerm` apply `init_pcb`, which marks 0 and 1 and leaves entries 2..7 as the pid's last owner left them.
- `DHalt`, `DCtrlC` and `DUserHaltOne` run `halt_func`'s close loop (`CloseLoop`), then `init_pcb` of a respawned shell.

`close(i)` in that loop reaches `close_func`, which looks `i` up in the pcb of `cur_pid`, not in the victim's. The model translates exactly that.

`DException(v)` and `DSpin` are `Kernel`'s `Exception` and `Spin`: a faulted program keeps its descriptors until a Ctrl+C halts it. `Open` and `Close` are refused to a program that spins.

`Open` is `open_func`: first fit from fd 2. `Close(fd)` is `close_func`: it refuses fd < 2 and descriptors not in use. The operation tables and `file_position` are left out here, since they change no flag.

Bounds: 3 pids and `MAX_FILES = 4` (two file descriptors). That is enough for a halted process to hold a file while another terminal is resident, and for a close to leave a hole below an open descriptor. Faults come from the foreground program only, since background programs only halt here. `MCExceptionVectors = {14}`: the page fault stands for every vector, because all have a trap gate and the same handler behaviour. `MAX_SQUASHED = 1`: one program spins at a time. A second one on another terminal meets the same two interrupts, and allowing it doubles the state space. The run uses `VIEW DescView` (MCDescriptors). The view leaves out the paging entries and the RTC state, because no D-action's guard or other update reads them. With it, the run reaches 1.19M distinct states in about 1.5 min.

| Run | cfg | Expect | What it shows |
|---|---|---|---|
| descriptors_lifecycle | `Descriptors.cfg` | pass | `DescTypeOK`: open's first-fit scan never allocates past the table, across halts, Ctrl+C, launches and a faulted program spinning until it is halted. Two further invariants were dropped because they held by the shape of the code. One said that descriptors 0 and 1 stay open; that is `close_func`'s `fd < 2` test. The other said that Ctrl+C and the timer stay enabled while a program spins. Every vector has a trap gate, so the interrupt flag never changes. |
| descriptors_halt_close | `DescriptorsHalt.cfg` | violation | `HaltClosesVictimFiles`. A Ctrl+C while another terminal is resident closes the resident process's descriptors, not the victim's. The next process on the victim's pid inherits descriptors it never opened. |

### `FileSystem.tla` / `MCFileSystem.tla`

This module covers `read_data` and `file_read` for one open regular file, and `dir_read` for one directory reader (the `ls` program, which reads until a call returns 0).

**State.** Init chooses the image:
- the file's `length`;
- its inode entries `data_block[0..MAX_LEN/BLOCK]`, where the entries in use name existing blocks and the ones past the file hold any value of `PadEntries`;
- the contents of the data blocks.

The image never changes after that. Init also chooses the boot block's entries `dentries` (`num_dir_entries` is their count). Each entry is a `file_name` of `NAME_LEN` bytes, NUL-padded unless the name fills it, and a `file_type`; the names are distinct. `dir_read` returns entries by index. The reader's state is `file_position` (set to 0 by `open_func`) and the bytes it has consumed. The directory reader's state is the global `dir_number` (0 after `init_file_system`), and the names of the listing in progress.

**Operators.**
- `Copy` is one iteration of `read_data`'s loop.
- `Walk` (RECURSIVE) is the loop, with the code's `i`, `data_block_index` and `data_line_index`. The line index is not reset at a block change, exactly as in the code.
- `FileRead(n)` is `file_read`: read from `file_position`, then add the return value to it as a `uint32_t`.
- `DentryByIndex` is `read_dentry_by_index`: -1 past the entries.
- `DirRead` is `dir_read`: the entry at `dir_number` and `dir_number++`, or, past the end, `dir_number = 0` and a return of 0, which completes `ls`'s listing.
- `ReadDentryByName` is `read_dentry_by_name`: -1 for a name of length 0 or above `MAX_NAME_LENGTH`. Otherwise it returns the first entry whose `strlen` equals the name's length (length + 1 for a full-length name) and whose first bytes `strncmp` equal to the name. `EntryStrlen` is that `strlen`. For a name that fills the array it counts on into the four bytes of `file_type` (`TypeBytes`), as the code's `strlen` does.

**Reference.** `FileBytes` is the flattened contents of the file's blocks, cut at `length`.

**Bounds.**
- `BLOCK = 2` stands for `FOUR_KB`. The walk only divides offsets by it and compares line indices modulo it.
- Files are 0–4 bytes (up to two blocks), over two data blocks with bytes {0, 1}.
- Reads are 0–3 bytes, so a read can be shorter than a block, exactly a block, or cross a boundary.
- The word size is 2^16 rather than 2^32, because TLC's integers are 32-bit. Any width above `MAX_LEN + MAX_READ` gives the same reads.
- Boot blocks have one or two entries. That gives a first and a last entry, which is all `dir_read`'s reset depends on.
- `MAX_NAME_LENGTH` is cut to 2 and names are made of one character, so the names are "1" and "11". One is a prefix of the other and the longer one fills the array.
- Entry types are rtc (0) and regular file (2). A full-length name's `strlen` depends only on whether `file_type`'s low byte is 0, so directory (1) behaves as 2.
- Lookups are of every name of up to 3 characters, one past the array.

| Run | cfg | Expect | What it shows |
|---|---|---|---|
| file_system_reference | `FileSystem.cfg` | pass | `ReadDataCorrect`: for any image and any read from any reachable position, the bytes copied are the file's bytes from the offset. When the call does not fail, it returns their count. `TypeOK` includes `dir_number` staying within the boot block's entries, which rests on `read_dentry_by_index`'s `index >= num_dir_entries` test. `LookupSound`: in every boot block, a name `read_dentry_by_name` resolves (for `open` and `execute`) is exactly that entry's name. It is neither a prefix of a longer name nor a full-length name whose `strlen` ran into `file_type`. |
| file_read_block_end | `FileSystemBoundary.cfg` | violation | `OffsetContinuity`. The walk checks the next inode entry as soon as a byte ends a block, before it checks whether the file has more bytes. Suppose a file ends on a block boundary and the entry after it names no block. A read up to the end then returns -1 and `file_position` wraps to 2^32-1. A read ending on an inner boundary steps the position back one byte instead. |

With zero-filled unused entries (`PadEntries = {0}`), `OffsetContinuity` holds in this model. So the failure depends only on what the image builder writes past a file's last block.

The converse of `LookupSound` does not hold: a full-length rtc entry (type 0) is never found. Its `strlen` stops at the type's first byte and gives 32, not the 33 the code expects. This is recorded as a hazard; a violation run for it would need a thirteenth run.

`dir_number` is one global for every directory reader. Two `ls` runs in different terminals, interleaved by timer ticks between their calls, would split one listing between them, and a reader that stops before the 0 return leaves the next `ls` starting mid-directory. The model has one reader that always reads to the end, the case in which the listing is right.


### `HaltWindow.tla` / `MCHaltWindow.tla`

`Kernel` takes `halt_func` as one step. The code is not that atomic: the keyboard clear at lines 201-208 ends with `sti()`, so everything after it can be interrupted by a tick or a key. `HaltWindow` extends `Kernel` and takes halt apart at those points.

**State added.**
- An *execution* is named by the terminal it was started for.
- `cpu` is the execution on the CPU.
- `saved[s]` is the execution whose `curr_esp/curr_ebp` pcb slot `s` holds. `Stray` is pcb 255, which `schedule` and `launch_term` write through `running_pid == -1`.
- `halting[e]` is where execution `e` is inside `halt_func`, with the locals the function keeps: victim, parent, `halt_term`, and the victim's `pcb->esp` when the halt began (`frame`).

**Actions.**

| Action | Code |
|---|---|
| `HaltBegin(s)` / `WUserHaltOne` / `WCtrlC` | `halt_func` from `cli` to the keyboard clear: the victim and `halt_term` are chosen. On the status-1 path, the interrupted execution is saved if another terminal is resident. |
| `HaltFree` | `pid_array[victim] = 0` and the close loop (lines 212-218) |
| `HaltUnlink`, `HaltRespawn` | Root shell: `running_pid = -1` (line 220), then `execute("shell")` as one `cli` section |
| `HaltLink`, `HaltRemap`, `HaltTss`, `HaltCur` | Lines 225, 228, 229, 230. `HaltTss` reads `cur_pcb->esp` when it runs. |
| `HaltJump` | `sti`, then the jump through `cur_pcb->esp/ebp` (lines 232-243) |
| `WLaunchTerm(t)` | `LaunchTerm`. A new shell first saves the interrupted execution in the resident pcb (terminal.c:166-173) and starts a new execution of `t`. |
| `WPitTick` | `PitTick`, plus saving `cpu` into the resident pcb and resuming the one saved in the next terminal's pcb |

Execute and vidmap come from user code, so they need `cpu` not to be inside a halt. Keys are allowed anywhere.

**Bounds and environment.** These are those of `MCKernel` with 3 pids, enough for a child, its freed pid and a shell launched into it.

| Run | cfg | Expect | What it shows |
|---|---|---|---|
| kernel_halt_window | `HaltWindow.cfg` | violation | `HaltReturnsToSavedFrame`. After `HaltRemap`, Alt+F2 gives the freed pid to terminal 1's new shell, and execute overwrites that pcb's `esp`. Back on terminal 0, `HaltTss` and `HaltJump` use the new process's frame. |
| kernel_halt_executions | `HaltWindowExec.cfg` | violation | `ExecutionsStayWithTerminals`. A root shell's `exit` frees pid 0 while `term[0].running_pid` still names it. Alt+F2 gives pid 0 to terminal 1's shell, and Alt+F3 saves terminal 1's execution into pcb 0, over terminal 0's. Terminal 0 would then resume terminal 1's execution. |

### `TerminalInput.tla` / `MCTerminalInput.tla`

This module covers keyboard input for three terminals, each running a shell blocked in `terminal_read`.

**State.**
- `keyboard_buffer`, the foreground terminal's live buffer (`length_key` is its length).
- Per terminal: `term_key_buf` (with `len_key_buf`), `has_enter`, and the stage of its shell's `terminal_read`.
- A switch nested on a terminal's execution.
- `ctrl_pressed`, the keyboard driver's Ctrl flag.
- A key is recorded as the terminal it was typed at, plus its kind (a character, a Tab or Enter's newline).
- `typed[t]` and `delivered[t]` are the history variables the property compares. `typed[t]` is the line as edited: Backspace and Ctrl+L take keys off it, but never ones `t`'s shell has already copied (`Committed`).

Process management is `Kernel`'s. Here the tick moves `running_term` round the three terminals. The initial state has every terminal launched with empty buffers, as after Alt+F2, Alt+F3 and Alt+F1 at boot.

**Actions.** Each action runs between two points where the code has interrupts enabled:
- **Keys.** `KeyChar`, `KeyTab` and `KeyEnter` are `process_char`'s default, TAB and ENTER cases under `cli`. Each full-buffer check is an equality test: a character is refused only at `length_key == SIZE-1`, and Tab and Enter only at `SIZE`. A Tab or Enter may take the last slot. After that, Enter is refused, but a character is written past the end of the array, and so is every later one. The model keeps the line as a sequence that grows past `SIZE`. A switch's `memcpy` saves only `SIZE` keys of it.
- **Editing.** `KeyBackspace` is `handle_backspace`: it drops the buffer's last key, whatever it is, and leaves `has_enter` as it is. `KeyCtrl(b)` is CTRL_DOWN and the CTRL_UP release code. `KeyCtrlL` is `l` with Ctrl held: `clear_keyboard_buffer`, again leaving `has_enter` set.
- **Alt+Fn.** `KeyAltF` is the key: the handler calls `sti()` before `launch_term`.
- **The switch.** `SwitchBegin`, `SwitchCopy`, `SwitchLen`, `SwitchClear`, `SwitchRestore` and `SwitchDone` are `launch_term`'s switch path. `save_term_info`'s `old_term` is the `curr_term` captured at `SwitchBegin`, since another execution's switch may change `curr_term` before the copy. The path is split at every point where interrupts are enabled. `clear_keyboard_backup`'s `sti()` comes before the backup `memcpy` (`SwitchCopy`) and the `len_key_buf` write (`SwitchLen`), so a key typed between those two is counted in the length but missing from the copy. `restore_term_info` then brings it back as a NUL (`Pad`).
- **The read.** `ReadWake`, `ReadCopy` and `ReadClear` are `read_buffer`, the copy loop, and the clear plus the return of `terminal_read`.

Ctrl+C is `Kernel`'s `CtrlC`. Shift, Caps and Alt only choose which character is stored or gate Alt+Fn, and are left out.

**Bounds.**
- `KEYBOARD_BUFFER_SIZE = 3`, so all three full-buffer checks can fire.
- The shell reads `nbytes = 3`.
- At most 4 keys, so a character can follow an Enter or a Tab in the last slot and land past the array. At most 3 delivered bytes before a shell stops reading.

| Run | cfg | Expect | What it shows |
|---|---|---|---|
| terminal_input_own | `TerminalInput.cfg` | violation | `ShellReadsOwnInput` (each shell reads, in order, exactly what was typed at its terminal). A character typed between `terminal_read`'s copy and its `clear_keyboard_buffer()` is erased and never read. The same property covers the cross-terminal races: a background shell woken by its `has_enter` reads the foreground buffer, and a key typed mid-switch lands in the wrong buffer. Those need longer traces. With the editing keys in the model, the shortest trace is still the lost character. |

Backspace and Ctrl+L leave `has_enter` set after the newline they erase. The shell then wakes to a line with no newline, or to an empty one. This is recorded as a hazard. A readiness property would need a run of its own.

## 4. Not modelled

- **Hardware setup.** The caching and `rw` bits of the page entries, `enable_paging`, `flush_TLB`, the IDT/PIC, `pit_init`, `rtc_init` and `rtc_set_freq` only program hardware. `rtc_close` returns 0 and changes nothing.
- **Screen and text.** Screen contents, cursor, scrolling and scancode translation are only layout.
- **Faults of kernel code.** Only user programs fault in the models (`Exception` requires `MayCall`). A fault raised between `cli()` and `sti()` would spin with interrupts off. It is recorded as a hazard (idt_init.c:27).
- **The message of an exception handler** and `print_err_addr` are text.
- **`tests.c`.**
- **The kernel's NULL page.** `remap_vid` writes entry 0 of `page_table_array[0]` (paging.c:72-75). Directory entry 0 also uses that table for the kernel's first 4 MiB. After the first vidmap or tick, kernel virtual page 0 is therefore present and maps a video page: a NULL dereference in the kernel writes into a screen instead of faulting. `Kernel`'s `page_table[0]` shows this in every state after a `remap_vid`. It is recorded as a hazard. A property would need a violation run of its own.
- **Planned but not yet done.** The `execute` parse (plan item 5). The `execute` parse and the RTC's count-0 and stale-flag hazards would each need a violation run of their own. The project keeps one run per question, 12 in all, and all 12 are taken.
- **The keyboard handler with scancode 0.** It tests an uninitialised `i` (keyboard.c:121). This is recorded as a hazard, because the outcome depends on stack contents the model cannot fix.
