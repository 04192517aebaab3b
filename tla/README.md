# TLA+ models of retis: the metadata filter compiler and its collaborators

This directory holds TLA+ models of the parts of the repository that have
behaviour a model checker can explore. Each module is written from the Rust
source it names in `PROJECT.json` ("map"). TLC checks the modules under the
configurations listed in "runs".

## 1. The system

The repository (`src/`) holds six files.

| Part | Source | What it does |
|------|--------|--------------|
| Filter compiler (FC) | `retis/src/core/filters/meta/filter.rs` | `FilterMeta::from_string` lowers a filter such as `sk_buff.dev.name == 'dummy0'` to a vector of `MetaOp`s. It parses the string, walks the kernel's BTF type graph, and emits pointer Loads, a terminal Load and a Target at index 0. |
| Meta-op layout (MPL) | same file, lines 64-166 | `MetaLoad`/`MetaTarget`/`MetaOp` are `repr(C)` records shared with the in-kernel interpreter. `is_*` decode `kind_bits`. |
| Meta map | same file, `init_meta_map` | A 32-entry BPF array map the program is published through. |
| Type database (TD) | btf-rs crate (not in `src/`) | Resolves type names, iterates chained types and lists record members. |
| Process inspection | `src/core/user/proc.rs` | `Process::from_cmd`/`from_pid` scan `/proc`. They build a `Process` from the lines of `/proc/<pid>/maps` and the `.note.stapsdt` notes of each mapped file, and `get_note_from_symbol`/`get_note` find the USDT note at a runtime address or of a target. |
| `print` loop | `retis/src/process/cli/print.rs` | Reads persisted events until EOF or a termination signal. |
| Raw event builders | `retis/src/benchmark/helpers.rs` | Frame benchmark sections as `{owner, data_type, size: u16}` plus the payload, and pad the event to `BPF_RAW_EVENT_DATA_SIZE`. |
| Build script | `build.rs` | Compiles the eBPF objects at build time. It has no run-time state and is not modelled. |
| OVS bindings | `retis/src/bindings/ovs_operation_uapi.rs` | Generated structs with no behaviour. Not modelled. |

How the parts interact: a filter string goes into FC. FC queries TD and emits
MetaOps in the MPL layout. The caller (outside `src/`) writes them into the
meta map. The remaining parts do not interact with FC. Process inspection
feeds USDT probe attachment. The print loop consumes stored events. The
benchmark helpers produce raw events for the event parsers.

### 1.1 Inventory: state, operations, hard behaviour

**FC.** The state of `from_string` is:
- the parsed `fields`, `op` and `rval`;
- the current type `r#type`;
- the running bit offset `offt`;
- `stored_offset` and `stored_bf_size` of the last member;
- the terminal `mask`;
- the vector `ops`.

Its operations are the phases of the function: parse, one loop iteration per
LHS node, the terminal `emit_load`, and `Rval::from_str` followed by
`emit_target`.

Several details are hard to get right, and the unit tests barely reach them:
- anonymous records and the offset carried through them;
- the offset reset after a pointer;
- casts and typedef chains;
- the narrowing of offsets and counts to `u16`/`u8`;
- `stored_bf_size` surviving from one node to the next;
- the 32-op bound;
- a panic on a lone quote.

**Process inspection.** The state is the `/proc` directory, which other
processes change while it is being read. `from_cmd` iterates it and checks
`exists()` before `read_to_string`. Processes can appear and exit between
those steps. Process::new then decodes text and bytes written by others:
the maps lines (split at white space) and each file's note descriptors
(three addresses and three nul-terminated strings). A decoding error in one
note drops the whole file's notes.

**print.** The loop holds a `Running` flag that a signal handler sets
concurrently. The event source returns `Event`, `Eof` or `Timeout`.

**Raw events.** The builders append sections to a byte vector with `u16`
sizes. `build_raw_event` then pads the vector to a fixed capacity.

## 2. Modules

### 2.1 `BtfTypes`: the type database

The kernel's BTF is read-only for the whole process, so it is a CONSTANT:
- `Types` is a sequence of type records `[kind, name, size, signed, len, ref, members]`, and the type id is the index;
- `TypeIter` is `type_iter`;
- `ResolveTypesByName` returns the candidates in id order;
- `FirstOfKind` is the `types.iter().find(..)` the compiler applies to them.

These accessors belong to btf-rs, not to `src/`. They are modelled from spec
§4.3 and marked `spec_modelled` in the map.

### 2.2 `FilterMeta`: the compiler as written

`from_string` is one sequential call. The module keeps its control as a phase
`pc`: `parse` → `walk` (one step per LHS node) → `target` → `done`. It can
also end in `failed` (every `bail!` and `?`) or `panicked`. Each action is a
whole phase of the function body.

| Action | Code |
|--------|------|
| `Parse` | `parse_filter` (the split into words, every node with `parse_mask`, `MetaCmp::from_str`) and the resolution of `sk_buff` to its Struct candidate, lines 574-587 |
| `WalkField` | one iteration of the `for (pos, field)` loop, lines 589-663: `walk_btf_node`, `next_walkable`, the indirection match, `emit_load_ptr`, the offset reset or carry, the cast resolution and its `next_walkable(.., false)`, the leaf case, and the `stored_offset`/`stored_bf_size` updates |
| `LoadLeaf` | `emit_load` and the push, lines 665-666 |
| `Target` | `Rval::from_str`, `emit_target` and `ops.insert(0, ..)`, lines 668-669 |

Data abstraction:
- A filter string is given by its split: the word count, the LHS nodes as records `[member, mask, cast, extra]`, the operator, and the RHS as a sequence of characters. The RHS keeps its characters because `Rval::from_str` and the number parsers branch on them.
- A mask text is given by what the radix parse yields: `[neg, ok, val]`.
- u64 values are held as the integer with the same 64 bits read as i64, so `!m` is `-m-1`.
- The RHS number parses (`Parses`) accept what `str::parse` and `from_str_radix` accept: an optional `+` on the unsigned parses, digits of either case, and no value past `u64::MAX` (or below `i64::MIN`). The overflow test compares digit strings (`DigitsLeq`), so no 64-bit value is formed. A hex literal above `i64::MAX` would be stored as its two's-complement view; no input has one.
- `MetaOp` is a tagged record `[tag |-> "load", l |-> MetaLoad]` or `[tag |-> "target", t |-> MetaTarget]`. The fields keep their names, and `TypeOK` checks their `repr(C)` widths.

### 2.3 `FilterMetaSpec`: what the compiler promises

`CompileRef(f)` is the compilation algorithm of spec §4.1 and the grammar of
§6, written as one recursive function over the same type table. It covers:
- field lookup through anonymous records (`Field`);
- the next-walkable rule with a cast counting a pointer-sized integer (`Walkable`, `CastWalkable`);
- the terminal shape (`Shape`);
- the Target rules (`Terminal`);
- the 32-op bound.

`Spec` is one atomic step from `Pending` to `CompileRef(filter)`. It is the
abstract specification of FC.

### 2.4 `MCFilterMeta`: the instance and the refinement

`MCTypes` is a kernel-like BTF fixture. It keeps every layout the unit tests
and the spec's scenarios assert:
- `dev` at byte 16;
- `mark` a `u32` at byte 168;
- `pkt_type` a 3-bit field at bit 1024;
- `_nfct` an `unsigned long` at bit 832;
- `net_device.name` a `char[16]`;
- `nf_conn.mark` at byte 168.

It adds one type of every shape the compiler branches on:
- anonymous unions and structs (nested two deep);
- a named embedded struct (`possible_net_t`);
- typedef chains (`u32 → __u32 → unsigned int`, `u64 → __u64 → unsigned long long`);
- `const`, an enum, a 16-bit integer;
- a double pointer and a function pointer;
- a struct larger than 8 KiB (`net`);
- a `char[256]`;
- a 48-bit `unsigned long` bitfield.

`Outcome` maps the code's state to the abstract `result`:
- `done` ↦ `ok` with `ops`;
- `failed` ↦ `rejected`;
- `panicked` ↦ `panicked`, which the specification never produces.

`Ref == INSTANCE FilterMetaSpec WITH result <- Outcome, Filters <- AllFilters`.
`CompilesAsSpecified == Ref!Spec` is the refinement property. For each input
it says three things:
1. the code rejects exactly the filters the spec rejects;
2. it never panics;
3. an accepted filter compiles to exactly the spec's program: each op's kind bits, element count, offset, bitfield width and mask, the Target's bytes, size and operator, and the op order.

The abstract `Filters` is substituted by the union of every input family,
which is one precomputed constant.

`MCFilterMeta` also carries the unit tests of `filter.rs` (lines 695-905),
one definition per test, named after it: `NegativeGeneric`,
`NegativeFilterString`, `FilterString`/`FilterStringAsserts`,
`NegativeFilterU32`, `FilterU32`/`FilterU32Asserts`,
`FilterBitfields`/`FilterBitfieldsAsserts`, the `LhsOnly*`, `Masks*` and
`Cast*` cases. `MustFail` gathers the inputs the tests expect to be
rejected, and `TestFilters` every test input; the run compiles
`CompileFilters`, the union of both families with the fixture's own.
`RepositoryTestsHold` states every `assert!` of those tests on the model's
final state: the rejected inputs end in `failed`, and each accepted one has
the op kinds, sizes, offsets, bitfield widths, masks and target bytes the
test asserts. It is independent of the reference: a mutant of the code that
the reference happens to share would still break it.

Two things the tests do not check, found while translating them:
- the third case of `meta_negative_filter_string` lacks `format!`, so its operator is the literal text `{op_str}` and it fails on the operator parse, not on the string comparison it means to reach;
- the first four cases of `meta_filter_cast` cast the leaf member, so they fail on the leaf-cast check rather than the size and array checks their comments name. The `compile` run's cast families do reach those checks.

### 2.5 `ProcScan` and `MCProcScan`: process lookup against a changing /proc

`ProcScan` models `Process::from_cmd` and the calls after it:
`from_pid`, the start of `Process::new` and `get_process_maps`. Other
processes change `/proc` while these read it.

State:
- `live` and `born`: the processes, each an incarnation `[pid, comm]`;
- `pc`: the statement being executed;
- the variables of `from_cmd`: the `read_dir` batch `entries`, the iterator position `idx`, `entry` and `pid`;
- the processes whose exe link (`exeOf`) and maps (`mapsOf`) were read;
- history variables: `matched` (the process whose comm matched when `pid` was set), `startLive` and `seen`.

| Action | Code |
|--------|------|
| `ReadDir` | `Path::new("/proc/").read_dir()`, lines 320-321. It produces one batch: `self` and `thread-self`, then the pids in increasing order. |
| `NextEntry` | the loop head, lines 321-322 |
| `IsDir` | `is_dir()`, then `join("comm").exists()`. A directory that is gone goes to `continue`. |
| `ReadComm` | `read_to_string(..)?`, the comparison, the `TooMany` check and the name parse, lines 325-346 |
| `AfterScan` | `NotFound` or `from_pid(pid)`, lines 348-352 |
| `FromPid` | `proc_dir.exists()`, then `read_link` of `exe`, lines 266-282 |
| `OpenMaps` | `maps_file.exists()`, then `File::open`, lines 457-465 |
| `ReadMaps` | the read and `maps.get(0)` in `Process::new`, lines 284-297. The maps file of a process that has exited reads as empty. |

The environment actions `Exit` and `Spawn` can happen between any two
scanner steps. The caller never exits. A pid is taken again only when the
constant `PidReuse` holds.

`MCProcScan` uses three pids:
- pids 1 and 2 may each run `ovs` or `retis`;
- pid 3 is the caller, and its command is `retis`.

A lookup asks for `ovs` or `retis`. It therefore meets no match, one match, the caller itself (through `self`, `thread-self` and pid 3), and two matches. Every initial set of live processes is enumerated.

### 2.6 `PrintLoop`: the print subcommand's loop

`PrintLoop` models `Print::run`. The file holds `FileLen` records,
identified by their positions, and `badAt` is the first unreadable one.
Three collaborators are outside `src/`:
- the signal handler of `Running`;
- `FileEventsFactory::next_event`;
- the output's write.

They follow spec §6, and `Signal` is marked `spec_modelled`.

| Action | Code |
|--------|------|
| `Setup` | `register_term_signals()?` and `FileEventsFactory::new(..)?`, lines 37-52. Either may fail, and `run` then returns the error before the loop. No signal is handled before the handler is registered. |
| `WhileRunning` | `while run.running()`, line 55 |
| `GotEvent`, `GotError`, `GotEof`, `GotTimeout` | the outcomes of `next_event(..)?` and the match arms, lines 56-59 |
| `Process` | `output.process_one(&event)?`, line 57. The write succeeds or fails. |
| `Signal` | the SIGINT/SIGTERM handler, which clears the flag at any moment before `run` returns |

The history variable `sigAt` records how many events had been printed when
the signal arrived.

### 2.7 `UsdtElf`, `UsdtLookup` and `MCUsdtLookup`: finding a probe in a process

`UsdtElf` holds the decoders of `proc.rs` as operators, with no state:

| Definition | Code |
|------------|------|
| `ReadAddr` | `read_u64::<Endian>` (lines 155-163): `AddrBytes` bytes, little-endian |
| `ReadCStr` | `read_until(b'\0')` then `CStr::from_bytes_with_nul(..)?.to_str()?` (lines 165-180). A string cut by the end of the descriptor, or one that is not UTF-8, is an error. |
| `FromElf` | `UsdtNote::from_elf` (lines 144-188): three addresses, then provider, name and arguments |
| `NoteAccepted`, `UsdtInfoNew` | `UsdtInfo::new` (lines 55-91): unreadable file, no `.stapsdt.base` (`UsdtInfo::default`), and the note loop that bails on any note that is not a stapsdt note or does not decode |
| `MapFromString`, `GetProcessMaps` | `ProcessMap::from_string` and `get_process_maps` (lines 427-469): fewer than five words is an error; the path is the sixth word or empty |

An ELF file is given as the elf crate leaves it: whether it could be read
and its sections found, the `.stapsdt.base` address, and the notes of
`.note.stapsdt` as `[variant, n_type, name, desc]` with `desc` a byte
sequence. Strings are byte sequences. A path is a sequence of words, because
the kernel writes it with its spaces. The module also holds the other side
of both formats: `SdtDesc` writes a descriptor as the layout comment of
`from_elf` describes it, and `MapsLine` writes a maps line as the kernel
does. The instance uses them to build its inputs from what was written.

`UsdtLookup` models three parts of `proc.rs`:
- `Process::new` and `Process::all`, which build the executable and library `Binary`s from the maps;
- the two lookups made on the result, `get_note_from_symbol` and `get_note`/`is_usdt`;
- the per-binary helpers those lookups call (`UsdtInfo::get_note_from_offset`, `get_note`).

Each file's bytes are a constant, `Elf`. `Info` is what `Binary::new` keeps of `UsdtInfoNew` on them (lines 211-226): a failed decoding only warns and leaves `usdt_info` as `None`. A second constant, `Written`, says what each file was built with. The maps are the process's mappings. `New` reads them as the kernel's lines through `GetProcessMaps`.

Addresses are `AddrBits`-bit words, and all u64 arithmetic wraps modulo `2^AddrBits`. This is the release profile, which has no overflow checks.

| Definition | Code |
|------------|------|
| `New` | `Process::new` (lines 284-315): `get_process_maps` reads the lines, the first map gives the executable's address; `dedup_by`, `is_file` and the exe skip give the libraries. For `PID_ALL`, the executable is unloaded and there are no libraries; `Process::all` bails with `NotFound` when its path does not exist, so `Init` admits that case only for an existing executable. |
| `LinkAddr`, `NoteFromOffset` | `get_note_from_offset` with the prelink correction, lines 115-123 |
| `GetNoteFromSymbol` | lines 373-390: the executable, then the libraries, with `symbol - addr` |
| `NoteOfTarget`, `BinaryGetNote`, `GetNote` | `get_note` of `UsdtInfo` (the `split_once` error, then the first note), `Binary` (`Ok(None)` without USDT information) and `Process`, and `is_usdt`. A target without `::` is an error only once a binary with USDT information is searched. |
| `QuerySymbol`, `QueryTarget` | one lookup each, recording the query and its answer |

The reference is independent of the code's search and of its decoders. It works from the mappings (whole paths) and from `Written`. It defines the files mapped into the process, each loaded at the start of its first map. A file's probes are the notes it was built with. A file with a damaged note has none, because `UsdtInfo::new` treats a parse error as fatal for that file (comment at line 66). A probe is at the load address plus the note's address, corrected by how far `.stapsdt.base` moved. This is the SystemTap rule the code cites at line 119, here computed in exact integers. `ProbesAt(s)` and `Holders(t)` are what the lookups must agree with.

`MCUsdtLookup` uses a 6-bit address space and 8-byte note addresses (a 64-bit target), with these files:
- `app`, the executable, mapped at 4 in two maps; one of its notes has a semaphore and no argument string;
- `libc`, which has one note whose probe lies below its load address, so both subtractions wrap, and which shares the target `a::d` with the executable;
- `ld`, which has no `.stapsdt.base`;
- `libm`, which is not a readable ELF;
- three damaged copies of `libc`: `libc-cut` (the last note stops before its final nul), `libc-gnu` (a note the elf crate parses as a GNU build id) and `libc-utf` (a provider with a byte that is never UTF-8).

There are seven maps inputs: `libc` or one of its three copies below `ld` (with an anonymous map, whose line has five words), `libc` above `ld`, a library `lib-latin1` whose path is not UTF-8 (`NonUtf8Names`), and empty maps. `Process::new` fails on the last two: `lines()` yields an error for the non-UTF-8 line, and `maps.get(0)` finds nothing in the empty file. `Process::all` is a seventh case. The lookups cover all 64 addresses and six targets, one of them without `::`.

The `ASSUME` of `MCUsdtLookup` keeps every probe inside the address space. Each maps input lists the executable first, as the kernel maps it below the libraries. Every path in the instance is one word (see §4).

### 2.8 `RawEvent` and `MCRawEvent`: the raw event builders

`RawEvent` models the buffer byte by byte.

| Action | Code |
|--------|------|
| `BuildRawSection` | `build_raw_section`: the header `{owner, data_type, size: data.len() as u16}` as four bytes, then the data, appended to the event (lines 26-35) |
| `BuildRawEvent` | the end of `build_raw_event`: `size` as u16, the padding `BPF_RAW_EVENT_DATA_SIZE - event.len()`, `try_into` of the fixed array with its `expect`, and `as_u8_vec(&raw)`, which gives the size's two bytes and then the data (lines 63-75). An `ASSUME` keeps the capacity even, so the record has no tail padding. |

The section builders are outside `src/`. What they append is the input
`sections`, and each builder call is one `BuildRawSection`. The reference
`Parse` is the reader's side of the framing in spec §3 and §4.4: from the
start of the data up to `size`, read a header, then that many bytes.

`MCRawEvent` uses a 16-byte event and every sequence of up to three sections
of 0, 1, 3 or 4 data bytes (585 inputs). Some data bytes are zero, like the
padding. Among the inputs:
- sections that fill the event to its last byte;
- sections that leave room;
- sections that overflow by a few bytes or by many.

A u16 size wraps only at 65,536 bytes. That is more than any event holds,
and such a section ends in the padding panic first, so the small capacity
loses no case.

## 3. Runs

| Run | Config | Expect | Checks |
|-----|--------|--------|--------|
| `compile` | `MCFilterMeta.cfg` | pass | `TypeOK`, `CompilesAsSpecified`, `RepositoryTestsHold` over `CompileFilters` (14,126 states) |
| `ops_max` | `MCFilterMetaOpsMax.cfg` | violation | `CompilesAsSpecified` on `sk_buff.next…(31×).mark` |
| `lone_quote` | `MCFilterMetaLoneQuote.cfg` | violation | `CompilesAsSpecified` on `sk_buff.mark == '` |
| `far_member` | `MCFilterMetaFarMember.cfg` | violation | `CompilesAsSpecified` on `sk_buff.dev.nd_net.net.ifindex` (byte 8200) |
| `typedef_cast` | `MCFilterMetaTypedefCast.cfg` | violation | `CompilesAsSpecified` on `sk_buff.skb_mstamp_ns:~0x0:nf_conn.mark` |
| `cast_bitfield` | `MCFilterMetaCastBitfield.cfg` | violation | `CompilesAsSpecified` on `sk_buff.nf_bits:~0x0:nf_conn.mark` |
| `proc_scan` | `MCProcScan.cfg` | pass | `TypeOK`, `LiveTargetNotMissed`, `TooManyOnlyIfTwo` with no pid reuse (11,217 states) |
| `proc_pid_reuse` | `MCProcScanReuse.cfg` | violation | `FoundIsTarget` when a pid may be reused |
| `proc_scan_abort` | `MCProcScanAbort.cfg` | violation | `FindsUniqueTarget` |
| `print_loop` | `PrintLoop.cfg` | pass | `TypeOK`, `AtMostOneAfterSignal`, `CleanEofPrintsAll`, `Terminates` (286 states) |
| `usdt_lookup` | `MCUsdtLookup.cfg` | pass | `TypeOK`, `SymbolLookupAsSpecified`, `TargetLookupAsSpecified` (436 states) |
| `raw_event` | `MCRawEvent.cfg` | pass | `EventDecodes` (2,842 states) |

**UsdtLookup properties.**
- `SymbolLookupAsSpecified`: `get_note_from_symbol` returns a probe that really is at the symbol, and `None` only when no loaded file has a probe there. The wrapped subtractions therefore never make a false match and never hide the right one.
- `TargetLookupAsSpecified`: `get_note` returns a note of the target from a file of the process. When the executable declares the target, the note is the executable's. A target without `::` is an error once a file with USDT information is searched, and None in a process with none.
- Both lookup properties compare decoded notes with the notes as written. So they also show that `from_elf` decodes every field, and that a damaged copy of `libc` gives no probe at all rather than a half-decoded one. The other files stay unaffected.

**RawEvent properties.**
- `EventDecodes`: the returned bytes parse back into exactly the sections appended, followed by zeroes. The size comes from the first two bytes, and the sections are read header by header up to that size.

**PrintLoop properties.**
- `AtMostOneAfterSignal`: at most the event in flight is printed after the signal, as spec §6 requires ("clean termination after flushing the current event").
- `CleanEofPrintsAll`: an `Ok` return without a signal means every record was printed.
- `Terminates`: `run` always returns: `Eof` breaks the loop, a signal is seen at the next loop head, and every error returns. Timeouts are bounded by `MaxTimeouts`, so a reader that keeps timing out is not covered.

The order in which records arrive is the event factory's (outside `src/`, modelled from spec §6); `print.rs` only hands each event to `process_one`, so no property is stated about the order of the output.

The file has three records and there are at most two Timeouts. This covers a signal before, during and after each record, with the record in flight either printed or not. It also covers an unreadable first, middle or last record.

**ProcScan properties.**
- `FoundIsTarget` (checked by `proc_pid_reuse` only): a returned Process is the one whose comm matched, and its exe and maps were read from that same process. Without pid reuse every pid has one incarnation, so it would hold by construction; it is not a property of the pass run.
- `LiveTargetNotMissed`: `NotFound` is never answered while a matching process lives through the whole call.
- `TooManyOnlyIfTwo`: `TooMany` requires two distinct matching processes. The caller's own `self` and `thread-self` entries must not count twice. This holds only because the `TooMany` check precedes the name parse and procfs lists the fixed entries first.

The two ProcScan violations:
- `proc_pid_reuse`: the target exits and its pid is reused before `from_pid`. The exe and maps then come from a process running another command.
- `proc_scan_abort`: the caller looks up its own command `retis`, and the unrelated `ovs` process exits between `exists()` and `read_to_string` of its comm. The `?` ends the lookup with an I/O error.

**`compile` inputs.** The pass run compiles these filter families:
- every path of one or two members from a pool of 17 names (existing, missing, pointer, record, array, enum, function-pointer and double-pointer members);
- the three-member paths through `dev` or `next`;
- every mask text (hex, `~0x0`, zero, `~` of all-ones, `~0b10`, unparsable) on intermediate and terminal nodes;
- casts to a struct, a typedef of a struct, a typedef of a pointer, a typedef of an integer and an unknown name;
- ten terminal shapes, each compared with each of the seven operator words (one invalid) and each of twelve RHS words: decimal, negative, hex, `0x` alone, quoted, empty quoted, mixed quotes, unquoted text, the empty word, and strings of 31 and 32 bytes;
- word counts of 2 and 5.

That is 3,832 filters. The unit tests' inputs are added to them, and TLC
explores 14,126 states. Most filters are rejected, at every kind of check;
the accepted ones include casts, bitfields and every operator.

**Violation runs.** Each one checks `CompilesAsSpecified` on one input where
code and specification disagree. The findings in `PROJECT.json` give the code
line and the spec's words.

**Bounds.** An FC state holds a single compilation, so the bounds are the
input families and the fixture. They are chosen so that every branch of
`from_string` and of its helpers is taken in the pass run:
- every `bail!`;
- every arm of `check_one_walkable` and of `emit_load`'s type loop;
- both the pointer and the embedded indirection;
- the cast paths;
- both Rval shapes and every `emit_target` branch.

**ProcScan bounds.** Three pids and two commands are enough for every
outcome of the scan:
- the outcomes no match, one match and two matches;
- a match on the caller's own entries;
- every scanner step racing an exit or a start.

Every terminal `pc` value is reached in the pass run.

**Fairness.** FC is a terminating sequential function and no liveness is
claimed of it. The ProcScan scan terminates by its bounded loop.
PrintLoop assumes weak fairness of the loop's own steps (`WF_vars(Loop)`),
which the code justifies: `next_event` waits at most one second before
returning `Timeout`. The signal is the environment's, and no fairness is
assumed for it. The number of Timeouts is bounded by `MaxTimeouts`, which
models a file that is complete when `print` runs. A reader that never
reaches the end of the file, such as one following a file still being
written, would loop until a signal arrives.
No liveness is claimed for it either, because processes may keep starting and
exiting forever. `CHECK_DEADLOCK FALSE` is set because `from_string` returns:
its final states have no successor.

## 4. Not modelled, and the plan

The module still to be written:

1. **ProbeLifecycle** (spec §4.5, outside `src/`, so it would be modelled from the spec). It covers the table lifecycle NotInitialized → TableCreated → Populated → Attached → Detached, composed with FC's outcome. Properties: no partial program is published, and only programs of at most 32 ops are populated.

Every run the checker allows (twelve) is in use. A new question would
therefore replace a run, or join a pass run as another property.

Not modelled in the parts that are modelled:
- A hex RHS written with a doubled prefix. `Rval::from_str` strips it with `trim_start_matches("0x")` (line 409), which removes every leading `0x`, so `sk_buff.mark == 0x0xff` compiles as `0xff`, where the grammar of spec §6 rejects it. Adding this input to the `compile` run makes TLC report `CompilesAsSpecified` violated. A separate violation run would be needed to keep the pass run passing, and all twelve are in use; the hazard is listed in `PROJECT.json`.
- Paths with spaces, and the ` (deleted)` suffix the kernel adds to the path of a deleted file. `from_string` keeps only the first word (line 443), so such a library is looked up under a truncated or stale path. Its probes are then missed, or taken from whatever file now has that path. `UsdtLookup` can express this: paths are word sequences, and `MapsLine` writes them as the kernel does. Mapping `libc` as `my libc` makes TLC report `SymbolLookupAsSpecified` violated: the code looks up `my`, finds no file, and answers None for a probe of the library. Keeping that check needs a violation run. All twelve runs are in use, so the instance maps only one-word paths. The hazard is listed in `PROJECT.json`.
- The elf crate's own parsing (section headers, note iteration). Its result is the input of `UsdtElf`.
- The debug-build panic of the u64 subtractions at `proc.rs` 377/384/120. The model is the release profile, where they wrap, and `SymbolLookupAsSpecified` shows the wrapped arithmetic is right.
- `init_meta_map`, a single libbpf map creation with no control flow.

Permanently out of scope:
- `build.rs`;
- the generated bindings;
- the kernel-side interpreter, which is not in this repository.
