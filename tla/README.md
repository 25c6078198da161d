# A verification development for libsffcmis

libsffcmis reads, decodes and configures optical transceiver modules over I2C. This directory holds TLA+ models
of its control logic, the TLC configurations that check them on small instances, and TLAPS proofs of the
properties that matter most. Every definition is translated from the C source; `PROJECT.json` maps definitions to
lines, runs to properties and hazards to the properties that guard against them.

## Inventory

The library is sequential C: one process, one module, one call at a time. What makes it hard is on the other side
of the bus. The module is a concurrent partner with registers that change by themselves, every I2C transaction may
fail before or after it took effect, and most operations are sequences of several transactions without rollback.

| Component | State | Operations | Hard behaviour | What makes it correct |
|---|---|---|---|---|
| EEPROM access (`sffcmis.c`, `i2c.c`) | bank and page select registers, bytes moved so far | `get_eeprom_page`, `set_eeprom_page` | failure between selection and transfer, read chunks, write blocks that wrap, partial reads | bytes come from and go to the place named, nothing else changes, success means complete (writes) |
| CDB messaging (`cmis-cdb.c`) | mailbox page 9Fh, status byte, elapsed time | `cmis_cdb_send_command(_lpl)` | a command that outlives its caller, mailbox half written, reply area shared with payload | statuses, replies and parts of commands are never mixed up between calls |
| CDB firmware management | session and image in the module, block offset | download, run, commit, copy, abort | a block fails in the middle, sessions left open, retries | success means the exact file |
| CDB queries | reply of one command, features read before, certificate so far | feature pages, PM records, certificates, digest and signature | record walks over a reply of any length, unread replies, segment loops | walks end, records keep their place, segments their order |
| Data path control (`cmis-datapath.c`) | DPDeinit, staged and active control sets, data path states | deactivate, activate, configure a lane | the module changes state by itself, several lanes in a byte and on a path | success means the state waited for; no lane goes dark in silence |
| Network path (`cmis-netpath.c`) | as the data path, page 16h | as the data path, signal sources, state mask | as the data path | as the data path |
| Tunable laser (`cmis-tunable.c`) | four registers per lane, latched flags | tune a lane or a bank, mask | four writes without rollback, stale flags | registers change on a lane out of service and end up of one tuning |
| Lane and module registers (`cmis-datapath.c`) | bytes with a field per lane, staged and active sets | read-modify-write controls, masks, passwords, reset, user EEPROM, lane switch | shared bytes, writes cut short, triggers that bring everything staged into force | only what was asked changes, and it is shown for the lane it was made for |
| Diagnostics (`cmis-diag.c`) | pattern, enable and loopback registers, selector of page 14h | start, stop and read BER; loopback; scratchpad | four blocks configured one after the other; selector and result are separate transfers | no block runs on a pattern it does not support |
| Coherent optics (`cmis-coherent.c`) | thresholds, enables, filters | set a threshold in dBm or as a ratio, filters, masks | two encodings and their inverses in different functions | what is displayed is what was set |
| VDM (`cmis-vdm.c`) | freeze bit, freeze and unfreeze done flags | freeze, unfreeze, power saving, masks | a freeze that never completes, a shared control byte | samples of one set belong together |
| Memory map (`cmis.c`, `cmis-ext.c`) | pointers to loaded pages | page loading, VDM snapshot, `cmis_show_all_nl` | flat memory, pages not advertised, failing reads | nobody reads a page that was not loaded |
| Legacy modules (`sfpid.c`, `sfpdiag.c`, `qsfp.c`, `xfp.c`, `sff-common*.c`), dispatch (`sffcmis.c`) | pages read | `eeprom_parse`, the displays | failing reads in the middle of a document | no missing page is followed, the document is closed |
| JSON output (`json_writer.c`, `json_print.c`) | depth, separator, the deferred writer | open, close, field | early returns with open objects | well formed documents |
| Command line tool (`test/sffcmis_test.c`) | power state of the module | wake, one operation, sleep | module initialises data paths after wake | operations see the state they expect |

Components interact by calls: everything reaches the module through `get_eeprom_page` and `set_eeprom_page`;
firmware management and queries go through CDB messaging; tuning goes through data path control; every display goes
through the JSON output.

## Modules

| Module | What it is |
|---|---|
| `PagedStore` | abstract: a store of bytes addressed by bank, page and offset |
| `EepromAccess` | the access path; implements `PagedStore` |
| `EepromAccess_proofs` | its theorems |
| `CdbRpc` | abstract: a remote call that runs at most once and answers with its own status |
| `CdbCommand` | CDB messaging against an external engine; implements `CdbRpc` |
| `CdbCommand_proofs` | its theorems |
| `FwDownload` | firmware download and abort over commands with the contract of `CdbRpc` |
| `FwDownload_proofs` | its theorems |
| `JsonWriter` | the JSON writer and the printing layer over it, against a reader of JSON |
| `CdbQuery` | what all CDB queries have in common: one command, its reply, the fields decoded of it |
| `CdbPm` | performance monitoring: the features and the walks over records |
| `CdbFeatures` | feature discovery, and the firmware commands that are single commands |
| `CdbSecurity` | certificates, digest and signature |
| `Display` | identifier dispatch and the displays of all four standards: failed reads and the document; the BER counters |
| `CdbQueries` | composes the last five: one run of the command line that shows something |
| `CdbQueries_proofs` | theorems of the queries: replies, walks, certificates, documents |
| `DataPath` | deactivate, activate, configure and tune a lane, on data paths or on network paths |
| `DataPath_proofs` | its theorems |
| `LaneSettings` | abstract: calls that each change the settings they are about and no other |
| `Registers` | every operation that changes a register or a field of one; implements `LaneSettings` |
| `Registers_proofs` | its types and the patterns of the tests; what holds of the programs of all calls |
| `Settings_proofs` | what the programs have to do with what the calls ask for; what comes into force; `LaneSettings` is implemented |
| `Vdm` | freeze, unfreeze, power saving and masks against monitors that run |
| `MemoryMap` | the display of a CMIS module: page loading, VDM snapshot, and the pages each display follows; uses `Vdm` |
| `MemoryMap_proofs` | theorems of `Vdm` and `MemoryMap` |
| `MC...` | model values for TLC |

The modules are stacked like the code. `EepromAccess` shows that one `get` or `set` is a transfer that may fail
(a failed set may have stored a part); the modules above take each call as one action with just these outcomes.
`CdbCommand` shows that one CDB call runs its command at most once and answers with its own status or an error;
`FwDownload` and `CdbQuery` take each command at that contract.

### Correspondence with the code

* `EepromAccess`: one action per I2C transaction. `Call` is the entry of `get_eeprom_page` and `set_eeprom_page`,
  `SelectBank` and `SelectPage` the two writes of `eeprom_select_page`, `ReadChunk`/`ReadError` a pass of
  `i2c_ioctl_read`, `WritePiece`/`WriteError` a pass of `i2c_ioctl_write` with `WriteSize` for `GET_WRITE_SIZE`.
  The module is external: it wraps inside a write block, the reason for the pieces.
* `CdbCommand`: one action per transfer of `cmis_cdb_send_command_lpl`, a payload of several write blocks being one
  action per block; `Poll` is a pass of `cdb_wait_completion`, `BusyTimeout` is `cdb_get_busy_timeout` byte by byte.
  Bytes are abstracted to the call they belong to. A reply is copied whole (`Copied`) also when its read broke off after
  a chunk, which is no error: the blocks that were not read are then `Heap`, what `malloc` left there. `broken` is a history
  variable: a transfer of the reply failed or broke off. The engine (`Accept`, `Complete`) is external.
* `FwDownload`: one action per command. A file byte is a pair of download and address, so a byte of another file is
  told apart. The capability reply may be garbage, as `cdb_fw_get_caps` uses an uninitialised buffer when the
  read of the reply fails.
* `JsonWriter`: the writer's depth and separator as the code has them, and next to them the brackets that are open and
  the last token as a reader of the text knows them. A string is a token that is well formed when `jsonw_puts` writes
  its characters as JSON has them; `Chars` says which kinds of characters the strings of modules have. The calls are
  functions on outputs, played in sequences; null writers and failed assertions are crashes.
* `CdbQuery` and the modules over it: one action per show and per pass of a walk. A reply is its announced length and
  whether all its bytes were read: when they were not, a byte is whatever `Garbage` has, as the code's buffers are not
  initialised. The announced length may be 121 to 255 (`RplMax`); nothing is read then, and the length is believed.
  `LastUsed` is the last byte a show uses of a reply. `CdbPm` keeps the offset, the lane and the record size of a walk;
  the module lays its records out in `Place`. `CdbSecurity` keeps the segments in the buffer.
* `Display`: one action per display. `Reads` are the outcomes of reading pages in order up to the first failure, and
  `Follow` crashes when a display follows the pointer of a page that the map has not: a CMIS module with flat memory
  (`FlatIds`) has no page 01h.
* `DataPath`: one action per transfer, each of which may fail before or after its effect. `family` tells the data paths
  of `cmis-datapath.c` from the network paths of `cmis-netpath.c`, which have the same operations on page 16h but read
  states in the other nibble order. `cmis_dp_read_state` takes the nibble the code takes, `dp_state_for_lane` the one
  the display takes. What the module makes of an applied configuration is its own affair (`Accepts`, `Rejects`):
  `rejected` has the lanes whose last configuration it did not take over, which no operation asks. An AppSel is a byte;
  `Code` is what of it gets into the register, 0 included. `PathStep` is the module's state machine, which may stop in
  any state for ever. `dark` is a history variable: the lanes whose last operation was a deactivation or failed.
* `Registers`: an operation is a program of transfers (`Rmw`, `Read`, `Write`, `Advertised`), built per call from what the
  function does in its order; `ReadStep`, `CheckStep` and `WriteStep` do one transfer each, and an operation leaves at
  the first that fails. A failed write has stored any number of its bytes, all of them included. A register is
  bytes and a byte is fields (`Bytes`); `NibbleAt` and `TypeAt` are where the code puts a field,
  `NibbleShownAt` and `TypeShownAt` where the displays look for it. `Displayed` and `Staged` decode the registers as the
  display functions do, and are what `LaneSettings` is about. What a register write triggers in the module is external:
  apply, the commit of a lane switch, a software reset, a change of password.
* `Vdm`: one action per transfer. 2Fh:90h is read, changed and written by freeze, unfreeze and power saving; the header
  gives bit 6 of it to FreezeDone and to PowerSavingMode, and `Bit6` says what the module has there. The
  monitors (`Refresh`, `Freeze`, `Thaw`) are external. `held` is a history variable: a freeze returned 0 and no unfreeze has
  reached the module since; `wanted` is the mask each instance was given last.
* `MemoryMap`: one action per stage of `cmis_memory_map_init_pages` and its extension, with the subset of pages whose
  read fails; per VDM group, because the monitors run in between. A page is a bank and a name. `Followed` is
  the set of pages whose pointers the displays follow, one definition per display, each with the checks the display makes
  (`Checked` where it looks first); `Display` crashes when one of them is not there. What the pages say (banks,
  advertised features, coherent without saying so) is the kind of module in the cage.

## Runs

| Run | Shows | Bounds |
|---|---|---|
| `eeprom` | reads and writes are exact, complete and end; `PagedStore` is implemented | 2 banks, 2 pages, 12 offsets, blocks of 4, chunks of 3: transfers of none, one, and several chunks or pieces, misaligned at both ends, in both halves of memory |
| `cdb` | no mixture of statuses, replies or commands; every call ends; `CdbRpc` is implemented | 3 calls, payloads of 0, 1 and 2 blocks, replies of 0, 1, 2 and more blocks, waits of 1 and 2 polls: a call, one that outlives it, and one that follows both |
| `cdb_reply` | violation: a success whose reply was not read, or not whole | the same |
| `fw` | success is the exact file; sessions are not mixed | files of 0, 1, 2, 5, 6 and 7 bytes, blocks of 2, limit 6, 3 downloads |
| `lanes` | states waited for, no silent dark lane, whole settings, only the own lane | 2 lanes on one data path, or on a network path each; 1 AppSel, of more than four bits so that the mask counts, and 1 tuning besides the factory values; each configuration accepted or rejected; waits of 2 polls |
| `dp_singles` | violation: nibble order | 2 lanes with a data path each |
| `memory` | nobody follows a missing page, samples shown are of one moment, freezes and masks last | 10 kinds of modules: each feature alone on 2 banks, all but VDM, VDM with a coherent laser that does not say so, a reserved bank code; any two reads or writes of a command fail; 2 VDM groups, 2 instances in one byte, waits of 2 polls, 2 samples |
| `flat` | violation: a flat module crashes the display | the same, flat memory |
| `queries` | records keep their place, certificates their order, nothing past the announced length of a reply is used, documents are complete, displays end | all displays in text and in JSON; replies of 0, 1, 2, 9, 25, 34, 40, 120, 121 and 255 bytes, at and around the lengths the code asks for and at both ends of those that no reply can have; 3 sets of host and of media observables; certificates of 0 to 500 bytes for a buffer of 400; modules of all four standards and of none, those of the legacy standards flat as well; strings of characters the JSON writer carries |
| `pm_walk` | violation: a walk that does not end | the same, with a reserved feature bit in an unread reply |
| `long_reply` | violation: bytes past the buffer of a reply are used | the same |
| `registers` | `LaneSettings` is implemented, what is applied is whole, only supported patterns run | 4 lanes; two calls in a row with each transfer failing in each way; lane masks of one and of all lanes; targets at, below and beyond the limit; thresholds at the ends of the range and at rounding boundaries; areas of 4 bytes in blocks of 2 |

Six more configurations have a counterexample each, for what the passing runs leave out or do not claim. They are not among the
runs of `PROJECT.json`; `tlc -config X.cfg M` shows them.

| Configuration | Module | Violated | Shows |
|---|---|---|---|
| `DataPathRejected.cfg` | `MCDataPath` | `ConfiguredOnSuccess` | a success although the module rejected the configuration |
| `DataPathZero.cfg` | `MCDataPath` | `ZeroKeepsAppSel` | AppSel 0 is not "don't change" |
| `CdbCertificate.cfg` | `MCCdbQueries` | `CertificateWhole` | a part of a certificate is saved as all of it |
| `JsonText.cfg` | `MCCdbQueries` | `DocumentComplete` | an apostrophe in a string makes the document no JSON |
| `DisplayUnread.cfg` | `MCCdbQueries` | `DocumentComplete` | a first page that cannot be read leaves a document open, which ends the program |
| `RegistersFilter.cfg` | `MCRegisters` | `ImplementsSettings` | a filter type is displayed for another lane |

Two samples are enough to tell two moments apart, two groups to need a snapshot, and two instances to share a byte; four lanes
fill a byte of two-bit fields and take two of nibbles. Two calls show what a call makes of the remains of another one
that broke off. Waits of one, two or three polls stand for the 50 to 500 of the code: the properties depend on a poll
being the last one or not, and on nothing else of their number.

`queries` leaves out four cases the code does not handle: with `--json`, first pages of QSFP and CMIS modules are always
read (`DisplayUnread.cfg` shows what happens otherwise), and the BER counters are shown in text only (see below); CMIS
modules are not flat (`flat`); and the strings of modules have characters that the JSON writer carries, no apostrophe
and no raw control character (`JsonText.cfg`). `registers` leaves out the filter type (`RegistersFilter.cfg`) and
subnormal error ratios (see below). Thresholds are non-negative ratios up to 1 and powers within the range of their
register; the rounding of a decimal to hundredths may go either way when the binary value of the decimal is not exact.

**Fairness.** The specifications with a liveness property assume weak fairness of the host's steps inside a call: the
library is a sequential program that goes on with what it has entered, and every transfer ends, with or without an
error. Nothing is assumed of the module: engines may never complete and data paths never move, and calls return all the
same.

## Findings

Eleven disagreements between the code and what it says of itself have a counterexample in a run or a configuration.

1. `dp_singles`: `cmis_dp_read_state` swaps the two lanes of a state byte, against `dp_state_for_lane` in the same file and
   `np_read_state` in `cmis-netpath.c`.
2. `flat`: the display of a module with flat memory computes the number of banks from page 01h, which such a module has not.
3. `pm_walk`: the walk over the host performance records does not end when a feature byte has reserved bits only.
4. `RegistersFilter.cfg`: the filter type of a lane is written and displayed at opposite ends of its byte.
5. `DisplayUnread.cfg`: the displays of QSFP and CMIS modules return from a failed read with the JSON document open, and the
   program ends in a failed assertion.
6. `cdb_reply`: a CDB command whose reply cannot be read succeeds with a length that its buffer does not hold; one whose
   reply breaks off after a chunk succeeds with the rest of the buffer copied from uninitialised memory (`cmis-cdb.c:249`
   after `i2c.c:187`).
7. `long_reply`: a reply that announces more than 120 bytes is not read, but its length is handed on, and the shows decode, dump
   and copy that many bytes (`cmis-cdb.c:239`).
8. `CdbCertificate.cfg`: a certificate of which a later segment fails is saved as the whole certificate with success
   (`cmis-cdb.c:2481`). Some end of this kind is intended, as a certificate of a multiple of 120 bytes may end in an
   error.
9. `DataPathZero.cfg`: AppSel 0, documented as "don't change", is written as 0 (`cmis-datapath.c:825`).
10. `DataPathRejected.cfg`: a configuration that the module rejects is reported as activated; ConfigStatus is never read
    (`cmis-datapath.c:859`).
11. `JsonText.cfg`: the JSON writer escapes the apostrophe, which JSON does not allow, and does not escape control characters
    without a letter (`json_writer.c:85-89`).

Others came up while reading and have no counterexample of their own:

* the writer and the display of VDM masks disagree on which nibble of a byte is whose (`cmis-vdm.c:265` and 448);
* bit 6 of 2Fh:90h is FreezeDone for the freeze and PowerSavingMode for the power saving (`Bit6` in `Vdm`);
* a ratio below 2^-14 is written as the power of two under it (`cmis-coherent.c:1370`): 1e-5 becomes 7.6e-6;
* a lane found in DPDeactivated with DPDeinit clear is configured or tuned without being held down (`cmis-datapath.c:812`,
  `cmis-tunable.c:600`): nothing keeps it there until the registers are written, and `ConfigHeldDown` does not claim it;
* `cmis-diag.h:48` says that a loopback is validated against the capabilities, `cmis-diag.c:910` warns and writes it anyway;
* the BER counters open a named object directly in an array, which is no JSON (`cmis-diag.c:690` after `sffcmis_test.c:2624`),
  and bit counts that cannot be read are shown as 0;
* a module that has been told to sleep and is still in ModuleReady is taken for awake (`sffcmis_test.c:407`).

## Proofs

`EepromAccess_proofs` proves, for every size of memory, block and chunk and every set of requests within the
assumptions, type correctness, `ReadExact`, `WriteComplete`, `WriteFootprint` and that `PagedStore` is implemented. The
inductive invariant `IInv` adds to the properties that the window shows the requested bank and page while bytes
of the upper memory move (`WindowSelected`) and that the first `done` bytes of a set are in place. The arithmetic core is
`WriteSizeInBlock` (a piece ends at its block) and `LandingExact` (a piece that ends at its block never wraps).

`CdbCommand_proofs` proves, for any number of calls, any payload size and any timeout, type correctness, `StatusIsOwn`,
`NeverMixed`, `ReplyIsOwn`, `MailboxStable` and that `CdbRpc` is implemented. `IInv` relates the place of the host
in the call, the engine and the mailbox: while the host writes, the engine is idle; once CMDID is written, the
engine runs or has finished the current call, and the mailbox holds this call's bytes only. `ReplyIsOwn` has two halves: what
a call hands out of the module is of its own reply, always; and a success has all of its reply unless a transfer of it failed or
broke off (`broken`), the premise without which `cdb_reply` has the counterexample. `BusyTimeoutRange` shows
that every advertisement gives a positive wait, from which `CallReturns` gets its bound.

`FwDownload_proofs` proves, for every set of file sizes and every block size, type correctness, `DownloadedExact` and
`WritesInOwnSession`. The invariant `Progress` says that in the loop over the blocks the session is this download's own and
the image is the file up to the offset; it needs no history, because a session that an earlier download left open has
an older number and `Start` refuses it. `BlockExtends` is its arithmetic: a block moves the prefix on, the last one by what
is left of the file.

`DataPath_proofs` proves, for any even number of lanes, any grouping of lanes to paths, any settings and waits, type
correctness, `NoSilentDarkLane`, `ConfiguredIsActive` and `OwnLaneOnly`. `DeinitByte` is the heart of the invariant: the
byte read before a write is still the module's, as the host is the only writer of DPDeinit, and a lane whose bit is set
is dark for a reason its user knows. `WrittenSoFar` carries what has reached the registers of the lane from place to
place. `ConfiguredIsActive` holds for every byte as AppSel and for a module that rejects at will: a success means that
the code is staged and that the module has it in use or rejected it, no more, as `DataPathRejected.cfg` shows. `ConfigHeldDown`
and `DeactivatedOnSuccess` depend on the state the code reads for a lane: they are proved under `Truthful`, that it is a
network path or that both lanes of a state byte are on one data path. Without it they are false, as `dp_singles` shows;
it is a condition on where the module is used and not an assumption of the model.

`MemoryMap_proofs` proves type correctness of loader, displays and VDM commands for every kind of module; and, for any number
of groups, instances, polls and failures and where bit 6 is FreezeDone, that a freeze lasts until an unfreeze
(`HeldIsFrozen`), that the results of freeze and unfreeze are true (`AnswersTrue`) and that the samples of a display are of one
moment (`SnapshotConsistent`); and without that condition that masks last (`MaskHeld`). `ControlInv` and `MaskInv` add that the
byte a command has read is still the module's when it is written back; `ThawedInv` that UnfreezeDone and frozen samples
exclude each other; `SnapInv` that the moments collected so far are the one that is frozen. `NoMissingPage` is proved for
every module whose memory is not flat, whatever pages cannot be read, by `LoadInv`: past the first stage of the loader the
three pages that the displays follow without a check are there. For flat memory the run `flat` has the counterexample.

`CdbQueries_proofs` proves type correctness, `WithinReply`, `RecordsInPlace` and `CertificateInOrder` for every set of
reply lengths that a byte can announce, every feature byte and every certificate. `WithinReply` is about the announced
length; that this is within the buffer is false (`long_reply`). An announced length above 120 was never read
(`RepliesRead`). `WalkInv` says of a walk that as long as there is room for a record it has taken as many records as
there are observables for every lane before, which gives each record its place, and that it stays within the reply.
`CertificateInv` says that while a certificate is read no segment in the buffer is short and they are as many as the
number of the next one. Its assumption that a buffer has at most 256 segments of 120 bytes stands for the byte in which
the segment number is sent; the buffers of the callers have 4096 bytes.

The second half of the module is about the documents: `DocumentsComplete` says that a run leaves one well formed
document or none and follows no missing page. The invariant is `DocumentInv`: which shows may be due in each mode
(`Agenda`), and which brackets are then open (`OpenAt`), from the object that `main` opens to the record of a walk. A
show is right when it `Leads` from the brackets before it to those after it. `Joined` composes such steps, `OneCall` is
a single call of the printing layer, and `PutDoc` is what one token does to the text. The calls of a show are applied by
folds; `FoldRuns` says that a fold is the run of its passes, by induction over the numbers from the well-foundedness of
`<` (`Induction`). The condition `Handled` on the constants leaves out the reads whose failure leaves a document open,
the BER counters in JSON, flat CMIS modules and strings with characters that the writer does not carry, where the
property is false (`DisplayUnread.cfg`, Findings, `flat`, `JsonText.cfg`); the run `queries` meets it. `CageInv` keeps
the modules with page 01h apart from the flat ones, `TextsCarried` is the step from characters to tokens.

`Registers_proofs` proves type correctness and `PatternsSupported` for any number of lanes that is a multiple of four,
any masks, patterns, thresholds, passwords and texts. It first derives the layout of every register (`NibbleLayout` and
the lemmas after it), then that the program of every call of every group is framed (`ProgramsAreFramed`): a write is
complete, or comes right after the read of its register. From that, `StoredFields`: a write cut at any byte leaves each
field as it was or as it was to be, never what the buffer of another register had. `F16Range` bounds the half precision
conversion, case by case over its exponents. For the patterns, `BertOrder` says that a test selects only what it has
checked or the module advertises, and enables only what it has selected; `BertLeft` is what is left of that order when
the steps before are done, and with `PatternsSupported` it is inductive.

`Settings_proofs` relates the programs to the requests. `Carry` says that every write of a displayed register makes its
fields what the call asked for and that everything asked for is written; it is shown for the calls of the ten groups
whose registers hold the settings as they were asked, and for the module group but for the reset and the change of
password. `WorkInv`, the inductive invariant, is its remainder at run time: each setting that was asked for is in the
registers already or in a write that is left, and the trigger of the staged settings is the last transfer. It needs
`ResetInv`, that the module is not left in its reset: the byte with the reset flag is read, changed and written back for
other flags, and would reset the module again. From `WorkInv` follows `AppliedWhole`: when the trigger is written,
nothing else is left, so all that was asked is in the registers, and it comes into force whole. Here the module accepts
every configuration that is applied; rejections are in `DataPath`.

`SettingsImplemented` is the refinement: the displays as `setting`, the registers as `staged`, and every step of every
operation one of `LaneSettings`. `Promised` is what a step may do to one setting, and `PromiseWork` puts the settings
together. For the groups of fields, `FieldDecodes` says that a display looks for a field where the operations put it,
and by `WorkInv` all that was asked is in the registers or in the last transfer when that is due. The reset and the
change of password have invariants of their own (`ResetWork`, `ChangeWork`): one resets more than it writes, the other
succeeds without effect when the current password is wrong. For the thresholds, `HundredthsNear` and `SignedBack` bound
the error of a power, and `F16Normal` (half the distance of two numbers in half precision, by way of `Rounding`) and
`F16Small` that of an error ratio. The theorem has two conditions on the constants. `Representable` leaves out powers
that overflow the 16 bits of their register, for which the C conversion is undefined, and ratios below 2^-14 that are no
power of two, which are written up to a factor of two too low (Findings). `NoFilter` leaves out the filter types, for
which `RegistersFilter.cfg` has the counterexample. The run `registers` meets both.

**Termination.** Five theorems are the part of the liveness properties that needs no fairness: for every value of the constants,
each step of the host lowers a natural number, and the module's steps leave it alone. `StepsLeft` counts the transfers that a
call can still make: of a get or a set (`CallsBounded` in `EepromAccess_proofs`), of a CDB command with its two waits
(`CallsBounded` in `CdbCommand_proofs`), of a download (`DownloadsBounded`), of an operation on a lane with its three waits
(`OperationsBounded`). A run of the command line has two numbers, the shows that are due and the passes that the present one has
left (`RunsBounded`): a walk moves on by at least a record, a certificate by a full segment or to the next one. This holds under
`HostObserved`: a host feature byte is zero or names an observable, which the run `queries` meets. Without it a walk may not
end, as `pm_walk` shows. That the host takes its steps is fairness, and stays with TLC.

The assumptions of the theorems are the named `ASSUME`s of the modules, which TLC evaluates in every run: sizes that are natural
numbers, arguments within the types of the C functions, lanes in whole bytes. No theorem assumes anything of a state; the
conditions of a few, named above, are on constants and are stated in the theorem.

Model-checked only is liveness (`CallReturns`, `DownloadReturns`, `OperationReturns`, `QueryReturns`), as TLAPS does not
handle ENABLED; its bounds are proved as said above. Every other property of the passing runs is stated by a theorem.

## Not modelled, and the plan

Left to prove is that the calls return under fairness, once the prover handles ENABLED: the measures for it are there.
What could be modelled next is the loop of a bank tuning over its lanes, and wake and sleep of the command line tool
around an operation.

Left out for good: lookup tables, wording and layout, the decoders of static bytes, of VDM samples and of performance
counters (values without state or order), option parsing, and the synthetic eye diagram, which is floating point
drawing. Wake and sleep, the loop of a bank tuning, and two processes on one bus are not modelled. Text that the tool
prints with `printf` in a run with `--json` is not part of the document that `JsonWriter` follows.
