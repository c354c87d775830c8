# wdc-utils in TLA+

`wdclink` links object files of the WDC assembler and compiler into an OMF file
for the Apple IIgs; `wdcdumpobj` prints them as assembly. This directory models
`wdclink` from its command line to the bytes of its output file and `wdcdumpobj`
from its arguments to the listing, checks small instances with TLC
and proves with TLAPS, for all inputs, what the linker's symbol table and its
verdict on a link rest on, that the bytes and expressions of the modules stay
together in the sections, that all of them get into the segments, and that
readers of the output file find the segments where its headers and its directory
say; and of the other program that its listing is a faithful one, from which an
assembler would make the module again, and that it ends. `PROJECT.json` relates every definition to the lines it models, every
property to the hazards it is about, and to a mutation of the model that breaks
it.

## The system

Both programs have one thread and no state between runs. What is hard in them
is the order of things: symbols are referred to before and after they are
defined; sections grow while places in them are handed out; records are numbered
before the numbers change; sizes are written before what they measure.

| component | state it keeps | operations | hard behaviour | what makes it correct |
|---|---|---|---|---|
| symbols, sections, files, libraries (`link.cpp` 113-916, 1255-1579, `main`) | `sections`, `section_map`, `symbols`, `symbol_map`, `undefined_symbols`, `flags.errors` | `init`, `one_file`, `one_module`, `one_lib`, `libraries`, `generate_end`, `simplify` | references and definitions in any order; the number of an undefined symbol stays in expressions while its entry is replaced; library modules ask for library modules; truncated and malformed modules | each reference lands on the byte that its first definition labels; success exactly when nothing is undefined; no module is loaded twice; it ends |
| expression folding (`expression.cpp`) | the operand stack | `simplify_expression`, `binary_op`, `unary_op` | 32-bit wrap-around, negative offsets, divisions, operators that end the process | a folded expression has the value of the unfolded one, wherever its sections are |
| OMF segments (`link.cpp` 936-1252) | `omf_segments`, `remap` | `build_omf_segments`, `to_omf` | places are lengths at a moment; sizes and bytes differ; branch limits; refused expressions; the stack segment | every section whole, every address a record that becomes its label's address |
| OMF file (`omf.cpp`) | the file, `super_helper` per kind, ExpressLoad headers | `save_omf`, `add_relocs`, `append`, `to_v1` | page skips and counts; renumbering for ExpressLoad; the directory's size before its contents; blocks; writes that are short or fail | a reader finds the linker's relocations, bytes and segments, and no others |
| disassembler (`disassembler.cpp`, `zrdz_disassembler.cpp`) | bytes of the instruction in hand, register widths, pc, next label, inline data | `operator()`, `check_labels`, `dump`, `flush`, `space`, `set_section`, `next_label` | labels and expressions that come inside instructions; REP/SEP; label order | every byte is printed once, at its place, and labels where they are |
| `wdcdumpobj` (`dumpobj.cpp`) | the file it reads | `main`, `dump`, `dump_obj`, `dump_lib` | several files of several modules; truncated and malformed ones | feeds each record's bytes to the disassembler once; it ends |
| object file readers (`link.cpp` 113-215, `dumpobj.cpp`) | a position | `read_sections`, `read_symbols` | ends of the data | the parts of a module, or its rejection |
| options (`parse_ft`, `usage`, `main`) | `flags` | `getopt` loop | none | each option has its effect |
| `set_file_type.cpp`, `afp/` | file metadata | one library call | none | |
| `disasm.cpp`, `optional.h`, `endian.h`, `mingw/`, `samples/`, `man1/` | | | not built, library stand-ins, examples | |

The components meet in the globals of `link.cpp`: the readers fill vectors that
`one_module()` consumes; `one_lib()` runs `one_module()` on what
`undefined_symbols` asks for; `main` goes on to `generate_end()` only when that
set is empty; `simplify()` folds with `simplify_expression()`;
`build_omf_segments()` empties the sections into `omf_segments`, which
`save_omf()` renumbers and writes, moving values out of records into the bytes
beside them. Nothing calls back except the disassembler's
`next_label()`.

## The modules

    Expression                     expression.cpp
      Folding                      a reference evaluation; the properties
        MCFolding                  operands for TLC
      ExpressionProofs             the loop of simplify_expression()
      Linker                       link.cpp: the linking phases
        LinkerProperties           what must be true of them
          MCLinker                 command lines for TLC
          LinkerProofs             types         (EXTENDS TLAPS)
            ResolutionProofs       symbol table; refinement of LinkSpec
              HistoryProofs        the table against the modules read;
                                   the rounds over a library
                PlacementProofs    expressions, bytes, duplicates
                                   (EXTENDS ExpressionProofs too)
          WdcLink                  Linker, then OmfBuild
            MCWdcLink              command lines for TLC
            WdcTool                WdcLink, then OmfFile, then OmfLoader
              MCWdcTool            command lines for TLC
              BuildProofs          segments      (EXTENDS PlacementProofs too)
      OmfBuild                     link.cpp: the OMF segments
    LinkSpec                       what a linker promises about symbols
    OmfFile                        omf.cpp: the file
      OmfLoader                    a reader of the file; the properties
        MCOmfFile                  segments for TLC
        FileProofs                 the file      (EXTENDS TLAPS)
    Disassembler                   disassembler.cpp, zrdz_disassembler.cpp
      DumpObj                      dumpobj.cpp: files, modules, records
        Listing                    an assembler of the listing; the properties
          MCDumpObj                object modules for TLC
          ListingProofs            the listing  (EXTENDS TLAPS)

**Linker.** An action is one turn of a loop of the code; `pc` is the loop.
Section and symbol numbers start at 1 (0 is the code's -1). A byte of section
data is the place it was read from, `[by, section, at]`: enough to tell whether
a reference lands where its definition went, and nothing else. For the
properties each expression also keeps its module (`by`) and its operands as the
module wrote them (`source`), and `loaded` keeps the modules; no action reads
these.

| code | actions |
|---|---|
| `init` | `Init` |
| `main`, `one_file` | `FileRefused`, `FileIsLibrary`, `FileOpened`, `FileModule`, `FileDone`, `FilesDone` |
| `one_module`: sections | `SectionPredefined`, `SectionNew`, `SectionKnown`, `SectionsDone` |
| `one_module`: symbols | `ReferenceNew`, `ReferenceKnown`, `DefineLocal`, `DefineNew`, `DefineReferenced`, `DefineAgain`, `DefineUnmapped`, `SymbolsDone` |
| `one_module`: records | `RecordData`, `RecordSection`, `RecordOrg`, `RecordSkipped`, `RecordExpression`, `RecordsDone` |
| `libraries`, `one_lib` | `LibraryMissing`, `LibraryNowhere`, `LibraryOpened`, `LibraryModule`, `LibraryRound`, `LibrariesDone` |
| the end of `main` | `CheckUndefined`, `generate_end`, `simplify` |

A failed `assert` (the Makefile does not define `NDEBUG`), an `errx` and an
exception end the process: `pc = "aborted"`. What the header of a module says of
itself (`link.cpp` 1280-1282) is taken as true; a module that is shorter than it
says is `~intact`.

**Expression, Folding.** Arithmetic is modulo `2^WordBits`. The stack of operands
is folded by a recursive function over its items. `Folding` is the same folding
as a machine: a step of it is a turn of the loop in `simplify_expression()`, so
its states are all expressions up to `MaxItems` items and what has become of
them. Beside it stands an evaluation that is made of nothing in the code: with
every section at a place, all operands are numbers.

**OmfBuild, WdcLink.** `step` is the loop of `build_omf_segments()`;
`PatchBranch`, `PatchConstant`, `Relocate`, `RelocateOther`, `ShiftTooLarge`,
`Refuse`, `EmptyExpression` and `ConversionDies` are the ways through `to_omf()`.
A constant or a branch that the code stores in the bytes is a `patches` entry of
its segment. `WdcLink` runs `Linker` until `pc = "linked"` and `OmfBuild` from
its `sections`, so its properties are about what modules say, not about made-up
sections. `MergeData`'s limit, the reaches of a branch and the size of a page are
constants. The stack segment's number is read through a reference that a growing
vector may have freed (`link.cpp` 1216): of all that could be read there, the model
has the right number or none.

**WdcTool.** `main()` as a whole: `WdcLink`, then `SaveOmf`, which hands the
segments with their bytes to `OmfFile` (an `INSTANCE`, its variables renamed),
then `SetFileType`. A byte that came from a module is a number beyond the values
of a byte that tells its place, so that no step can put one byte for another
unseen; the bytes that expressions fill are real ones. The properties read the
written file with `OmfLoader` and compare it with the modules. `-X` and `-C` are
free; `main()` saves the file whatever `flags.errors` says.

**OmfFile, OmfLoader.** The loops of `save_omf()` and `add_relocs()` with a
record to an action. The bytes of a segment are numbers below `Byte`, so that
what `SUPER` records leave in them can be read back. The pieces of the file keep
their positions and sizes in bytes, with the real sizes of headers and records.
Assumed of the input (`SegmentsAssumption`) is what `OmfBuild` makes without `-S`,
or with an empty `page0`: segments are numbered in order, an address in a record's
own segment is no interseg, and, as `RecordsApart` shows of `WdcLink`, the records
of a kind come in the order of their offsets and do not overlap. (With `-S` and a
`page0` that is not empty two segments have one number: `ToolStack`. Records out of
order would fail `assert(page >= _page)`, `omf.cpp` 208, which is not modelled as an
abort: `HelperInv`, below, proves that it holds under this assumption.) `OmfLoader` reads
the file as a loader does (external: modelled from the meaning the writer gives
the records). `given` holds the segments before they are renumbered, for the
properties. The output may not open (`cantcreat`); up to `MaxFaults` writes
are short by one of `Missing` bytes, or fail: the code adds the result of
`write()` to `offset`, so a short write moves what follows and a failed one sets
`offset` and the file (`position`) one byte apart. Distances and marks of
`~ExpressLoad` have 16 bits and wrap. `wdclink` always compresses and, as `-1` is missing from its
`getopt` string, never asks for version 1; `save_omf()` is modelled for every
setting that `omf.h` offers.

**Disassembler, DumpObj, Listing.** The disassembler has no loop of its own, so
its methods are operators from an object to the object after the call; `DumpObj`
calls them, a byte of a data record or a turn of `space()` to an action, as
`dump_obj()` does. Files and their modules are read one by one, each module with
an object of its own; what cannot be read ends the program, with the files after
it unread. `next_label()`, which the engine calls back, is part of the
object. A byte is the number of its turn; an opcode is the size of its operand
and the register it depends on. Labels at one place are printed together, as
`std::sort` leaves their order open. What is printed is a sequence of items.
`fed`, `home` and `entered` record what the records alone ask for; no action
reads them but to keep them. Expressions have 1 to 4 bytes, which is what
`_bytes` holds and the tools write; the record has room for a size up to 255
(`dumpobj.cpp` 273), beyond 4 of which `dump()` would write past `_bytes[4]`.

The heading of a section is what `print_section()` prints: the `section` directive,
the name alone (of the predefined sections, and of one that is entered again), or
an empty line, which comes of a section without a name (`SEC_NONAME`) that is
entered again and of a section 5 that the module does not list: `set_section()`
tests for `section >5` (`zrdz_disassembler.cpp` 292) where the last predefined
section is 4 (`obj816.h` 135). `MCDumpObj`'s `Long` enters one. The origin is printed in three places only: `SEC_OFFSET` and `SEC_INDIRECT` of the
directive, and the `.org` of `front_matter()`.

`Listing` reads the listing as an assembler would, from what is printed and
without the comments: a section is at 0 until an origin has been printed, and an
empty heading leads nowhere (`Nowhere`). So two things are asked of a listing before the
properties speak of it: `Legible`, that each heading says its section, and, where
addresses are compared, `OriginShown` of the section. (That an empty heading cannot
mean anything shows in the assembler's own output: in `samples/labels.obj` each
`ends` is followed by a record that goes back to section 1, so what follows an empty
line would be put into the code.)

The symbols of a module are labels, equates and imports (`S_UND`), each a variable
or not (`SF_VAR`). Imports and variables are declared at the start
(`Declarations`) and are no labels. The assembler gives them section 255, which no
module lists (`samples/labels.asm` 8 and 31, `variable` and `extern_label`, and the
symbols of `samples/labels.obj`). A public variable of a section that is listed or
entered would be declared public twice, by `print_variables()` (213) and by
`print_globals()` (226), so `DeclaredOnce` excepts such a module's; `Odd` has
them.

**Variants.** An operator `X_How` before `X` is `X` with a bug that could be
in the code. No specification uses it; `PROJECT.json` names the property that
fails when it stands for `X`.

## What TLC checks

| run | question | bounds |
|---|---|---|
| `LinkModules` | every sequence of up to three files of one of five modules, and of up to two modules in a file; up to two (once three) libraries out of six, in up to two directories, whose modules ask for each other in a circle; eleven modules and three files with one thing wrong each, between good ones | 11658 states |
| `LinkEnds` | does the linker end on the libraries and on what is wrong? | 4262 |
| `ToolObjects` | links of two and three out of four modules, one with libraries, one over several pages, with and without `-S`, `-X` and `-C`, and links with expressions that cannot be converted among others that can, carried on to the file | 21785 |
| `OmfSave` | nineteen links with every form of record, ten of them with a distance between pages each, each setting of the flags; no file, or up to two writes that are short or fail | 150148 |
| `FoldExpressions` | every expression of up to five items over six operands and all operators, with two placements of two sections and two ways to merge them | 136888 |
| `DumpObjects` | every sequence of up to three records out of twelve, with at most one origin, under four sets of labels, with page0, code, data and a code section at 4; one long module; nine malformed ones; every three out of five records that put bytes into sections that only name places, or lead back, in modules with variables and imports of other sections; every four out of five records in a module with sections without names, one of which has an origin that its heading does not give; every sequence of up to three out of seven files | 71185 |
| `LinkLocations`, `LinkRefOnly`, `LinkSectionEnd`, `LinkSectionName`, `ToolStack`, `ToolBranch` | the disagreements below | until violated |

Why these bounds are enough to be of interest. The five modules of `LinkModules`
define, refer to and redefine the same names, in predefined, named and unnamed
sections that they number differently; three in every order give each name a
definition before, between and after its references. The libraries contain a
circle through three modules and a module that only a second round can ask for;
with `StaleLib` the dictionary names a module that is not there. `WordBits = 8`
wraps within the constants used, 16 in `ToolObjects` holds its addresses, 6 in
`FoldExpressions` wraps in sums and products of the operands. For `WdcLink` the limits are small enough to be
crossed both ways: `MergeLimit = 16` lies between the links that merge data into
the code's segment and those that do not, `ShortReach` and `LongReach` between
branches that reach and that do not; `PageSize = 4` rounds page0 up. `MaxShift`
is the code's own. In `OmfFile`, `Byte = 16` makes a page 16 bytes, so one page
can be full (the largest count), skips of 0, 1, 6, 7, 8 and more pages happen
(`SkipFlag = 8`), and values and offsets of two bytes or more; `MaxSuper = 3`
puts segments on both sides of it once they are renumbered; `Missing` has a
byte and more than most pieces have. In `WdcTool`, `Radix` is `OmfFile`'s
`Byte`, and `Places = 64` is more than the bytes and sections of any module, so
that the numbers of places differ. Five items of an expression are two binary
operators over each other in either order, or one and two unary ones; `Extent`
is the size of a section, beyond which comparisons have no meaning. The records of
`DumpObjects` leave instructions of each size unfinished before each other kind
of record, and its labels fall before, between, on and inside them; origins lie
after all bytes, as labels that have been passed are gone for good; those of `Odd`
lead back.

Properties, by what they are about:

- *the symbol table*: `TableConsistent`, `UndefinedListed`, `OperandsNamed`,
  `NothingUndefined`, `DefinitionsStay`;
- *the modules against the table*: `UndefinedExactly`, `DuplicateReported`,
  `LibraryModuleOnce`, `LibraryExhausted`, and `KeepsPromise`, the refinement of
  `LinkSpec`: a name is missing from its first reference until a definition, is
  defined once, and the link completes exactly when none is missing;
- *where things land*: `SymbolReferencesLand`, `ExpressionsPatchTheirBytes`,
  `EndSymbolAtEnd`, then `BytesPlaced`, `MergedFits`, `RecordsApart`,
  `NothingLost` of the segments, and `AddressesLoad`, `BranchesReach`,
  `BytesSaved` of the file. `AddressesLoad` goes from the source of a module to
  the output: it works out from the modules alone what the label of each operand
  is, finds that byte in the segments and asks that the file make the loader
  store its address in the bytes of the expression;
- *expressions*: `FoldingFaithful` (the value is that of the reference, wherever
  the sections are), `FoldingMoves` (folding, moving and folding again, as the
  linker does, is as good as moving first), `FoldingSeen` (`rv` tells whether
  something was folded), `EndsOnConstants` (what ends the process);
- *the file*: `RelocationsSurvive`, `OtherBytesStay`, `PiecesAdjoin`,
  `ExpressLeads`, of the segments that are whole after faults;
- *the listing*: `BytesReassemble`, `SpaceReassembles`, `LabelsPlaced`,
  `LabelsFound`, `DeclaredOnce`, `ReferencesReserved`: what an assembler makes of
  the listing is the module that was listed. `LabelsFound` says which labels are
  lost: those inside a line, and in code those between an opcode and an
  expression that is not its operand;
- *ending*: `Terminates` and `ToolEnds`, under weak fairness of the next-state
  relation. The program is one thread that never waits, so a step that can be
  taken is taken; nothing more is assumed. `ListingAdvances` says the same of
  `wdcdumpobj` without fairness: every step takes something off what is left to
  do, and TLC finds no state without a step.

`TypeOK`, `FileTypeOK` and `ListingTypeOK` are the type invariants.

### Where the code and its words differ

Each has a run that violates one property, and an entry in `PROJECT.json` with
the line quoted: `LOC` operands are never moved to their module's part of a
section (`LinkLocations`); variables of several modules in `page0` and `udata`
overlap (`LinkRefOnly`); `_END_name` is lost when it is referred to before the
section is seen (`LinkSectionEnd`); the name of a section is never resolved
(`LinkSectionName`); `-S` adds two segments (`ToolStack`); a branch to another
segment is stored as one within its own (`ToolBranch`). Passing properties that would run into one of
these say so: `SymbolReferencesLand` is about expressions without `LOC`
operands, `UndefinedExactly` leaves the symbols of user sections open,
`ReferencesReserved` is about sections at 0, as `front_matter()` compares the
size of a section with an address (`zrdz_disassembler.cpp` 113),
`PiecesAdjoin` excepts the version 1 segment that ends with a block: "version 1
needs 512-byte padding" (`omf.cpp` 624), but there `512 - (offset & 511)` is a
whole block, which the header's block count leaves out. (`MCSegmentLists` has
such a link; without the exception the run fails. There is no run of its own for
it because `wdclink` cannot ask for version 1: `-1` is missing from its `getopt`
string.) `PiecesAdjoin` also allows a gap after `~ExpressLoad` when a segment's
name is longer than the 255 characters that its header takes (`omf.cpp` 183,
522), and `ExpressLeads` says nothing of the entries that 16 bits do not hold nor
of segments after a write that failed. `EndsOnConstants` states that every
operator of one operand ends the process when it is applied to a constant:
`unary_op()` switches on the operand's tag (`expression.cpp` 23).
`FoldingFaithful` leaves out comparisons of places outside their sections.

## What is proved

For every set of names, every command line (any number of files, libraries,
modules, sections, symbols and records) and every `WordBits`, from
`NamesAssumption` (the linker's own names are names) and
`CommandLinesAssumption` (inputs have the shape of a parsed file); those of
`BuildProofs` also for every limit on merging, reach of a branch, largest shift
and size of a page, from `BuildAssumption` (they are natural numbers, a page not
0). Those of `FileProofs` are about `save_omf()` alone: for every list of segments
that satisfies `SegmentsAssumption`, every setting of the flags, any number of
writes that are short or fail, and every size of a byte, a block and a name, from
`FileAssumption` (a byte has an even number of values from 4 to 256, `MaxSuper` is
at most the 12 of the code, a block is not 0).

| theorem | of | states |
|---|---|---|
| `TypeCorrect` | `LinkerProofs` | `Spec => []TypeOK` |
| `TableStaysConsistent` | `ResolutionProofs` | `Spec => []TableConsistent` |
| `UndefinedStaysListed` | | `Spec => []UndefinedListed` |
| `EverythingResolved` | | `Spec => []NothingUndefined` |
| `LinkerKeepsPromise` | | `Spec => LinkPromise!Spec` |
| `OutcomeIsSound` | | `Spec => []LinkPromise!Sound` |
| `DefinitionsAreFinal` | `HistoryProofs` | `Spec => DefinitionsStay` |
| `ListIsExact` | | `Spec => []UndefinedExactly` |
| `LibrariesAreExhausted` | | `Spec => LibraryExhausted` |
| `ModulesReadOnce` | | `Spec => [](TruthfulLibraries => LibraryModuleOnce)` |
| `OperandsStayNamed` | `PlacementProofs` | `Spec => []OperandsNamed` |
| `PatchesStayInPlace` | | `Spec => []ExpressionsPatchTheirBytes` |
| `DuplicatesAreReported` | | `Spec => []DuplicateReported` |
| `ReferencesLand` | | `Spec => [](OwnNames /\ OwnSections => SymbolReferencesLand)` |
| `EndsAreAtEnd` | | `Spec => [](TrueSizes /\ OwnSections => EndSymbolAtEnd)` |
| `SectionsArePlaced` | `BuildProofs` | `WdcSpec => []BytesPlaced` |
| `ExpressionsAreKept` | | `WdcSpec => []NothingLost` |
| `RecordsStayApart` | | `WdcSpec => [](ReservesOnly => RecordsApart)` |
| `MergedDataFit` | | `WdcSpec => [](TrueSizes /\ OwnSections => MergedFits)` |
| `FileTypeCorrect` | `FileProofs` | `FileSpec => []FileTypeOK` |
| `NoOtherByteChanges` | | `FileSpec => []OtherBytesStay` |
| `HeadersLeadOn` | | `FileSpec => []PiecesAdjoin` |
| `DirectoryLeads` | | `FileSpec => []ExpressLeads` |
| `ListingInvariant` | `ListingProofs` | `Spec => []ListingInv` |
| `ListingTypes` | | `Spec => []ListingTypeOK` |
| `BytesComeBack` | | `Spec => []BytesReassemble` |
| `SpaceComesBack` | | `Spec => []SpaceReassembles` |
| `LabelsInPlace` | | `Spec => []LabelsPlaced` |
| `LabelsAllFound` | | `Spec => []LabelsFound` |
| `SymbolsDeclared` | | `Spec => []DeclaredOnce` |
| `ReferencesGiven` | | `Spec => []ReferencesReserved` |
| `ListingGoesOn` | | `Spec => ListingAdvances` |

`Spec` is the linker alone, as in `LinkModules`; `WdcSpec` the whole tool, up to
the file, as in `ToolObjects`; `FileSpec` the writing of a file, as in `OmfSave`.
In the rows of `ListingProofs` `Spec` is that of `DumpObj`: `wdcdumpobj` on every
list of files, of any modules with up to 256 sections, any symbols and any
records, from `FilesAssumption` (inputs have the shape of a parsed file).

*Types* (`LinkerProofs`). `TypeOK` alone is not inductive: a module is read for
a file or for a library, and its index must be one of that list while it is
read. `TypeInv` adds `InputOpen`, which says so. There is a lemma for each group
of actions.

*The symbol table* (`ResolutionProofs`). `TableConsistent` is not inductive
without the rest: replacing an undefined symbol by its definition keeps the map
right only if the symbol is at the place the map gives. And that no symbol is
undefined in `simplify()` needs the set `undefined_symbols` to cover all
undefined symbols but the ends of sections, at every step from the first.
`TableInv` says all this of a table as `Table(S, M, U, E)`; the lemmas
`AppendDefined`, `AppendUndefined`, `ReplaceUndefined` and `MoreEnds` say that
the few things the code does to a table keep it, and one lemma per group of
actions cites them. `generate_end()` is reached with an empty list, so it
defines all that is left.

*The promise* (also `ResolutionProofs`). Each action maps to an action of `LinkSpec` or
to a stutter under `defined <- DefinedInTable`, `missing <- undefined_symbols`,
`outcome <- Outcome`.

*History* (`HistoryProofs`). `DefinitionsAreFinal` follows from `TableInv`: a
symbol is replaced only at the number that the map gives its name, and only if it
is undefined. `UndefinedExactly` compares the list with whole modules, so it
says nothing in the middle of one. `History` speaks of the symbols seen so far,
`SeenSymbols`, those of the module that is read up to `i`: each that refers is in
the table, each that defines is defined there, and nothing else is in it but
what the linker itself names. `AllSeen` turns this into the property where a
module ends.

*Libraries* (also `HistoryProofs`). `processed` holds module numbers and the next
round is what a set says, so a missing name could be forgotten between the two.
`LibraryInv`: while a library is read, each missing name that its dictionary has
is one whose module some round asked for, or is noted for the next round; and
what was processed was read. A round that finds nothing to do has read them all; the ones that a true
dictionary sends it to define what they are said to, and `HistoryInv` says that
what was read is not missing.

`ModulesReadOnce` is about the other direction: between the rounds, and between
two passes over the libraries, nothing is read again. `OnceInv` does not follow
the modules that were read but the names that are asked for (`AskedFresh`): a
name is noted while it is undefined, so nothing that was read to its end defines
it (`History`), and its module is not among what was read. A module asked for in
this round keeps that until its turn comes, since `processed` holds each number
once and equal modules have equal numbers. `TruthfulLibraries` is what this needs:
a dictionary that sends a name to a module without its definition has the linker
read that module in each pass; and `loaded` cannot tell equal modules apart.

*Expressions* (`ExpressionProofs`). That `simplify()` leaves no `SYM` operand
behind is a statement about a recursive function over the items of an
expression. It is proved by induction: `NatSets` is the principle for sets of
numbers, obtained from the library's facts about well-founded relations, since
the rule for predicates cannot be instantiated; `LoopRuns` says that the
function follows its definition for as many items as there are, and `FoldFree`
that no turn of the loop brings a symbol onto a stack without one.

*Placement* (`PlacementProofs`). `OperandsInv` makes `OperandsNamed` inductive:
an operand names a symbol by number, and its name is that of the module's symbol
through `local_symbols`, which `LocalsInv` ties to the table while a module is
read. `PatchesInv` says of each section that its expressions lie one after the
other and inside its data; `RecordsAdd` and `SectionsKeep` are the two ways a
section changes. For `DuplicateReported`, `DefinitionsInv` says that as long as
nothing was reported, the table has every definition read so far: the symbol of
its name `Fits` it, with its offset moved by a base beyond which the bytes of the
module's section are and below which those of earlier modules are (`Part`), in
sections that go on growing. A symbol that fits two definitions leaves no room
for a byte of the first at its place (`FitBoth`), so they agree, and they still
do when the ends have been generated (`Unique`).

*Where references land* (also `PlacementProofs`). `ReferencesLand` compares what
is left of an expression after folding with what its module wrote, so the
invariant, `LandInv`, follows a reference through all that happens in between:

- `NumbersInv`: the number of a module's section leads to the section of its
  name, and no two names share a section;
- `Whole`: the bytes of a module's section are in one piece of one section, from
  a base on, so that `Placed` finds each where the base puts its offset. What is
  read later goes behind it;
- `TableLands`: a symbol in the table that is defined is at the value, or behind
  the base, of its first definition (`LandsFirst`);
- `LocalsLand`: so is what `local_symbols` holds for the module that is read: its
  own definitions, which need not be global, and for the rest the table's symbol;
- `ExpressionsLand`: so is each operand of an expression, until it is folded;
- `EndNamed`: the ends that `generate_end()` writes over have names of the
  linker's own, so no symbol of a module is among them.

`SimplifiedLands` then says that `simplify()` puts the definitions in place of the
symbols and folds what it gets, `Folded` of the meanings, without having to know
the value. Both hypotheses are about the modules that were read and cannot be
spared. If a module defines `_BEG_` or `_END_` of a section, the linker's own symbol
is in the table before it, the definition is reported as a duplicate, and its
references go to the linker's (`OwnNames`). If a module gives two sections one
name, their bytes go to one section in the order of the records, each of the two in
pieces (`OwnSections`). All inputs of `LinkModules` satisfy both.

*Ends of sections* (also `PlacementProofs`). `generate_end()` takes the end of a
section from its `size`, to which `one_module()` adds what a module declares
before it has read one byte of it. The two meet again at the end of the module,
if it keeps its word (`TrueSizes`: its records put as many bytes into each section
as it declares, and it numbers no two sections alike). In between, `SizesInv` holds
the account of each number of the module that is read: `size` and the bytes put
so far (`Given`) are the bytes in the section and the sizes declared so far
(`Declared`). `TargetApart` says that the section in hand is that of no other
number, which is where `OwnSections` is needed: two sections of one name would
settle one account for both. `EndsApart` and `EndsSet` follow the symbols:
no two sections end in one, and once set it has the declared size. Without
`TrueSizes` the property is false: a module whose header is short has bytes
behind the symbol. All inputs of `LinkModules` and `ToolObjects` satisfy both
hypotheses.

*Segments* (`BuildProofs`). The inductive invariant is `BuildInv`, with a part
for each thing that has to be remembered from the start of
`build_omf_segments()` to its end:

- `Ready`: until then, what is to be handed over is what the theorems above say
  of the linking phases (types, `PatchesInv`, the flags of the predefined
  sections); building starts only when they are done, and they do not go on;
- `Shape`: `linked`, the sections as they were handed over, still has all that;
  the types of the segments and of `remap`;
- `PlacedInv`: for each section that the loop has been at, its bytes are whole
  where `remap` says; segments only grow, and a section is handled once, so
  `PlacedOne` and `PlacedStill` are enough for every step that places one;
- `ConversionInv`: which expressions have been moved by `remap`, and that all
  that remains of an expression but its place is as it was handed over;
- `RecordsInv` and `LostInv`: each record of a segment stands for an expression
  that has been handled; each expression that has been handled is a record, is
  one that needs none, or has been counted as an error;
- `OrderInv`: records of one kind are in order and records of two kinds apart.
  Within a section that is `PatchesApart`, an induction over its expressions;
  between sections of a segment, it is the order in which they were placed.

`ReservesOnly`, the hypothesis of `RecordsStayApart`, says that nothing is
assembled into `page0` or `udata`: "n.b -- UDATA and PAGE0 are ref only,
therefore no data is generated" (`link.cpp` 762). Without it the theorem is
false: `udata` is placed behind all sections of data but is converted as section
5, so its records would come before those of data sections with higher numbers.
All inputs of `ToolObjects` satisfy it. `SectionsArePlaced` and
`ExpressionsAreKept` need no hypothesis.

`MergedDataFit` starts from the same account: `LinkedInv` carries `SizesInv` to the
end of the link, where it says that sections are as long as their sizes (`Sized`).
`Crowded` compares a sum over all sections with the limit, once, before any of
them is placed; `SizeIsSum` names the function of its partial sums, by induction
(`SumsExist`). `MergedInv` says how long the first segment is at each turn of the
loop over the data: the partial sum (`Totals`) of the sections passed, but the code
counts from the start (`Ahead`) and `udata`, passed as section 5, only at the end
(`Later`). So the last turn has the whole sum, and what comes after, segments of
their own and records, leaves the bytes alone (`MergedAfter`). `TrueSizes` cannot
be spared here either: the sections of a module that declares less than it has
are merged by what it declares.

*The file* (`FileProofs`). `save_omf()` writes sizes before what they measure and
a directory after what it leads to, so the invariant, `FileInv`, has to carry
from one to the other:

- `LoopInv`: the segments differ from those of the link in their numbers only,
  one up with `~ExpressLoad`, and `given` in nothing; what step, segment and
  record there can be;
- `HelperInv`: what a `super_helper` holds are bytes and its page and count are
  behind the records that are left (`Behind`). A record has two bytes or more and
  records of a kind do not overlap, so a page has at most `SkipFlag` of them: that
  is why the count fits in a byte that is no skip, and why `assert(page >= _page)`
  holds. A count is stored in the byte before its offsets, which exists because
  the page in hand is part of the data (`AppendedFits`). A segment's relocs and
  intersegs use helpers of different kinds (`OwnKinds`), so that the second loop
  starts with one whose page is 0;
- `BytesInv`: the bytes of the segment in hand are those of the link but where
  a record is (`Faithful`), and its records are records;
- `PieceInv`: each segment saved has the header that leads over its bytes and its
  records (`IsPiece`);
- `PlaceInv`: where the pieces are. `offset` is the position in the file as long
  as no write failed (`Clean`); each piece that is whole leads to the place of the
  next (`Follows`), in version 1 by way of the padding (`RoundUp`, `BlocksReach`);
- `ExpressInv`: each entry that `~ExpressLoad` will hold is about the piece of its
  segment (`IsEntry`).

`PiecesAdjoin` needs a fact about sums besides: the room foreseen for
`~ExpressLoad` before the first segment is written is what its directory and
headers take, unless a name is longer than what is written of it, when it is more
(`RoomFits`). Sums are recursive functions, so it is proved by induction over
the segments: `Recursion` says that such a function has the values its definition
gives it, and `SumOneMore` that a sum grows by its last term.

*The listing* (`ListingProofs`). The methods of the disassembler have a lemma
each, about the object after the call, and the actions of `DumpObj` cite them.
What an assembler makes of the listing is a recursive function over its items.
The invariant is about an assembler that knows more than the listing tells it, the
origins of all sections and the section of each heading (`Knowing`, with `Outset`
and `Follows`); `KnowingRuns` and `PrintedKnowing` say that printing an item adds
one step to it and leaves the others, so that all else can be said of `Come`, the
state this assembler has come to. While records are read (`LiveInv`):

- `Listed`: each line and each label in the listing is where it belongs; nothing
  that is printed later changes that;
- `Sited`: the assembler is in the section in hand, at its `pc`, and in every
  other section where that was left. This is what `set_section()` has to
  restore, and what `space()` and an origin have to move;
- `Carried`: the bytes it has are those that were fed, but for those in hand,
  which follow;
- `Found`: a label is still to come and the listing has not stopped at its
  offset (`StillToCome`), or it was printed, once, where it is (`IsPrinted`), or
  the listing has gone past without a stop and cannot come back (`IsPassed`).
  The last needs origins that lead forward. It also needs `Settled`: with bytes
  in hand no label that is still to come has been passed, and `_next_label` is
  the least of them (`Known`), which `set_section()` and a label that is printed
  recompute;
- `Declared`: imports and variables are the first item and no other (`Opens`); a
  section's symbols are in the first of its headings, and `processed` says whether
  there is one;
- `Homes`: the addresses that the records alone give the sections are `pc` and
  the bytes in hand.

`Apart`, `Kept` and `Lasts` are what also holds before and after the records: a
section is as the module has it, and one that no record has entered has its
labels still, or its end, if it only names places; `Titled` keeps what the headings
say of the origins, and `Given` that one has been printed. `OverInv` says what has become
of labels and declarations at the end. The loops of `front_matter()` and
`back_matter()` are functions over the sections and over the offsets of labels;
`Front` and `Done` are their invariants, proved by induction (`NatSets`).

The theorems are about `Reading`, the assembler of `Listing`, which knows only what
it reads. `BothRead` takes the two through the listing side by side: the bytes are
always the same (`SameBytes`); without empty headings so is the section, and the
address in each section whose origin is 0 or has been printed (`SamePlaces`).
`OriginKnown` finds that heading for the sections of `OriginShown`, and `SameHere`
puts both together. So `BytesComeBack` has the bytes and their order of every
listing, and the rest under `Legible` and `OriginShown`, which are part of the
properties. Both are needed: `Plainer` in `MCDumpObj` has modules where they fail and
the properties would be false.

The invariant also shows what the run's inputs had not: addresses in the comments
of sections that only name places do not agree with the assembler's once a record
enters one; a label before its section's origin is printed at the origin
(`BeforeOrigin`); and a label that an origin leads back to is lost
(`OriginsForward`). The properties say so, and `MCDumpObj` has such modules.

`ListingGoesOn`: `ToDo` is a tuple of nine numbers, and each action makes one of
them less without touching those before it. For the loop of `space()` that is
`_next_label > _pc`, which `Clear` says at every turn. That a step can always be
taken until the program ends is the deadlock check of `DumpObjects`.

## What is only model-checked

Liveness (`Terminates`, `ToolEnds`): fairness and `ENABLED` are out of the
prover's reach. `Terminates` is checked on libraries and malformed inputs
(`LinkEnds`), where it is in question; `ToolEnds` on whole links.

What the folding of an expression computes: `Folding` uses `Bitwise`, with which
nothing can be proved, and `FoldingFaithful` needs the values. (`ExpressionProofs`
proves that the loop ends and which operands are left, `ReferencesLand` that what
is folded is what the module meant; neither says what it amounts to.)

`RelocationsSurvive` reads each value back from the bytes it was packed into: a
fold over the bytes of `SUPER` records, and sums of powers of `Byte`. What these
compute is an induction over data for each, and arithmetic that is not linear.
`AddressesLoad`, `BytesSaved` and `BranchesReach` read the file of a whole link,
where bytes are encoded places.

## What is not modelled

Bytes of object files and the checks of their headers; memory that runs out;
output on the terminal; the alignment, banksize and kind fields of OMF headers
and the load name, which nothing reads back; reserved space, always 0; what
`set_file_type()` sets, in a library that is not in the repository; symbols of the
types `S_REG`, `S_FREG` and `S_EXP` with the assertion they run into (`link.cpp`
696), and opcodes of an expression that fail the assertion at 737; the formats of options (`parse_ft`, `-o`, `-t`); `save_bin`, `evaluate_expression` and
`reserve_symbol`, which nothing calls; of the disassembler, inline data,
`bit_hacks`, REP/SEP tracking and the `analyzer`, which `wdcdumpobj` never turns
on; the texts of operands, expressions and debug records, and what `dump_lib`
prints of a library's directory. `disasm.cpp` is not built.

## Plan

Done, in this order: `Expression`, `Linker` with its properties and proofs,
`LinkSpec` and the refinement, `OmfBuild` and `WdcLink`, `OmfFile`,
`Disassembler` and `DumpObj`; then faults in `OmfFile`, `WdcTool`, `Folding`, and
the files and modules of `DumpObj`; then the proofs about the history of the
table, libraries, placement, segments, the file and the listing. Last, the proofs
that need hypotheses on the input: where references land, `EndSymbolAtEnd`,
`MergedFits` and `LibraryModuleOnce`. What is left is under "What is only
model-checked".
