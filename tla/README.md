# TLA+ models of forth-vm-evolution

A Forth system (an engine in C, a kernel and a shell in Forth, written for many
token encodings), a converter that lays a dictionary out for an encoding, and an
evolver that searches the design space for weeks at a time, unattended.  The modules
here describe the parts that keep state over several steps, calls, processes or
passes, where a test reaches one order of events and the program meets them all.
TLC checks small instances; TLAPS proves what matters most for every size.

    tlc -workers 2 -config <cfg> <module>      # the runs are listed in section 3
    tlapm FileIO_proofs.tla

Line numbers are those of the sources beside this directory.


## 1. The system

### Components, their state and operations

| Component | Source | State | Operations |
|---|---|---|---|
| File words | `engine/vm-lab.c` 1248-1410, 2288-2480 | per descriptor a kernel offset; `t_fb`, FBUFN read-ahead slots; `t_seek0` | OPEN-, CLOSE-, READ-, WRITE-, REPOSITION-, DELETE-FILE, READ-LINE, WRITE-LINE, FILE-POSITION, FILE-SIZE, READ |
| Redirection | `forth/shell.4` 2584 | descriptors 0-2 | dup2, then CLOSE-FILE |
| Terminal output | `engine/vm-lab.c` 1250-1300, 1365-1382; `forth/file-sysc4.4` | `t_obuf`, `t_otty`; with `fsys` 4 the same in Forth | WRITE, every flush: before a system call, a read, an exit, a fault |
| Processes | `forth/shell-sysc.4`, SYSCALL | memory copied by fork, descriptors | fork, execve, wait4, dup2, exit |
| Input source | `forth/kernel.4` 766-815, 1073-1098, 1418-1498 | SRC #SRC >IN SID, INCLUDE-POINTER, HANDLER, the return stack | REFILL, EVALUATE, INCLUDED, CATCH, THROW, QUIT, WARM |
| JIT | `engine/jit.c`, `engine/spn-stencils.c`, `forth/cv8t-jit.4` | headers in the dictionary, `jit_k`, `jit_ic`, the code area | define, translate at first call, refuse, EXECUTE, MARKER |
| Converter | `tools/sod16.py`, `tools/layout.py` | the bodies' operations, FORCE_LONG, the image | read, splice, rewrite, shorten, encode, swap, drop, factor, place, relocate |
| Genes and genomes | `lab/evolve/evolve.py` 100-1050 | a genome; its id | draw, mutate, cross, borrow, repair, express, build |
| Evaluation | `lab/evolve/evolve.py` 650-790, 1290-1390 | directories of the workers, the environment, one round's times | build, check, measure at two widths, stop a stair |
| Pareto selection | `lab/evolve/evolve.py` 1583-1790, 2336-2430 | counts, fronts, archive; islands and attic | dominates, fronts, first_front, survive, migrate |
| Evolver's run | `lab/evolve/evolve.py` 1300-1390, 1780-1805, 2213-2400 | population, records in memory, database on disk, the screen's model | ask, screen, gate, measure, save, load, survive |
| Run chain | `lab/evolve/chainctl.py`, `next-run.sh`, `remote-checks.sh` | a directory per chain, its status file, its session, a lock | start, stop, pack, recover after a power cut |
| Compiler, dictionary, numbers, loops | rest of `forth/kernel.4`, `coreext.4`, `locals.4` | dictionary, wordlists, STATE, BASE | the words |
| Shell | `forth/shell.4` | variables, environment table, jobs, functions | commands, pipelines, loops |
| File words in Forth | `forth/file-sysc{,2,3,5}.4` | as the native ones, for the genes fsys 1, 2, 3, 5 | the same words over SYSCALL |
| Other encodings, cross compilers | `forth/cross.4`, `cv8*.4`, `spn*.4`, `cpt16.4`, `sod16.4`, `engine/spn*.c` | none beyond a pass | translate |
| Pools, saved systems | `forth/pool.4`, `forth/save-system.4` | buffers outside the image | allocate, reset, save |
| Reports and analyses | other `lab/evolve/*.py` | none | read a finished database |

### How they interact

A Forth program runs on the engine one primitive at a time.  The file words and
the terminal words of one process share its descriptors with the kernel, and
with the processes it forks; so a byte the engine has read ahead, or holds back,
is state another actor does not see.  The shell is such a program: it moves
descriptors with dup2 under the engine's buffers and forks while they are full.
The kernel's input words call the file words (READ-LINE for an included file)
and meet the exceptions, which cut the return stack their saved values are on.
The JIT keeps what it knows of a word by the word's address, while the
dictionary it is in is cut back by MARKER and grows again.

The evolver breeds genomes, which are names for designs: an engine compiled with
some macros, and a dictionary the converter lays out for it.  It builds each in a
worker, compares it with the cell engine, times it, and appends what it learns to a
file that is all a restarted run has.  The chain starts the evolver and what comes
after it, a step at a time, under a lock, and archives whatever happened.

### What is hard about each, and what makes it correct

* *File words.*  Reading ahead is invisible only if everything else that touches
  the descriptor gives back first what was not taken.  There are few slots, a
  descriptor number is used again, 0 marks an unused slot and is stdin too, and
  what cannot seek must not be read ahead at all.  Correct: every file behaves as
  if it had one position and delivered each byte once.
* *Terminal output.*  Holding output back is invisible only if nothing else gets
  out first: not a write on another descriptor, a child, another program, an end
  or a fault.  Correct: each byte comes out once, where it was written to, after
  what it follows, and before the program waits for the answer to it.
* *Input source.*  Sources are saved on the stack that THROW cuts, and lines in a
  buffer without an owner.  Correct: sources nest; each goes on where it was, whatever
  was thrown out of, and the lines still to be read stay.
* *JIT.*  A translation is reached by a header, by a table keyed by address, and by
  caches at each EXECUTE; a word may be refused for good or for now; an address may
  come to hold another word.  Correct: native code does what the word called does.
* *Converter.*  A dozen rewrites, each moving every offset around it; forms whose size
  depends on distances that depend on sizes; addresses of the old image in bodies,
  fields, links and tables.  Correct: the byte code does what the cells did, and
  everything that led somewhere leads there still.
* *Genomes.*  Genes claim codes from one small space and exclude or require each other;
  the id leaves out what is not expressed.  Correct: what is bred is buildable, and one
  id is one build.
* *Evaluation.*  Workers share directories, the 32-bit build and the environment.
  Correct: a design's record is what it would get alone.
* *Pareto selection.*  Dominance within tolerances is not transitive, so the usual
  shortcuts are unsound; a population of fixed size must keep families and genes.
  Correct: exactly the undominated, and nothing rare lost for good.
* *Evolver's run.*  A restart replays the generations from a database that holds
  more than the replay has come to, possibly with a line cut short, and second
  readings that were joined later.  Correct: the resumed run is the run of its
  seed, and measures nothing twice.
* *Run chain.*  Starts, stops, the chain's own end, and power cuts meet over one
  directory and one lock.  Correct: one measures at a time, and everything is
  archived or marked for the next start.


## 2. The modules

    FileTable <- LogicalFile                       abstract file words
        ^-------- FileIO <- MCFileIO, FileIO_proofs
    TermIO <- TermIO_proofs
    Nesting <-(refined by)- InputSource <- InputSource_proofs
    JitWords <- MCJit;  InputSource, MCJit <- MCForth
    Slots <- Genes <- Build, Variation <- Genome <- MCGenome, Genome_proofs
    Ops <- Rewrites <- Splices <- ByteCode <- Converter <- Converted -(refines)-> CellRun
    Ops <- Image <- MCImage, Image_proofs;  Converted, MCImage <- MCConvert
    Dominance <- Fronts, Selection, Trial;  Dominance <- FirstFront <- Pareto
    Fronts <- Pareto;  Pareto, Selection, Trial <- Pareto_proofs, MCPareto
    Breeding <- EvolveRun <-(refined by)- Evolve <- Evolve_proofs
    Chain <- Chain_proofs;  Chain, Evolve (an instance) <- MCChain

MCForth, MCConvert, MCPareto and MCChain each check machines that share no variable
side by side: a behaviour is one machine's, the others' variables stay put.

**FileTable.**  Bytes are classes (LF, CR, backspace, NUL, any other):
READ-LINE and READ tell no more apart.  `content`, `dir`, `desc`, `off` are the
kernel's side; what open(2), write(2) and lseek(2) do is modelled as the engine
uses it (external).  `res` is what the last word left on the stack.

**LogicalFile** is the promise: READ-LINE is one step, there are no slots, `off` is
the program's own position.

**FileIO** is `vm-lab.c`.  Each primitive is an action; READ-LINE is one step to
begin and one for each byte its loop gets, in three kinds (`LineByteRaw`,
`LineByteFill`, `LineByteAhead`: t_fgetc's three paths).  `t_fb` is the slots,
with the C fields; `Honest(fd)` is where t_fdrop's lseek leaves the offset.
`Redirect` is the shell's dup2 and CLOSE-FILE.  `OnePosition` says FileIO
implements LogicalFile: the refinement mapping subtracts from the offset what was
read ahead, or taken by the READ-LINE in progress.

**TermIO** is WRITE in both its forms, chosen by `level` (the gene fsys), and each
way out of the process.  A byte carries who wrote it, where descriptor 1 (or 2) then
led, and a vector clock, so that the order of output can be compared with what
its writer knew.  A blocking read or wait is two steps.

**InputSource** is the kernel's input variables and the frames EVALUATE, INCLUDE-FILE
and CATCH keep.  A line is its length, `text` is whose line each address of
INCLUDE-BUFFER holds.  **Nesting** is the promise: a list of sources and CATCH marks,
with no variables to restore.

**JitWords** is the translator's cache.  A word is the operations the translator
tells apart; its address is its place, so a word made after MARKER has the address of
the one forgotten.  `jit` is the C variables: `hdr` the four bytes of each JIT
header, `k` the table of words without one with their signatures, `ic` EXECUTE's
sites, `code` what was translated, each with what it *does* - its operations, with the
meaning the code it calls had when it was translated.  `Body`, `JitWord`, `Callee` and
`JitExec` are jit_body, jit_word, the callee loop and jit_exec as recursive operators
on that record, so a translation with all the translations under it is one step, as
it is in the program.  `NativeCodeIsItsWord` compares what is reached - by a header, by
a slot whose signature matches, by a site whose token and four bytes match - with
what the word does as bytecode now.

**Slots, Genes, Build, Variation, Genome.**  A genome is a record of genes.  Slots is how
opcodes are given out (bands of codes, the words sure of one, those that get what is
left); Genes is GENE_RULES, express() and the id; Build is what build() hands the
compiler, the dump and the converter; Variation is how genomes are made, a random draw
a set of results; Genome breeds them a step at a time.  `SameIdSameFiles` compares what
two genomes of one id build, over every variation step that is not expressed.

**Ops, Rewrites, Splices, ByteCode, Converter, Converted, CellRun.**  Rewrites is
read_ops in its order, each rewrite an operator on a sequence of operations; Splices is
hot_inline and guard_aborts; ByteCode is sizes, the fixpoint of short branches, padding
and encoding, as bytes (with one-byte calls of the words called most, or none), with the
two-bit tag, or as the 16-bit tokens of the sod16 and cpt16 families; Converter is the
pass over a dump and the retry with FORCE_LONG.  Converted then *runs* the word it produced, byte by byte,
and CellRun is the same word as the cell engine runs it: `DoesWhatItsCellsDo` is the
refinement of one by the other.  Run over all 8980 pairs of a body and a design,
ReadOps, Layout, the sizes and the failures agree with those of tools/sod16.py itself.

**Image** is layout.py's side: which words stay and in which order, where each lands,
the links names are found through, and everything that held an address.  `Leads`, `Field`
and `Back` are its relocations; the checks look names up as the engine does and
follow each address to what it led to in the dump.  `Dies` is what layout.py asserts;
what slotval swallows (section 5) is no death but a slot of 0, in `SlotLeads`, which has the
slots' width too.

**Dominance, Fronts, FirstFront, Pareto.**  `fronts()` and `first_front()` step by
step over the same records; Pareto runs one after the other to compare them.

**Selection** is rank(), survive(), the attic, the islands and migration.  Children may be
any designs.  **Trial** is evaluate() by several workers: what a design's engine does is
its *fate* at each width, the first check it fails and its time, size and memory; what
is modelled is which files, environment and references each check meets, and when one
round's times end a measurement.  The size and memory of the first round are taken as final, where
measure() takes the median memory of the rounds: a fate has one of each.

**Breeding** is what one generation computes from the records: pure functions.  The
evolver's draws come from `--seed`, so for one run "which child" is a fixed function
of its arguments; a fixed function stands for it, and a total order for NSGA-II's
rank.  **EvolveRun** is an uninterrupted run, a step a generation.  **Evolve** is the
process: records saved a line at a time, killed between lines or within one, loaded
and replayed.

**Chain** is the run chain: `dir` is what is on disk of each chain, `main` where its
script is, `start` and `stop` the terminals and the stop command, `pack` whoever is
archiving, `lockers` who has the lock open.  PowerCut clears everything but `dir`.

Definitions whose comment begins "Not the code" or "Mutant" are wrong versions of the definition
after them.  Substituted for it, each breaks the property it was written for: they
show that the runs would notice.


## 3. The runs

| Run | Module, cfg | Checks | Shows |
|---|---|---|---|
| file_write | MCFileIO, MCFileIOWrite | OneSlotEach AheadIsFresh OnePosition | reading, writing, repositioning and reopening one descriptor |
| file_slots | MCFileIO, MCFileIOSlots | AheadCanGoBack OnePosition | slots running out, numbers used again, a pipe, redirected stdin |
| term | TermIO, MCTermIO | OutOnce CausalOrder PromptFirst | a shell and a child, a terminal and a file |
| forth | MCForth | HandlerIsInnermost FilesInUseOpen NestsAsPromised LinesKept; NativeCodeIsItsWord BytecodeForAReason | sources and CATCHes three deep in any order; words made, translated, refused, forgotten and made again |
| jit_deep | MCJit, MCJitDeep | NativeCodeIsItsWord: **violated** | finding 3 |
| convert | MCConvert | NoCodeLeftAsData NeverAstray DoesWhatItsCellsDo; FindsTheDumpsWord LandsWhereItLed | every combination of two patterns through five designs, run byte by byte; a dictionary laid out by seven designs, a small one at two scales |
| genome | MCGenome | OpcodesApart OverlaysHaveTheirOpcodes SecondRepairIsEnough SameIdSameFiles | founders and drawn genomes, varied twice |
| genome_flags | MCGenome, MCGenomeFlags | SameIdSameBuild: **violated** | finding 2 |
| pareto | MCPareto | OnlyUndominated ArchiveApart SameAsFronts FrontsSort; NoFamilyDiesOut NoGeneForgotten; JudgedByItself StoppedIsDominated | both ways to a front, rings among the designs; survival over generations with deaths and migration; two workers evaluating |
| evolve_resume | Evolve, EvolveResume | NoneMeasuredTwice ReplayAsksTheSame SomeUninterruptedRun Finishes | two crashes anywhere, one within a line; the run comes to its end |
| evolve_gate_fork | Evolve, EvolveGateFork | ReplayAsksTheSame: **violated** | finding 1 |
| chain | MCChain | MeasureAlone NothingForgotten StatusTellsSteps StopEnds; EachReadingCountsOnce | two chains, a stop at any point, a power cut; and the search of a step with its gate and screen, killed twice |

### Bounds, and why they are enough

* *file_write, file_slots*: two descriptors (three in file_slots), a regular file and
  a pipe, slots of two bytes, files of at most `MaxLen` = 4.  Two bytes are a buffer
  that is empty, half taken or full; files of two to four span more than one fill.  One
  slot for two descriptors (FBUFN = 1) is the table at its limit, two are two that must
  not be confused.  The proofs hold for every FBUFN, FBUFSZ, descriptor, file and length.
* *term*: two processes, `MaxBytes` = 5 bytes in all, a buffer of 2, texts of 1 and 3:
  added to, filled exactly, one longer than the buffer.  A parent and a child are what
  a duplicate or an overtaking needs.
* *forth, the input source*: `MaxDepth` = 3 frames, lines of at most 1 word, files with
  descriptors 3 and 4.  Three frames are a CATCH between two sources and a source between
  two CATCHes; it has passed at depth 4 too.  `ROOM` is how far INCLUDE-POINTER may come.
* *forth, the JIT*: four dictionaries of at most five words.  `Chains` is calls nested
  deeper than the translator goes (depth 1 for JIT_DEPTH's 16) through words with
  headers; `Kernel` words without headers, a defining word's child, constants and a full
  slot table; `Executes` EXECUTE from two sites, one of them shared, over words remade at
  one address; `Cold` a cold word called from sites.  `mem` and `slots` are met at their
  limits, a word is one operation or two.  The four bugs of section 5 are left out by
  the choice of the setups: headerless callees are not met below the depth limit,
  there is one defining word, constants at one address differ in the bytes compared,
  and EXECUTE shares no site with a cold call.
* *convert*: two of 18 patterns one after another and a branch from the front to every
  operation, 1796 bodies in five designs (bytes with one-byte calls, bytes with nothing,
  twice the tag, 16-bit tokens; fused, specialised, guarded, swapped, factored).  A rewrite sees at most four operations, so two patterns
  hold what can stand at either side of it.  `Reach` = 10 brings the limit of a short
  branch within a body.  Swapped bodies that fail under the tag with `lean` are left out
  (section 5, convert_dropped).
* *convert, the image*: a 31-word dump with one of everything that holds an address,
  varied in how a deferral, an older word of a name, and the builtin table reach others;
  seven layouts, links scaled down to reach only `Near`, calls' addresses multiples of 1 and
  of 4.  A second dump, `MCScaled`, is laid out at scales 4 and 8: at 8 one variable's field
  is out of its slot's reach, another's within.  `SlotReach` is scaled down as well, to 200 and
  400: slots that reach their variable, lose its high bits and are 0 are all met.  No layout
  both gives (PARSE) the JIT's header and moves it among the primitives (section 5).  The run meets refused conversions as well as finished ones; no link is ever
  too long (proved, section 4).
* *genome*: from each hand-made or drawn genome two variation steps (mutate, cross,
  borrow, repair); of the choices of words the first n and the last n, of the sizes the
  larger: the fullest lists are where codes run out.
* *pareto, the fronts*: four designs out of records that trade four objectives against
  each other in steps just beyond, and just within, 2% and 8 KB.  Rings need three.
* *pareto, Selection*: five designs of two families with fixed records, a population of
  2, one kept for the knee, an attic of 2, one island or two, a migration every
  second generation, litters of 2, and at most one death after the founders: fewer places
  than there are families and genes to keep.
* *pareto, Trial*: two workers, four designs (two that are one at 32 bits, two of which
  one is reached by two-byte calls only), nine fates, batches of two, one round straying
  by 7% either way, STOP1 at 30%, one design audited.
* *evolve_...*: a population of two, 2 or 3 generations bred, 6 or 8 designs, two
  crashes; the second is the one that meets the database of a resumed run.
  `Cuts` says which crashes may cut a line: the first record saved after one is lost at
  the next start, so in evolve_resume only the last crash may.
* *chain*: two chains, one terminal, one power cut, lines of two steps.  One terminal
  gives two overlapping chains, since recover asks who is alive only once.  The
  search in it has `SCREEN_FROM` = 1 and an audit of every third design, so that each
  outcome of the screen happens in generation 1.  `Disturbed` is FALSE: with TRUE (the
  power goes, or another start clears up, while somebody packs) NothingForgotten is
  violated within nine states, as section 5 tells; MeasureAlone is proved for both.

Runs that may rightly stop say so (`CHECK_DEADLOCK FALSE`): in the file runs every
descriptor can be closed and the inputs used up; first_front ends; chains, bred
genomes and dictionaries reach their bounds.  term reaches its bounds and every process
may end.

### Fairness

Only `Finishes` needs any: weak fairness of the run's own steps (start, ask, save,
measure, select).  It is a single process that the run chain starts again after a
power cut, each of its steps is one the Python interpreter goes on with, and crashes
are bounded by `MaxCrashes`: a machine that is always switched off finishes nothing.
Crashes themselves are never forced to happen.  `StopEnds` is an action property: what
is so when the stop command comes back, not that it does.

### Assumptions that are not the code's

* `SoleWriter`: a file that is open for writing is open once.  The engine promises
  nothing else, and a second writer would show it (a file read ahead by one
  descriptor and written through another).
* A redirection puts a descriptor on 1, or 2, or 3 ... only where READ-LINE has no slot,
  and (`RedirectAnyKind` FALSE) a seekable stdin is replaced by a seekable one.
* Every write(2) to a terminal or file of TermIO succeeds whole; READ-FILE's and
  WRITE-FILE's errors in FileIO are a wrong access method and a write cut short.
* A program refills only through QUIT and INCLUDE-FILE (InputSource).
* The design has jitx: callees without headers are translated.  Hashes of signatures do
  not collide; no word has more than JIT_MAXOPS operations; the code area was got.
* What other words do when a converted word calls them is not looked at; 4-byte cells.
* A design's fate depends on its genes and width alone; a worker runs one design at a
  time.
* ps and the kills after it are one step, and SIGKILL ends what it is sent to; chains'
  names differ, session numbers are not used again; what happens at the remotes is
  not looked at.
* The tolerances are exact numbers, not floating point.


## 4. What is proved

`FileIO_proofs` proves, for any number of slots and their size, any descriptors,
files, pipes, contents, texts, counts and offsets:

* `TypeCorrect`, `OneSlotAlways`, `UnusedNeverMovesStdin`, `AheadAlwaysGoesBack`,
  `AheadAlwaysFresh`: Spec => [] of OneSlotEach, AheadCanGoBack and AheadIsFresh, which the
  file runs check, and of TypeOK and UnusedHoldsNothing, which they need.

None of them is inductive alone.  Their conjunction with two more, `RawUnlessSeekable` and
`SoleWriters`, is (`IInv`).  AheadIsFresh needs SoleWriters (the only one
who could write behind a buffer's back is the descriptor itself, and it drops its
slot first).  AheadCanGoBack needs RawUnlessSeekable: a slot on what cannot seek
holds nothing.  TypeOK needs AheadCanGoBack: t_fdrop's seek never goes below zero.
UnusedHoldsNothing needs OneSlotEach: a drop finds all that was read ahead.
The proof has a step for each action and under it one for each part of IInv the action can
disturb; lemmas say what t_fdrop, t_fslot, open and lseek do to the parts.
It assumes the constants' ASSUMEs only.

* `OnePositionAlways`: FileIO implements LogicalFile, if a seekable stdin is replaced by a
  seekable one (`RedirectAnyKind = FALSE`; section 3).

A READ-LINE under way has taken bytes its word has not delivered, so the refinement mapping
gives them back: to the offset of what can seek, to the content of what cannot.
`LineInv` says what the loop holds is a line it may still deliver - no LF, shorter than what
was asked for - and `SeekInv` that t_seek0, asked once, is still true of stdin.
With IInv, each step of the loop then leaves the abstract file as it is (`TookGoesOn`)
or is the whole of the abstract READ-LINE, and the read(2) that fills a slot and the
seek that empties one are no step at all: Honest(fd) is the same before and after.

`Pareto_proofs` proves of first_front(), for any set of designs, any records and tolerances:

* `Asymmetric`: no two designs dominate each other.
* `ArchiveApartAlways`, `TypeCorrect`.
* `OnlyUndominatedAlways`: first_front's result is what no design dominates.  The
  argument is what makes the shortcut sound: the archive always holds everything that
  is undominated so far (what it drops or passes over has a dominator), and the final
  check compares with every design of no more total, which, totals having no
  tolerance, is every possible dominator.  Transitivity is never used: it is false.
  The designs may be any numbers, finite or not, and the records any the tolerances
  compare.

and of fronts(), for any list of designs with any records and tolerances:

* `FrontsSortAlways`: every design is in one front, once; after all that dominate it, but
  for a ring, which comes last; and with one width there is no ring.
* `SameAsFrontsAlways`: first_front returns fronts()'s first front, where not every
  design has a dominator (with two widths a ring can be all there is: section 5).

`PeelFine` says what the counts are when fronts() comes to another front: of each design,
its dominators not in the fronts before the last (`Counts`), so that it is placed exactly
when all its dominators are in those (`Emptied`).  That takes a front to hold each design once
(`Once`), for a dominator that was in it twice would be counted off twice, and
dominance to be asymmetric, for the pair loop's `elif` would miss a dominator otherwise.

`NoRing` is the claim evolve.py makes of its tolerances (line 1515), and transitivity is no
help: a may be within the tolerance of b in speed while it gains in memory, and the other way
round, along a chain of any length.  The argument is a measure that falls.  Among designs of
the least total one that dominates is faster, or smaller, by more than the tolerance.
Give each memory level of MEM_TOL + 1 kilobytes 1 + SPEED_TOL times the weight of the
one below (`Weighted`; the levels are finitely many, so whole numbers do).  Being faster
by the tolerance outweighs the one level a dominator may be above, and
being smaller takes a level, which outweighs what it may be slower: speed times weight falls, or
stays and the memory falls (`WeighsLess`).  So a design of the least total, weight and memory
has no dominator.

And of Selection, for any designs, measures, families, sizes and numbers of islands:

* `NoFamilyDiesOutEver`: a generation's population has every family that its living
  candidates had, whichever island they were on, and as good a design by quality.
* `NoGeneForgottenEver`: while the attic has room, every gene value of a living candidate or
  of the attic is in the population or the attic after.

The inductive invariant (`SelInv`) says little: the islands and the attic are lists of
designs, and there are as many litters as islands.  The work is in what a step does.
Nothing on the way from candidates to ranking may lose a design: not fronts()
(`FrontsOfIs`: those left over, a ring, come last), not the sorts by crowding distance
(`SpreadIs`: the sums and products of `Crowd` are numbers, `CrowdIs`, for only a
design between two others has a `Gap`), not the joining (`FlatIs`).  What survive() cuts is
then behind each family's best and the knee (`ChosenIs`).  `KeepsOf(S, P)` says that P, of S,
has its families and its best; it holds island by island and so of all of them together
(`KeepsTogether`), and once more after migration (`KeepsOn`), because what migrates
alive was a candidate.  Peeled and FlattenSeq are recursive functions over a range of
numbers: `Recursion` says that there is one, `Agree` that there is only one, and
both take the least number where it fails instead of an induction.
The assumptions on the designs are that there are finitely many, that what was measured are
natural numbers, and that a design's family is one of FAMILIES.

`TermIO_proofs` proves, for any processes, files, texts, buffer and number of bytes:

* `TypeCorrect`.
* `OutOnceAlways`: what is written comes out once, to where it was written.
* `CausalOrderAlways`: no byte comes out before one its writer knew of.
* `PromptFirstAlways`: a process that waits for a line or for a child holds nothing back.

The invariant has four parts besides TypeOK, each of which needs the others.  `Held`: what
a process holds are its latest bytes, for where its descriptor 1 leads now, and it
holds them only while it runs or reads its terminal.  `Told`: no process knows of a byte another
still holds - the reason why every way to tell another something (a child, an end, a
byte of input) has its flush before it.  `InOrder`: each byte in a file follows none
behind it.  `NothingLost`: every byte written is where it was written to, or held by
a process that lives to flush it.  A flush is a run of bytes given to a file, so the lemmas are about runs: what
`out` is after one, and that it leaves the parts as they were for everybody else.

`InputSource_proofs` proves, for any line length, buffer, descriptors and depth:

* `TypeCorrect`, `HandlerInnermostAlways`.
* `FilesInUseOpenAlways`: a file words still come from is open, and once.
* `NestsAsPromisedAlways`: the kernel's variables and stack implement Nesting.
* `LinesKeptAlways`: no line still wanted is read over.

The invariant (`IInv`) adds, to TypeOK and HandlerIsInnermost (`Chain`), that every source
saved is of the kind of the frame that began it (`Sourced`): REFILL reads the next
line from SID because the innermost frame is a file, which is so only if what each
frame saved fits the frames below it.  FilesInUseOpen needs more (`Opened`): which
descriptor words came from at every depth, over CATCH frames, which keep a copy of a
source that is in use below; and LinesKept that INCLUDE-POINTER only grows up the stack
and is past each file's line begun on it (`Laid`), although THROW leaves it
where it is.  All are facts of a stack, so the lemmas are about stacks: what pushing a
frame and cutting back to one leave of them.  EVALUATE, INCLUDED and CATCH push, the ends
and THROW cut.  The refinement is the same: `NestPushed` says what a push adds to the
nest, `NestCut` what a cut leaves of it, and each word is one step of Nesting.  That no
frame between two of a source matters is proved by the least, or greatest, frame that
would (`LeastOf`, from well-foundedness of the naturals): induction without its theorem.

`Evolve_proofs` proves, for any population, designs, readings, fixed draws, screen,
audit, number of generations and of crashes:

* `EachReadingCountsOnceAlways`: two lines of the database about one design are a first
  and a second reading, however often the run is killed, with gate and screen on,
  crashes cutting lines or not.  It is of Evolve, which the run chain has an instance of.
* `NoneMeasuredTwiceAlways`: no design that was recorded is measured again, if only the
  last crash may cut a line (`Cuts \subseteq {MaxCrashes}`).
* `ReplayAsksTheSameAlways`: every generation a restart replays asks for what the
  first run asked, if moreover the fast gate is off (`FASTGATE = 0`); the screen may be on.
* `SomeUninterruptedRunAlways`: the run with its crashes implements EvolveRun, if moreover
  no generation is screened (`G < SCREEN_FROM`).

The assumptions are where the code does not do what it says (section 5): a line cut
short takes the next record with it; the gate's second reading changes records the
replay has used; a resumed run fits its screen at another generation.
The invariant is built up in that order.  `Fresh`: what is left to ask of a generation is
new - nothing recorded or asked for already, a second reading only of what has a first.
`Remembered`: what was ever saved is in memory while the run is up and among the
readable lines while it is down.  `Replays`: a generation depends on the records of
its own designs only, and with the gate off records only grow; so `Past(P, S, n, a, T)`
- populations P and sets S are what n generations with the questions a make of the
records T - is not disturbed by more records, and a restart, which has more than the run
had when it was there first, goes the same way.  `Latest`: what is on record beyond the
furthest generation's own records was made for it, so the step that selects it is the
uninterrupted run's.  Lemmas say of each helper of Breeding (`RankedAgrees`, `KidsAgree`,
`SurvivorsAgree`) that it looks at the records of its designs only.

`Chain_proofs` proves, for any number of chains, terminals and power cuts, any lines,
and packing disturbed or not:

* `MeasureAloneAlways`: two runs never measure at once.
* `OneChainInStep`: one chain at a time is between its lock and its release.

The invariant (`LockInv`) is that a script in a step has the lock's file open (`Has`) and
that all who have it open are of one chain (`OneChain`): the script and the copying to
the remotes it left behind.  Only Lock adds to them, and only when there are none; every
other step lets go (`LetsGo`): whoever is in a step was in it before and still has the
file open.  So what a step leaves of the lock is one lemma (`Going`), and each action
has to show only that it lets go.

With packing undisturbed (`Disturbed = FALSE`: section 5 tells what happens otherwise):

* `NothingForgottenAlways`: a chain that is over is archived whole, or marked for the next
  start, or somebody is archiving it.
* `StatusTellsStepsAlways`: a chain's status says what its steps say.
* `StopEndsAlways`: a stop that comes back has ended its chain and left it archived.

These hold together only (`AllFine`).  A chain's directory is fine when its archive, if
it has one, is whole and the chain over (`Sealed`); when a final status without an archive is
owed one by somebody (`Owing`); when its script's place in its line is what its
records count (`InLine`); and when its status tells its steps (`Tells`).  Who packs is
fine when what it packs is gone for good, or is itself the chain's script
(`PackFine`): so two never pack one chain's changing directory, and what a packer read of
it before the archive is still so after.  Each of the three writers of a status - the
script's traps, recover, the stop command - then has its reason to be right.

`Pareto_proofs` also proves of Trial, for any workers, designs and fates of theirs, tolerances, STOP1,
batches and generations:

* `TrialTypeCorrect`: a design is in one place (`InOnePlace`): to be taken, with one
  worker, done, or recorded.
* `JudgedByItselfAlways`: each is judged as it would be alone.
* `StoppedIsDominatedAlways`: what one round stops is dominated, if no round strays by more
  than STOP1 makes up for (`RoundsStrayLess`) and no speed rounds to zero percent
  (`SpeedsCount`; the code's are not whole percents).

That a directory is named by the design, not by what is built in it, is used once: no two
workers are at the same design, so what one builds, runs or removes is in nobody else's way
(`KeepsOthers`), even when both build the same 32-bit design.  `Fair` says of each worker
that its environment and its reference are of one width, which is 8 when it is idle
(`Swapped`); that the engine in its directory is the one it built (`Built`); that the
checks it has behind it are those its engine passes (`Passed`); and that what it returns is
the design's `Own`.  A step of a worker replaces its job by another, so each action
shows only that the new job is `Steady`, and the lemma `GoesOnFine` the rest.  `Stops`
adds that the stair holds only points of designs measured in a generation before, and that
a stopped design's points are beaten by one of them in full: `StoppedSlower` is the
arithmetic from one strayed round to the median of all.

`Genome_proofs` proves, for any founders, partners, drawn genomes and number of steps, any
pools of words, pairs and folds, lists of any length, and any choice of what is drawn:

* `BredCanBeDrawn`: what is bred is a genome random_genome could draw.
* `OpcodesAlwaysApart`, `OverlaysAlwaysHaveTheirs`.
* `TwoRepairsAreEnough`: rtloopall repaired twice is not blocked.
* `SameIdBuildsSameFiles`: one id, one set of files, over any variation step.

It assumes what the constants' ASSUMEs say: founders and partners are genomes, first
designs are drawn, the pool of format-10 words has the loop words.  BredCanBeDrawn is the invariant (`Inv`) the
others stand on, and the only one that is about steps: lists stay without repetition
and folds within FOLDMAX, whatever merges, swaps and repairs do (`MergedIs`,
`MutatedGenome`).  The rest is about any such genome.  Lists are kept, cut and put
together by one operator, `Kept`, and `KeptLaw` says what it gives: those elements, once,
in that order.  Of OpcodesApart the heart is that the free slots are without repetition and
in bands none of the other users has (`CodesApart`); of the repairs, that the first
brings all eight words into the list, with escape on if they got no slots, and the second
puts them first: only the words ahead come before them then, and escape's slots are enough
for those and eight more (`RoomForLoops`).
SameIdBuildsSameFiles goes through the settings of build() one by one: `Carried` says that
a gene one genome has in its id the other has at the same value, so that each condition
("the loop compiler is on", "there is a JIT") that drops a gene when it fails is
known from the gene's being there (`GatesCarry`); a setting is then the same
because its genes are the same, or because both genomes have the condition off.

`Image_proofs` proves, for every dump and every design, any hash, any lengths of names and
any reach of a link's forms:

* `LandsAlways`: in an image that is written, what was an address of the dump is the address of
  the same thing: calls, (POSTPONE)s and parameter fields in code, deferrals and buffers'
  links in cells, the builtins' list, the buffers past the image.  At a call scale up to the
  cell that holds of every variable's slot whose width reaches the field: a field is on a cell
  (`FieldOnCell`) and its word is never one that was left out (`SlotsWordStays`).  At scale 8
  with 4-byte cells the slot leads to its variable if the scale divides the field's address.
  What is excepted is what the code writes wrongly without saying so (section 5).
* `FindsAlways`: a name finds there the word it finds in the dump, and no link is longer than
  its form holds: the assertion of layout.py:899 never fails.

The invariant (`ImageInv`, proved in `ImageInductive`) follows the file's sections.  `TextFine`
and `SwapFine`: every body is its origin's but for calls sent from an X8 to its X, or a
buffer's, or an opcode's; an X has the body of the newest of its X8s.  `WordsFine` and
`DropFine`: who is left out is an X8, one of the dump tool or shadowed code, and a deferral
keeps the X8 it needs.  `BssFine`, `MoveFine`: a buffer was a data word, and what moved among the
primitives was the only one of its name.  `PlaceFine`: the words placed come before
all that are not, in order, each ends before the next begins, and each link fits its form
(`PutFits`: the form is chosen for three bytes more than the link can take).  `DoneFine`: an image is only
written when no assertion failed and nothing was reported.

Everything else is about one state, the finished one (`DoneFine`), and two facts
carry it.  Words are apart, so an address tells its word: two words have not the same
link, name, body, parameter field or entry of the builtin table.  And a deferral is not
sent to itself: LandsWhereItLed asks of a body in a new place that it still calls what is
older, not the word it now is, and that is `Defers` read once for the calls (`Redirected`)
and once for what may be left out (`StillOut`, the largest set nothing left in refers to).
The two walks, the engine's along a thread and the builtins' along their links, are recursive
functions over a range of numbers (`WalkExists`, by the least number where it
fails).  At each step of a thread fewer of its words remain behind, so that Cardinality(words)
steps get to its end (`Climb`).

What it assumes of a dump (`DumpOK`) is what the kernel and the compiler make:
references lead to words, the cells that hold addresses are those of DEFER's and BUFFER:'s words and
those save-system.4 names, there is one FORTH-WORDLIST, one DP and one BUILTIN-LIST, a
compiler's words are code, a slot leads to a data word older than the code that has it,
and the dump tool is loaded after the overlay's X8s (layout.py:370).  Of a design (`DesignOK`)
that tails come with classic headers (section 5), and that addresses are scaled only
without byte headers and the tag (layout.py:125, 131); and of the constants that the prologue is a whole number of cells, each form of
a link reaches something, a slot of two bytes no more than one of VARSLOT, and no two suffixed names are one name's.  Without the last X would have two
origins at once.  That a conversion is not refused is not claimed:
the run meets both.

Only model-checked, and why:

* NativeCodeIsItsWord and BytecodeForAReason: JitWords is recursive, a translation translates its
  callees.
* DoesWhatItsCellsDo, NoCodeLeftAsData and NeverAstray: reading, splicing and the
  fixpoint of short branches are recursions over an operation list of any length, that is
  inductions over data.
* `Finishes`: liveness.


## 5. Where the code departs from what it says

Found while modelling, each with a run that shows it:

1. **The fast gate forks a resumed run** (`evolve_gate_fork`; evolve.py:2266).  A second
   reading changes a speed survive() already used; the replay uses the later one.
   RUNNING.md:247: "a resumed run replays".
2. **Two builds under one id** (`genome_flags`; evolve.py:797).  A gene that the id leaves
   out for an encoding still reaches the compiler's flags: the files differ, the id does
   not, and the second design takes the first's measure.
3. **A callee refused for depth is called at no address** (`jit_deep`; jit.c:993).  Its
   slot is set to 0x80000000, "not yet", and that is read as its offset: `f < 2` does not
   refuse it.  jit.c:971: "callees first: native, or no translation".  On an engine with
   jitx, `: L0 MAX ;  : L1 L0 ;` and so on to `: L16 L15 ;`, then `1 9 L16`: segmentation
   fault.

Three more of the JIT's, seen on the engine and in the model; each setup violates
NativeCodeIsItsWord:

4. **A DOES> child's signature is its first byte** (jit.c:534).  jit_ksig ends at
   DODOES, so a child remade after MARKER by another defining word keeps the old one's
   code.  jit.c:529: "A signature that differs is a different word".  In MCJit: `Kernel`
   with the image's words `DefiningOf(<<O(3)>>), DefiningOf(<<O(4)>>)` and a child of
   either.
5. **EXECUTE's four bytes** (spn-stencils.c:315, "so a word re-made at the same address
   misses").  A long literal's higher half, or its opcode, is not among them:
   `: E EXECUTE ;  MARKER M1  4294967297 CONSTANT AA  ' AA E .  M1  MARKER M1
   8589934593 CONSTANT AA  ' AA E .` prints 4294967297 twice.  In MCJit: `Executes` with
   `BareOf(<<L(0)>>), BareOf(<<L(2)>>)`.
6. **The last site is shared with cold calls** (jit.c:272; spn-stencils.c:323 "the token
   fixed in the site's cache").  With the 4096 sites used up, EMIT compiled as a cold
   call after an EXECUTE at the shared site runs what EXECUTE ran.  In MCJit: `Cold` with
   one site, `ColonOf(<<X>>)` and `ColonOf(<<C(1)>>)`.

Seen, modelled as the code has it or left out as said, and without a run of their own:

*File words and terminal.*
* READ's answer about stdin is kept (vm-lab.c:1395): t_read asks once whether descriptor 0
  seeks; moved to a pipe later by dup2, it is read a block at a time and what follows
  the line is lost.  A second reader of the same offset loses as much (1397).
* READ-LINE drops a CR at a full buffer too (vm-lab.c:2342; the comment says only
  before the newline).
* stack_fault (vm-lab.c:745) ends the engine without the flush the other faults make: what
  WRITE holds is lost.  TermIO takes those bytes out of what OutOnce asks for.
* The native READ-FILE on descriptor 0 does not flush: a prompt may still be held
  while it blocks (vm-lab.c:2372; 1252 says any read of stdin).  PromptFirst leaves it out.
* t_flush drops what write(2) refuses and reports nothing (vm-lab.c:1290); descriptor 1
  is asked once whether it is a terminal (1380); WRITE in file-sysc4.4:27 counts the
  bytes before it has them.
* "A push is the only way either of them can grow" (vm-lab.c:441): SPILL of gen-tos
  stores the top too, unchecked when the stack is exactly full.

*Kernel.*
* INCLUDE under EVALUATE (kernel.4:1461): INCLUDE-FILE adds `#SRC` to INCLUDE-POINTER,
  inside EVALUATE the string's length, not that of the file's line, and a longer line is
  overwritten.  kernel.4:1459: "INCLUDE and EVALUATE nest in arbitrary order".  A file whose
  line is `S" INCLUDE inner" EVALUATE` and longer words after it ends with "Undefined
  word".  LinesKept leaves the case out.
* INCLUDE-POINTER is not in CATCH's frame (kernel.4:1085), THROW closes no file
  (kernel.4:1088); WARM's comment says it closes the files (kernel.4:1491).  Files nested
  with long lines can put the next line past the buffer's 512 bytes.

*Converter.*
* convert_dropped: layout.py:689 records failed short branches of a swapped body under
  the word it is put in, sod16.py:746 looks them up under the word it was read from; with
  tag, lean and a swap the retry fails the same way.
* shorten's "real offsets can only be smaller" is not so: padding and three-byte forms
  are not counted; the retry mends it.  There is no fixpoint of sizes: a call target at
  2^14 or above may end in the "body size drift" assertion.  16-bit long offsets are
  masked, not checked.  guard_aborts writes -1 unsigned, which takes a whole-cell literal.
* With jitimg, opinline and (PARSE) an opcode, (PARSE) is among the primitives and has the
  JIT's header: COMPILE,8 (cv8t.4:149) copies the JIT opcode.  layout.py:438 says what is
  below (PRIMITIVES-END) is an opcode.  Design a8a333d604 of seed 57 has the three.
* Without the tag layout.py:899 asserts twice what a link of two or three bytes holds
  (linkbytes, 156).  Nothing comes of it: links are sized so that they fit.
* remap_tail_addr (layout.py:1061) counts a tail's entries from the cell boundary after the
  code; emit writes the tail right after the code when headers are bytes, so an entry would
  be looked for up to a cell further on.  The designs with a builtin table have classic headers: so have
  Image's.
* A variable's slot that cannot be encoded is written as 0.  v8pfa and v8loc assert that
  the scale divides the field's address (layout.py:1185, 1190); slotval catches whatever they
  raise, "None during the sizing pass before the layout is known" (sod16.py:1188), and the
  bytes are written from `slotval(k, pl) or 0` (1237, 1239, 1281, 1283).  At scale 8 with
  4-byte cells a conversion can succeed with variables that lead to offset 0, which `MCScaled`
  meets.  Calls go through v8val, whose assertion (1180) is not swallowed, so a whole
  dictionary at that scale nearly always ends there first; the evolver's 32-bit measure
  caps the scale at 4 bytes (evolve.py:716).  A field 2^23 places away becomes 0 the same
  way; without VARSLOT a slot has two bytes, and a field 2^16 places away loses its high bits
  with no assertion at all (1197), in an image above 64 KB at scale 0.  A slot whose word was left out
  would become 0 as quietly, as _refs does not see slots: only an X8 loaded after the dump tool
  could have one.
* CALIGN is applied to headerless words only in the classic layout; _jitimg_pick compares
  relative offsets of calls with addresses, so that nothing lands inside a word is not
  checked; a variable holding an xt other than the named cells is copied with the
  dump's offset; _refs does not see DEFER cells, builtin xts or DOES> tails (such a drop
  ends loudly).

*Evolver.*
* A line cut short takes the next with it (evolve.py:1803): save() appends to the line
  without a newline; load() then skips both.  evolve.py:18: "never measured twice".
* The fast gate's second reading comes with a later batch: gated children of the last
  generation keep one (evolve.py:1330 "is measured twice"); a generation resumed in the
  middle has its gate computed over a part of it (2259).
* When the screen was fitted is in memory only, so a resumed run fits it at another
  generation (evolve.py:2238; lab/evolve/README.md:548 "a resumed run decides the same").
* With two widths three designs can dominate each other in a ring: fronts() then gives
  all of them as its first front, first_front() none (evolve.py:1660 says they are the
  same; FrontsSort's third part shows that one width has no ring).
* Crowding's extremes can be dropped (evolve.py:1705): with N = 16, family champions and
  the knee leave four places for up to eight of them.
* One repair of rtloopall's prerequisite is not always enough when the format-10 list
  exceeds the slots; a second is.  Words "sure of slots" may get none when there are two.

*Run chain.*
* The final status is written before the archive (chainctl.py:202): a power cut in between
  leaves a chain that recover passes over.  recover removes a .partial that is being
  written (258) and archives a chain that is only starting.
* Session numbers are used again (chainctl.py:67): after a reboot a stranger's session
  keeps a chain "running".  A chain can get two archives, or be "done" and then marked
  stopped.
* The copying to the remotes inherits the lock (next-run.sh:511): while it lasts the next
  step ends before its traps, unpacked until the next start.


## 6. Not modelled, and why

The map covers the parts that keep state or whose passes interact.  It is about a
seventh of the Python, and of the C and the Forth the parts that keep state; the rest
is mostly of three kinds: some 150 scripts of
lab/evolve and tools/ that read a finished database, price a gene or print a table
and keep nothing; option parsing, build command lines and templates of C; and tables of
data.  Their faults show in their output at once.

* The compiler and number conversion (kernel.4's rest), the cross compilers and the other
  encodings: one pass, no state over steps, compared by the repository's tests with golden
  outputs.
* Machine code: stencils, their sizes and copying, tail calls, fused pairs, stack caching
  (gen-tos.py, gen-msc.py, jitk, jittail): what an instruction does is below TLA+.  In
  JitWords a translation is the list of operations it stands for.
* Of the JIT: variables called by a word (a literal), the strings of (S") and (."), the
  throw path of jitmul, the interpreter entered from native code.
* Of the converter: DOES> entries and tails, REBIND, the alignment scaled calls want, and
  sod16.py's own round trip of its tokens; of the image:
  SCRUB, its header and the compiler's tables, placement of factored bodies.
* Of the evaluation: the jail and process groups of sh(), keep=, and the gate's second
  reading, which Breeding has.  Of selection: who is picked to breed, operators' chances.
* Of the evolver's run: --random, --until, one round first within Evolve (Trial has it).
* Of the chain: what a step does, the modes, the pull, monitor and status, the remotes.
* The engine's inner interpreter: each primitive a line of arithmetic.  The shell's
  grammar, environment table and jobs; the file words in Forth (fsys 1, 2, 3, 5); pool.4 and
  save-system.4.  The static runtimes: system calls only.


## 7. Plan

If the model is to grow: the Forth file words
(file-sysc5.4) as a second implementation of LogicalFile, the shell's jobs and its
environment table, and the loops' overflow arithmetic (`% 2^w`).
