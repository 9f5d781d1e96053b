# A specification of fdelta

fdelta is a Go package that encodes the difference between two byte slices as a
Fossil delta (`Create`) and applies it (`Apply`).  The TLA+ modules here model its
decoder, its encoder, the pool the encoder's tables come from and the two ends
together; TLC checks them on small instances, and TLAPS proves the safety properties of
each component, and of the two ends together, for instances of any size.  The two
implementations the package is tested against, Fossil's `delta.c` and the JavaScript
decoder, are modelled too, and the package is held against them, by TLC and by proof.

Source paths below are relative to the repository's root.

## The system

| Component | Source | State | Operations |
|---|---|---|---|
| Codec | `codec.go`, `checksum.go` | two constant tables | `appendInt`, `decodeInt`, `digitCount`, `checksum` |
| Decoder | `apply.go`, `errors.go` | one call's: the index into the delta, the total counted, the output | `Apply`, `AppendApply`, `OutputSize` |
| Hash | `hash.go` | the rolling hash of a sliding window | `blockHash`, `rollingHash.init/next/value`, `bucketIndex` |
| Encoder | `create.go` | one call's: the hash tables `collide` and `landmark`, the window, the best match, the delta so far | `Create`, `AppendCreate` |
| Scratch pool | `create.go` | `scratchPool`, shared by all goroutines | `getScratch`, `putScratch` |
| Word-wise comparison | `create.go` | one call's: how many bytes are the same so far | `commonPrefixLen`, `commonSuffixLen` |
| Reference implementation | `internal/cref/fossil/delta.c`, `internal/cref/cref.go` | one call's | `delta_apply`, `delta_output_size`, `delta_create` |
| JavaScript decoder | `internal/jsref/*.mjs` | one call's | `applyDelta` |

A delta is a header (the target's size and a newline), commands (copy: a count, `@`,
an offset, `,`; insert: a count, `:` and that many bytes) and an end (the target's
checksum and `;`).  Encoder and decoder never meet: they share the codec and the
bytes of the delta, which anyone may have changed on the way, and each has the
source, which may not be the same one.  The only state that outlives a call is the
scratch pool.

What is hard about it:

* The decoder takes any bytes.  It validates in one pass (`planApply`) and copies in
  another (`execApply`) that checks nothing: its safety is that the second pass walks
  over what the first one walked over.  Counts, offsets and sizes are 32-bit numbers
  out of the delta that wrap when they have too many digits, and their sums must not.
* On 32-bit platforms lengths can be asked for that an int cannot hold.
* The encoder carries a hash along, follows chains through a table that is never
  cleared, extends matches backwards over what it has not yet written, and meets the
  target's end in three different places.
* It compares texts eight bytes at a time, forwards and backwards, next to both ends
  of both.
* The pool's tables are shared by every goroutine and keep their contents.
* A receiver with another source should notice, and the checksum is a plain sum.
* There are other decoders: what they accept, this one must, and the other way round.

For each component, what makes it correct: the decoder neither panics nor writes where it
must not, rejects exactly what the reference rejects, as far as the reference's ints go, and
produces the same bytes; the encoder's delta applies to the target in every implementation
and is not longer than a literal; tables from the pool are one call's at a time and behave
as new ones would; and the two ends together deliver the target.

`PROJECT.json` lists the hazards line by line with the properties that cover each.

## Modules

    Codec                       the format, as operators (codec.go, checksum.go)
      DeltaMeaning              what a delta means, whoever reads or writes it
      Decoder                   one call of Apply or AppendApply (apply.go)
      DeltaC                    delta_apply of the reference (delta.c)
        CodecStream             numbers written to a buffer and read back
        DeltaJS                 applyDelta of the JavaScript decoder
        DecoderAgainstC         Decoder held against DeltaC
        DecoderAgainstJS        Decoder held against DeltaJS
      Hash                      block hash, rolling hash, bucket (hash.go)
        Encoder                 one call of AppendCreate (create.go)
          EncoderAgainstC       ... its deltas read by DeltaC and by DeltaJS
        DeltaCreateC            delta_create of the reference (delta.c)
          RoundTrip             Encoder or delta_create, then Decoder; implements Transfer
      Transfer                  what Create and Apply promise together (abstract)
    MatchLength                 the lengths commonPrefixLen and commonSuffixLen return
      WordwiseMatch             ... and how they come to them (create.go)
    ScratchPool                 concurrent calls sharing scratchPool (create.go)

    CodecProofs                 induction and recursion; the codec; commands make a delta
      ReaderProofs              what delta.c and JavaScript make of a delta
        CodecStreamProofs, DecoderProofs, EncoderProofs
        RoundTripProofs         delta_create, and the two ends together
    MatchProofs, ScratchProofs  theorems about WordwiseMatch and ScratchPool
    SmallFormat, MC*            instances for TLC

### The format's sizes are parameters

`Codec` takes the number of byte values, the alphabet, the command bytes and the
width of a word as constants, `Hash` the window, the range of half a hash and the
multiplier.  The program's values are `ByteCard = 256`, 64 digits, `WordBytes = 4`,
`Word = 2^32`, `hashWindow = 16`, `Half = 2^16`, `phi = 0x9E3779B1`.  `SmallFormat` is
a format of the same shape in which TLC can meet every boundary: 16 byte values, 8
digits, words of two bytes, so that 255 is the largest number, three digits are
enough for a number to wrap, and a total, or an offset and a count, can overflow a
word within a delta of a dozen bytes.  As in the real format the digits ascend, have
command bytes between them, and the leading digit of the largest number is a partial
one.  Where half of the byte values must have no meaning, as those above 0x7f have none,
there are 32 of them in `decoder_short` and 128 in `encoder`, and words are one byte;
`codec_stream` has 32 and words of four bytes.
The theorems are about all such formats, the program's among them.

### DeltaMeaning

`Describes(d, src, tgt)`: the bytes `d` are a delta from `src` to `tgt`.  It says so
without a reader or a writer: there is a set of points (an index into the delta, and how
much of the target has been had before it) that has the point after the header, and with
each point either the one its command leads to or the end; a command adds just the bytes
of the target that come next, and the end has the target's checksum.  `Commands` is the
same of commands alone.  Only the proofs use it: it is the sentence in the middle that
lets a theorem about a writer and one about a reader be put together.

### Codec

`decodeInt(b, i)` returns the value and the index after it, as the Go function does:
an empty number is zero and consumes nothing, a long one wraps.  `appendInt` writes
the digits and the command byte that ends them.  `checksum` sums big-endian words and
counts what is left over as the leading bytes of one more; its unrolled loop is modelled
by what it computes.  `digitCount` rounds the number's bits up to whole digits, as the
code does with `bits.Len` (`bitsLen`), and never divides by 64, which is how `appendInt`
comes to its digits.  A position is 0-based as in the code.

### Decoder

Variables: the call (`api`, `origin`, `delta`, `dst`), `pc`, what `planApply` returns
(`limit`, `sum`, `body`), its loop's `i` and `total`, `execApply`'s `i` and `n`, and
memory: `mem` holds the caller's array and a freshly allocated one, `home` says which
of the two the output goes to.  `planned` is a history variable, the commands
`planApply` has passed and the totals before them; no guard reads it.

| Action | Code |
|---|---|
| `PlanHeader` | `planApply`'s header, lines 127-135 of `apply.go` |
| `PlanCopy`, `PlanInsert`, `PlanEnd`, `PlanUnknown`, `PlanUnterminated` | one iteration of its loop each, by the operator found, with its error returns in the code's order |
| `AllocApply` | `make`, and the call of `execApply` |
| `AllocAppendApply` | the length check and `slices.Grow`: in place, or moved |
| `ExecCopy`, `ExecInsert`, `ExecEnd` | one iteration of `execApply` |
| `Verify` | the checksum and the return |

A Go run-time panic is the absence of a step: `ExecFaults` says when the next
iteration of `execApply` would index or slice out of range, and `NeverPanics` that it
never holds.  `copy` truncates silently, as Go's does; `OutputFilledExactly` says
that it never has to.

### DeltaC

`delta_apply` as a recursive function over the position and the output, since it
writes as it parses.  It takes the lengths of source and delta as ints and returns one (`asInt`,
`passed`, `returned`): from half a word on the delta's is negative and nothing of it is
read, the output's is taken for an error, and the source's, cast to 64 bits, bounds no
copy any more, so that a copy may read outside the source (`Undefined`).  `intHolds` says
of a byte string that none of this happens to it, and the properties that hold the
package against `delta.c` are about byte strings of which it is true.

`cref_Apply` is the test harness's call: it asks for the size first, which is an int too,
rejects a negative one and stops at one above `maxHarnessOutput` (`TooLarge`).  The
checksum is the portable fallback's, one running sum per byte lane.  `digit_count`
shifts an `int` until it passes the number and does not return for the largest ones:
`Forever`.  `MaxDigitCount` is the bound `cref.go` computes to keep away from them.

### DeltaJS

`applyDelta` in the same form.  It differs from `delta.c` in four places that the model
keeps: digits are looked up by the low seven bits, the reader steps back by one byte
after a number even when the bytes have ended, an insert's count is held against the
delta's whole length, and a byte read past the end ends the call.

### DeltaCreateC

`delta_create`, as an operator, with one for each of its loops (`tables`, `best_match`,
`search`, `commands`): its search is the package's, its hash is over signed chars, its
tables have as many entries as the source has blocks, a bucket is a remainder and an
empty entry is -1.  It is given its lengths unsigned and goes by them as ints.  From
`MaxDigitCount` on it need not return, and neither the model nor the theorem about it says
anything there; `RoundTrip` takes its deltas as well, below that, as `cref.Create`'s
callers must.

### Encoder

One call, one action per iteration of each loop: `IndexBlock` files one block of the
source, `Outer` starts a search at `base`, `Probe` tries one candidate of the chain,
`Slide` moves the window, `EmitCopy` and `EmitRest` write, `Finish` ends the delta;
`Unrepresentable` and `ShortSource` are the two early returns.  `commonPrefixLen` and
`commonSuffixLen` are taken from `MatchLength`, by what they return.  The `collide`
table starts with what another call may have left in it: a pattern out of `Leftover`, over
and over (`used`).  In the theorems `Leftover` is any set of patterns, a pattern as long as
the table among them, so that any contents at all are covered.  `dst` starts
empty, as in `Create`: `AppendCreate` only ever appends to it.

### WordwiseMatch

One call of `commonPrefixLen` or `commonSuffixLen`, an action for each way through an
iteration of its two loops.  A word is a function from its byte's weight to the byte, and
`TrailingZeros64(x ^ y) / 8` the lowest at which two of them differ.  The arguments are
those `AppendCreate` can pass: it calls neither before a first byte has agreed, and never
lets a match reach back to the source's first byte.  The run has words of three bytes,
the proofs words of any width.

### ScratchPool

`Callers` run `AppendCreate` at once; the hashes, which decide what is filed and looked up,
are arbitrary.  Each step is what a call does for one block or one link of a chain, or one
call of `getScratch` or `putScratch`.  Two of these are more than a single access: `File`
reads `landmark` and writes both tables, and `Reuse` takes the tables out of the pool and
clears `landmark`.  In both the tables are the call's own from the first access on
(`TablesAreExclusive`), so that nobody can tell whether something came between.  `Reuse`,
`Replace` and `Allocate` are the ways through `getScratch`, `Put` is `putScratch` with its
cap. `sync.Pool` is external: `Get` may return any element or, with elements in the pool,
none, and `Vanish` is the collector taking one.  `Encoder` and `ScratchPool` overlap on
purpose: the first has the values and one call, the second the sharing.

### RoundTrip and Transfer

`RoundTrip` runs `Encoder`'s steps, hands the bytes over (`Send`) and runs `Decoder`'s, both
by `INSTANCE` with the delta as the shared variable.  Or the delta is `delta_create`'s
(`CreateInC`), where `cref.Create` would call it at all.  The receiver's source is the
sender's or a drifted one.  `Transfer` is the abstract specification: the target arrives;
or, with another source only, is refused, or is mistaken for bytes of the same length and
checksum.  Its fairness makes it a promise that one of these happens.

## Runs

| Run | Instance | Shows |
|---|---|---|
| `codec_stream` | up to 2 numbers out of 10 on both sides of digit boundaries, of `MaxDigitCount` and of an int's end, each with any of the 5 command bytes; words of 4 bytes | numbers are read back as written; `digitCount`, from the bits, is the length written by dividing and, below `MaxDigitCount`, `delta.c`'s; the checksum is `delta.c`'s lane sum, with 1, 2 or 3 bytes left over |
| `codec_sort` | the same | **violated**: the encoding does not sort as the numbers do (`codec.go:5-7`) |
| `decoder_short` | every body of up to 5 bytes out of those the decoders tell apart, after each of 2 headers, and of up to 4 after 2 more (one that wraps around, the largest number); bodies and headers with bytes of the upper half; deltas without a header | returns, no panic, agreement with `delta.c` and with the JavaScript decoder, exact `OutputSize` |
| `decoder` | deltas assembled from commands whose counts and offsets lie on the boundaries (0, the source's length, the largest word, numbers that wrap), cut and broken, three kinds of `dst`; up to 3 commands, a source of 5 bytes and one of 200, which `delta.c` could not measure | the second pass follows the first; filled exactly; `dst` untouched; nothing written on rejection; each iteration advances |
| `decoder_int32` | an int of half a word's range | no length overflows an int |
| `decoder_invalid` | the same | **violated**: `ErrInvalidDelta` for a well-formed delta (`errors.go:6`) |
| `decoder_high` | the same as `decoder_short` | **violated**: what a browser applies is not always accepted (`codec.go:22-25`) |
| `encoder` | sources around one window's length, periodic ones and others, against every target of up to 9 bytes out of two; edited texts; inputs of exactly one byte too many, and targets as long as a length and as a readable delta can be; tables left full of one block number, of two or three in turn | rolling hash; candidates; chains; commands rebuild the target; browsers read the delta, and `delta.c` where its ints can hold the lengths; price; returns |
| `match_length` | every two texts of up to 5 bytes out of two, and three of 8, each from every position; words of 3 bytes | reads stay within the texts; the result is the common length |
| `scratch_pool` | 2 goroutines, 3 table pairs, lengths below, at and above the pool's cap | exclusive use; a walk finds the call's own blocks; table lengths; the cap |
| `round_trip` | deltas of both encoders; texts edited, cut, rotated and with runs; the right source, one cut short, or one with two bytes or words swapped | implements `Transfer`; only the source can be wrong |


The exact sets are in the MC modules, each named and commented.  Why they are enough:
every comparison in the decoder is between a number out of the delta and a length,
and the instances have numbers on both sides of each; three commands make a
total wrap, a header of three digits for a size to.  A window of two bytes makes a
dozen bytes of source six blocks and chains of several; targets of nine bytes give the
window seven places, and a copy costs six.  In the pool the third table pair is the
one neither goroutine holds.  In `match_length` a text holds no word, one, or two with
bytes left over, and a match ends in every byte of a word and between words.

Deadlock is checked in `scratch_pool`.  The others model one call that returns, so
their behaviours end, and the runs say `CHECK_DEADLOCK FALSE`.

### Where code and comments differ

The three violated runs are sentences that promise more than the code does.  `codec_sort` is
harmless: nothing sorts encoded numbers.  `decoder_high`: the comment explains why the
digits' table has 256 entries and not 128 by saying that the smaller one "would parse
differently here than anywhere else", and the JavaScript decoder of the same repository
(`internal/jsref/fossil-delta.mjs:75`) is one that looks digits up by seven bits; the delta
must be malformed, and `BrowsersRejectWhatIsMalformed` shows that high bytes are the only
way to tell the two apart.  `decoder_invalid` is about an error's class, on 32-bit platforms
only.

One run that passes disagrees with a comment too.  `cref_test.go:152-154` says that what
`delta.c` accepts this package accepts, which is `AcceptsWhatDeltaCAccepts`, and then that
the package "may be stricter, and is, on malformed input that delta.c happens to tolerate".
There is no such input: `RejectsWhatDeltaCRejects` and `AcceptsWhatDeltaCAccepts` together
leave no delta on which the two differ, in `decoder_short` and by theorem, as long as
source and delta are shorter than half a word.  Both are kept because they are the two
halves of what the tests assert; the findings quote the sentence.

Two more comments do not agree with each other.  `hash.go:61` says that the rolling hash's
arithmetic "really does wrap, and must", and `hash_test.go:46-55` that the sums stay within
their halves.  The test is right (`HalvesFit`); nothing depends on the wrapping.

`doc.go:7-9` says that `Apply` reports an error when the delta was built against different
base bytes.  `doc.go:49-52` takes that back as far as the checksum, a plain sum, goes, and
`Transfer` states what is left of it.

## Fairness

`Decoder`, `Encoder` and `RoundTrip` are sequential code that takes no lock and waits
for nothing, so a call that can take a step takes it: `WF_vars(Next)`.  That is all
`Returns` and `ImplementsTransfer` assume.  `ScratchPool` is checked for safety only and
has no fairness: goroutines may stop anywhere.

## Proofs

Every invariant that a passing run checks is also a theorem; what is left to TLC alone is
listed below.  All theorems are about every value of the constants that satisfies the
modules' named assumptions: `CodecAssumption` (the digits are distinct bytes in ascending
order, no command byte is a digit, a word is larger than a digit), `ZeroAssumption` (the
byte 0 is neither: to `delta.c` it is the end of a string) and `DecoderAssumption` (the
arguments are byte sequences, `dst`'s length is within its array).  `HashAssumption` says
that the weighted sum of a window fits half of a hash, as `hash.go` computes for its sizes;
`EncoderAssumption` and `WordwiseAssumption` that the texts are byte strings;
`RadixAssumption` that a digit is a whole number of bits; `StreamAssumption` that the
numbers written fit a word; `ShiftAssumption` that `delta.c`'s threshold is shifted out of
the word after `MaxDigitCount`, and `DigitCountAssumption` that an int can hold
`MaxDigitCount`, both as `internal/cref/cref.go:52-60` says; `HarnessAssumption` that
`maxHarnessOutput` is a number; `ScratchPoolAssumption` that table lengths are positive and
that there is at least one table; `RoundTripAssumption` that the texts are byte strings
whose lengths a word and an int can hold.  `WordAssumption`, that a word is `WordBytes`
bytes wide, is one that no argument rests on.

Two theorems about the JavaScript decoder have a hypothesis of their own, `AsciiFormat`:
digits and command bytes are in the lower half of the byte values, as the program's are.
It is not an assumption of a module because the instance in which most runs are has only
16 byte values and its digits are everywhere among them.

The prover cannot instantiate an induction rule over predicates.  `CodecProofs` starts with
rules that have sets in the place of predicates (`SetInduction`, `StrongInduction`), and
shows that a recursion whose argument decreases has a solution (`RecursionExists`), without
which nothing can be said of a recursive function; `ReaderProofs` has the same of loops
that end in a value (`TailRecursionExists`).  All of what follows on `decodeInt`,
`appendInt`, `checksum`, the hash, and the recursive functions that are `delta_apply`,
`applyDelta` and `delta_create` rests on these.

### What a delta is, and who agrees on it

This is the middle of the proofs:

    AppendCreate  --CreateDescribes------->             --DescribedIsReadByC-->   delta.c
    delta_create  --delta_createDescribes->  Describes  --DescribedIsReadByJS-->  JavaScript
                                                        --DescribedIsRemade-->    Apply

and back again: what a reader accepts describes what it returned (`ReadByCIsDescribed`,
`ReadByJSIsDescribed`, `AppliedIsDescribed`).  The two theorems about `delta.c` as a reader
need that source, delta and target are shorter than half a word, 2 GiB in the program, or
its ints are negative; `delta_createDescribes` that source and target are shorter than
`MaxDigitCount`, 1 GiB, or it need not return.  The package and the JavaScript decoder
have no such limit short of a word.  From these follow the properties that compare two
programs:

* `CReadsWhatIsCreated`, `JSReadsWhatIsCreated`: `delta.c`, within its ints, and browsers
  make the target of every delta of the encoder's;
* `AcceptsAsDeltaC`, `RejectsAsDeltaC`: within the same limits, the decoder accepts what
  `delta.c` accepts, with the same output, and, if the harness makes room for it, nothing
  that `delta.c` rejects;
* `BrowsersReadAlways`, `BrowsersRejectAlways`: the same of browsers, the second of them
  for deltas without high bytes only, which is what `decoder_high` shows to be necessary.

How each side is proved:

* *The writers.*  `CommandsFollow` joins commands for one stretch of the target and
  commands for the next (numbers read the same wherever they are: `DecodeElsewhere`);
  `LiteralRebuilds` and `CopyRebuilds` are the two kinds; `CommandsDescribe` adds header
  and checksum.  The encoder's inductive invariant is `Rebuilt`: at every `pc` the delta
  so far is a header and commands for the target up to `base`, and the best match is a
  match.  Of `delta_create` the same is shown by an induction over the bytes left
  (`RemainingMeans`).  Neither proof says anything of what hashes and tables lead to: a
  candidate may be any block, since each match is compared byte by byte
  (`candidateMatches`, `matchFits`).  Of the hash it only matters that it keeps to its
  types.
* *`delta.c` and JavaScript.*  Their loops are recursive functions of a position and the
  output so far.  One direction follows the points of a delta's trail; the other builds
  the set of points out of the rounds that were gone through, by induction over the bytes
  left.  `getInt` and `Reader_getInt` are shown to read as `decodeInt` does, the second
  for bytes that mean the same to a table of seven bits.
* *The decoder.*  `Follows(src, tgt)` is inductive: the call is at a point of the delta's
  trail, what has been copied is the target so far if the source is the right one, and no
  error has come up that says more than that the source is another.  `FollowsAll` is that
  for every `src` and `tgt` the delta describes.  For the way back `MadeInv` collects the
  points: `planApply` walks over them, and `execApply`, going over the same ones, says
  what each adds to the output.

`CommandsAlwaysRebuild` says of an unfinished delta that the commands written by the time a
window is looked at, closed with a header and a checksum (`Cut`), are read by
`delta_apply` as the target up to `base`, if its ints hold the lengths.

`LanesAgree`: the checksum word by word is `delta.c`'s lane by lane, for any width of a
word (it is a matter of moving sums out of sums modulo a word, and needs no power of
two); `ChecksumsAgree` is the run's property.

`RoundTripProofs` puts the ends together.  `RoundTripInv` says that until the delta is
made the encoder's invariants hold; that the delta then describes the target, whoever made
it; and that from then on the decoder's invariants hold and it follows.  Two theorems
about all of `RoundTrip`'s steps result: `OwnDeltasAreWellFormed`, that with another
source at most the source's length and the checksum tell; and `RoundTripTransfers`, the
refinement without its fairness: initial states are initial states of `Transfer`, and
each step is a step of `Transfer` or none that it can see.  The modules meet as instances
here (`EP`, `DP`), so the first lemmas say that a definition means the same in each.

### The components one by one

`CodecProofs`: `decodeInt` returns a word, at a position not before its start
(`decodeIntType`); `appendInt` writes bytes, as many as `digitCount` says and one
(`appendIntType`, `appendIntLength`: dropping a digit drops `digitBits` of the number's
bits, `DigitsAreBits`, so that rounding the bits up to digits counts the divisions,
`digitCountIs`); a checksum is a word (`checksumType`); and
`decodeInt` gives back every number a word holds from where `appendInt` wrote it,
whatever is around it (`NumberReadsBack`).  The last holds because the command byte is no
digit, so the reader stops where the writer did, and because the value read after each
digit is the quotient the writer had at that digit, too small to wrap.

`CodecStreamProofs` has the same of a stream: `StreamTypes`, `ReadsBack`.  The inductive
invariant says where in the buffer each number ends and that the reader is at one of
these places.  The property itself is not inductive: it does not say where the reader is.

`PricesAreLengths` follows from the same invariant, in two parts.  The property adds the
prices up with the library's fold, which takes the elements in any order: `SumsExist`
gives every set of writes its sum, such that any element may be the last one added, and
`FoldIsSum` shows that the fold, whatever it picks, yields these.  And `digitCount`, which
rounds the number's bits up to digits, and `delta.c`'s `digit_count`, which multiplies
a threshold until it is larger, both find the least power of `Radix` above the number
(`digitCountIsPower`, `digit_countIs`), the second up to `MaxDigitCount`: after that the
threshold is zero and stays zero, so that the loop does not end.  This is where
`ShiftAssumption` is needed: with digits or words that are no whole number of bits wide, or
a sign bit where a digit starts, it would stop earlier or later.

`DecoderProofs` proves eight invariants and an action property of `Decoder`:
`TypeInvariant`, `ReplayFollowsPlan`, `NoPanic`, `OutputFilled`, `DstNeverWritten`,
`RejectedUntouched`, `LengthIsAnInt`, `OutputSizeExact` and `EveryIterationAdvances`.  The
argument:

* *The inductive invariant of the two passes* is `TypeOK` with `ExecFollowsPlan` and two
  more parts (the first command is planned with a total of zero; when the replay has
  ended, it has produced `limit` bytes).  `ExecFollowsPlan` says that the set of
  planned positions is closed: each has a command that was found within bounds, and
  the position after it, with the total after it, is planned too, or is the one
  `planApply` is at.  Closure is what makes it inductive: the replay starts at a
  planned position and each of its steps goes to the next.  That `planApply`'s own
  current position counts as planned is what lets one step add to the set without
  breaking closure.  That the replay does not panic and that its output is full follow
  from where it is.
* *The inductive invariant of memory* says what both arrays hold at each `pc`: as long
  as nothing has been allocated, the caller's array is what it was and the fresh one
  empty; afterwards the output's array reaches to `start + limit`, and the bytes up to
  `start` are the caller's.  The theorems about `dst`, about rejection and about lengths
  follow.

`EncoderProofs` begins with the hash: both sums of a window fit their halves, so that
packing them carries nothing over (`HalvesFit`); `rollNext` keeps the sums of the window it
moves to, modulo their range (`rollNextRolls`); an index made from any hash is within its
table (`bucketIndexInTable`).  It then proves every property of `Encoder` except that it
returns; besides those above `EncoderTypes`, `RollingHash`, `OwnBlocks`, `Descending`,
`NeverLonger`.  The inductive invariant of these is `TypeOK` with

* `Filed`: entries of `landmark`, and of `collide` for the blocks filed so far, are zero or
  blocks filed before, in the same bucket.  Of the other entries of `collide` nothing is
  said.  `bucketsForEnough` shows that there are no fewer buckets than blocks, so that
  filing a block stays within the tables.
* `AtWindow`: the window lies within the target, the hash carried along is the one that
  `rollNextRolls` keeps, the candidate is a filed block of its bucket, and the best match
  ends within the target and is worth its price.

`TypeOK` alone is not inductive: that a candidate's match stays within the source needs
that the candidate is a block of it, which is `Filed`.  `NeverLonger` needs one more,
`Cost`: the delta so far is no longer than its header and the part of the target it
accounts for, plus one literal's command once all of it is accounted for.  A copy keeps
it because its price covers its own command and that of the literal before it; only the
last literal is paid for by nothing, and its count has no more digits than the
target's length (`digitCountMonotone`).

`MatchProofs` proves all of `WordwiseMatch`: `MatchTypes`, `MatchReadsInBounds`,
`MatchIsCommonLength`.  The invariant is that the bytes passed are the same; that the
first difference within two words is the first of the texts needs that the word is read
the right way round, which is where the two directions differ.

`ScratchProofs` proves every invariant of `ScratchPool`, for any number of goroutines,
tables and table lengths: `PoolTypes`, `ExclusiveUse`, `LongEnough`, `SmallPool`,
`WalksFindOwnBlocks`.  The inductive invariant has two halves.

* `Inv`: types; a call at work has tables that are neither pooled nor another call's and
  that are long enough; pooled tables are within the cap.  A call that begins takes
  tables out of the pool or makes new ones, so nobody has them (`BeginKeepsInv`); a call
  that ends gives up its own.
* `Chains`: in the tables of each call, the head of each bucket is the newest block the
  call has filed there, and each filed block's entry in `collide` is the one before it in
  the same bucket.  Of entries that are not a filed block's nothing is said: they are
  what other calls left, and no chain leads to them, since `landmark` starts cleared.
  This is the comment at `create.go:269-271` made precise.

The halves need each other: that a chain can be followed at all without leaving the
table (`Inv`) holds because it leads to filed blocks only (`Chains`), and that nobody
else writes to a call's tables (`Inv`) is why its chains stay as they are.

## Only model-checked

* Liveness: `Returns`, and that `Transfer`'s outcomes come about (the fairness in
  `ImplementsTransfer`).  Outside the prover's reach, as is `ENABLED`.
* The three sentences of the runs that expect a violation: there TLC shows the contrary.

## Not modelled

* `delta_analyze` and the byte-order variants of `checksum` in `delta.c`, `createDelta`,
  `getDeltaTargetSize` and the string variants in `fossil-delta.mjs`: nothing in the
  repository calls them.
* The unrolling in `checksum` and `blockHash`: what the loops compute is modelled, and that
  they compute it is not shown.  That `sync.Pool` hands a table to one call at a time is
  taken from its documentation.
* How evenly `bucketIndex` fills the table, running time, and how the package's deltas
  compare in size with `delta_create`'s: `create.go:63-65` says the same size, `doc.go:39-43`
  within a fraction of a percent on a corpus; these are statements about data.
* What `delta.c` does with lengths its ints cannot hold, beyond that the model keeps the
  conversions and marks a read outside the source; and `delta_create` from `MaxDigitCount`
  on.
* Overlap of `dst` with `origin` or `delta`: the caller's duty.
* `Create`'s allocation policy, the cgo harness, tests, fuzzers and CI.

## Plan

Done, in this order: `Codec` and `CodecStream`; `Decoder`, `DeltaC` and their comparison;
`CodecProofs`, `DecoderProofs`; `Hash`, `Encoder`; `ScratchPool`; `RoundTrip` against
`Transfer`; `ScratchProofs`; `WordwiseMatch` and `MatchProofs`; `DeltaJS` and the
comparisons with it; `DeltaCreateC` in `RoundTrip`; `EncoderProofs`, `CodecStreamProofs`;
`DeltaMeaning`, and on it `ReaderProofs`, the agreement of the decoders and
`RoundTripProofs`.

Worth doing next:

* The safety half of `Returns`: a measure that each step of `Create` lowers, and that
  until it is done some step's guard holds.  Fairness would then be all that is left to TLC.
* The same of `Decoder`, whose `EveryIterationAdvances` is half of it.
