# A verification of ngx_brotli

TLA+ models of the nginx brotli modules in this repository: the dynamic filter
(`src/filter/`), the static handler (`src/static/`), the headers they share
(`src/ngx_http_brotli_common.h`, `src/ngx_http_brotli_sha256.h`) and the
reference parser of the fuzz target (`src/fuzz/`), model-checked with TLC on small instances and
proved with TLAPS for every instance. `PROJECT.json` lists the runs, theorems
and hazards and maps each definition to the lines it models.

## The system

| Part | State | Operations | What makes it correct |
|---|---|---|---|
| **Body filter** (`ngx_http_brotli_body_filter`) | per response: `ngx_http_brotli_ctx_t` (flags, input chain, `out_buf`, counters, encoder), the shared bit in `r->connection->buffered` | called with a chain, or with NULL when the socket drains; initialises, frames dcb, appends, loops, closes | the stream is contiguous, complete, framed once, capped; it never hangs; encoder memory is stable while it is being read |
| **Encoder** (libbrotlienc, external) | what it holds, what it has produced | CompressStream, TakeOutput | the contract the filter relies on |
| **Header filter** | none beyond the request | eligibility, bypass, Vary, dcb/br decision, latch | who gets which coding; what caches are told |
| **Static handler** | none beyond the request | probe `<path>.br`, Vary, acceptance, latch, serve | the same, and that others still get their turn |
| **dcb negotiation** | `conf->dcb_dicts` | six gates and a hash lookup | dcb only for the holder of the dictionary |
| **Vary emission** (`ngx_http_brotli_vary_accept_encoding`) | the header list, `r->gzip_vary` | push or delegate to the core | never missing, never doubled |
| **`$brotli_ratio`** | `bytes_in`, `bytes_out` | long division in 64 bits, rounding | exact, no overflow |
| **Accept-Encoding parser** | none | one walk per line, folded over lines | what the field means, element by element; it always moves on |
| **no-transform walker** | none | one walk per Cache-Control line | the directive, outside quotes |
| **Dictionary loading** | `dcb_dicts`, order flags in the main conf | open (strict walk), read, hash, duplicate check, `init_main_conf` | only what the directives allow, or the configuration fails |
| **SHA-256** | 64-byte block | update, final | the digest |
| **Directives, merge, hooks** | `any_enabled` of the cycle, the filter chain of the process | set, merge, init | live somewhere means hooked, off everywhere means not |
| **Window** | `lg_win`: a size, then its logarithm | parse, merge, tune per response | the smallest window that serves, within the one asked for |

How they interact. A request goes through the static handler (content phase),
possibly another content handler, then down the header filters: brotli, gzip,
..., core. If the header filter creates a context, every piece of the body then
comes to the body filter, which hands compressed buffers to the next filter. A
worker is one thread, so a call runs to its end undisturbed; between two calls
of one response the event loop may run anything: more body, a NULL call from
`ngx_http_writer`, the write filter draining what it kept. The parts share the
request's header list, the gzip latch (`gzip_tested`, `gzip_ok`), `gzip_vary`
and the `buffered` bits. Outside nginx a shared cache may keep an answer and
replay it to others, long after a reload has replaced the dictionaries.

What is hard: the re-entrant body filter (partial writes, AGAIN, NULL calls,
flushes, an encoder that stops when a block is full, memory lent by the
encoder), the order of side effects in handlers that may still decline, the
agreement of decision and Vary across caches, arithmetic at the width of the
word, and configuration loading against a changing file system.

## Modules

| Module | Models |
|---|---|
| `BrotliEncoder` | the encoder contract: a call absorbs input, fills a block and stops, or performs its operation (external) |
| `BrotliBodyFilter` | the body filter, its callers above and its clients below |
| `ContentCoding` | abstract: what a body filter that applies a content coding promises |
| `BrotliNegotiation` | static handler and header filter between clients, a cache, other handlers, gzip and the core filter |
| `BrotliRatio` | the long division and rounding of `$brotli_ratio` |
| `QuotedStrings` | blanks and quoted-strings, octet by octet: the reading both walkers of header fields are held to |
| `AcceptEncoding` | the walker: quoted-strings, parameters, elements, lines, the field |
| `AcceptEncodingOracle` | `ref_accepts` of the fuzz target |
| `AcceptEncodingFields` | what a field means by the grammar: members, parameters and weights read off its octets |
| `NoTransform` | the Cache-Control walk, next to a reading of the value octet by octet |
| `DictionaryLoading` | the dictionary directives against a file system that others change |
| `DictionaryPolicy` | abstract: what the two policies promise of a configuration that loads |
| `Sha256` | how octets reach the compression function |
| `BrotliHooks` | the enable directives, merging and hooks, over reloads, failures and respawned workers |
| `BrotliWindow` | `brotli_window` from its size to the encoder's parameter |
| `MC...` | values of the constants for TLC |
| `Recursion` | what recursive functions over a range of integers and over lines compute, proved once for all who use it |
| `...Proofs` | theorems and proofs: body filter, negotiation, dictionary loading and both walkers in a module each; SHA-256 and ratio in `ArithmeticProofs`; hooks and window in `DirectivesProofs` |

**BrotliBodyFilter.** Variables have the names of the context's fields; `pc` is
the place in the running call (`idle` between calls, `entry` up to the append,
`loop`), `arg` its chain, `rc` its result. Bytes have no content: `pos` and
`last` are offsets into the body or into the stream, which is enough to see a
lost, repeated or reordered byte. One action per branch, in the order the code
tests them: `PassThrough`, `EnsureStreamInitialized`, `EmitDcbHeader`,
`AppendInput`; then `PushOutput`, `TakeOutput`, `Succeed`, `FinishStream`,
`AwaitInput`, `DropEmptyInput`, `CompressInput`, `ExceedMaxLength`, and one
failing action per error exit. The environment is `Feed` (a call with 1 to
`MaxLinks` buffers), `Writer` (a NULL call) and `Drain` (the filters below send
between calls). `client` is what went down; `fed` what came in. Window bits and
encoder parameters are left out: they only make initialisation succeed or fail.

**BrotliNegotiation.** `r` is the response in progress, `pc` where it is:
`static`, `handler`, `header`, `gzip`, `core`, `sent`. A response is its
status, declared length, codings (in the order applied), Vary lines (each a set
of header names) and the two gzip flags; `by` remembers who encoded it.
Accept-Encoding is, per coding, the weight's sign. The cache holds at most one
answer, with the request it was stored for; it may answer any later request
that agrees on all headers the Vary lines list. A location's configuration does
not change during a behaviour; its dictionaries may at any reload.

**BrotliRatio.** `RatioSpec`, with names of its own because `ArithmeticProofs` extends it
together with `Sha256`; they share no state. One action per digit found directly, one per subtraction step
when ten times the remainder would not fit; arithmetic modulo `Word`.

**AcceptEncoding.** Octets are members of `Chars`, `Lower` is how they compare.
`pc` is the loop the walk is in: between elements (`element`), at a parameter
(`param`), in the value of one (`value`), in the remainder of an element
(`rest`), between lines (`line`). `p` is the cursor of the code, `pp` the
caller's while parameters are evaluated. A loop that only moves the cursor is an
operator (`Past`, `Upto`); one that decides is an action per pass. The oracle
(`RefAccepts`) is the fuzz target's parser: each of its loops is a function of
the cursor, each pass an operator that is told what the passes after it return;
`Unsure` is its -1, and `NameChars` the octets it takes for a name. It was
written apart from the walker and knows less. `AcceptEncodingFields` says what a
field means without any cursor, by the grammar of RFC 9110: members and
parameters are what commas and semicolons outside quoted-strings delimit, a name
or a value is the word among the blanks there, a member with a malformed
parameter or two weights says nothing, and the latest member of all lines that
names the coding decides, else the latest `*` (`Meaning`).

**NoTransform.** One action per segment and per header; the list has parts, and
headers that were removed. `Says` reads the value by the three modes of
`QuotedStrings` (plain text, inside a quoted-string, after a backslash in one).

**DictionaryLoading.** `lines` are the directives still to come, `pc` the place
in the handler, `fd`, `next`, `rest` the walk, `size`, `bytes` the read. `files`
is the process's table of open descriptors: each `open`, `openat` and `close` is
a step of its own, and so is each refusal, with the close it makes itself
(`RefuseRoot` to `RefuseDir` in the strict walk), with `goto failed` and the close
at that label (`CloseFailed`), or with none, where nothing is open yet or any more.
When the policy is off the kernel walks (`Resolve`), links included, and holds no
descriptor. A byte is its
position in the file and the writing of the file it is from, so lost, repeated
and stale bytes can be told apart; the hash is ideal (the bytes themselves). The
file system is nodes with kinds, owners and modes, and directories whose entries
remember who made them. Between any two system calls `Deploy` (root) and
`OtherUser` (somebody else, where the modes allow it) rename entries and rewrite
files. A configuration that fails is dropped whole.

**Sha256.** The hash state is the sequence of blocks compressed. Updates may
come in any number of calls split anywhere, though the only caller makes one.

**BrotliHooks.** `stage` is how far the master is with a cycle: parse, merge,
the two postconfiguration hooks, the rest. `top` and `next` are the statics of
the filter chain, which belong to the process and not to the cycle; the
directives, configurations and latches belong to the cycle. `Fail` may happen at
any stage: the cycle in force stays, the statics do not go back. `Respawn` forks
a worker from the master as it then is. That is nginx's doing and external.

**BrotliWindow.** One action per pass of either loop. The window is proved for
every range, size and length, and no run is listed for it: `MCWindow` can be
given to TLC with the encoder's own range and sizes and lengths around every
power of two; TLC's integers have 32 bits, so `MaxHint` is smaller there than
0xffffffff.

## Runs

| Run | Shows |
|---|---|
| `body_filter` | nine properties of the body filter in every interleaving of callers, encoder and clients |
| `body_filter_liveness` | once the last buffer is in, the response completes or fails |
| `flush_bit` | **violation**: the `buffered` bit is clear although flushed input is still in the encoder |
| `negotiation` | seven properties of coding, latch (of responses that do not end with an error status) and Vary |
| `vary_lines` | **violation**: two Vary lines that name Accept-Encoding |
| `ratio` | digits exact, rounding right, no overflow, for every pair of counters |
| `dictionary` | whoever renames and rewrites what: clean dictionaries only under the strict policy, whole ones named by their own bytes, distinct, open at each call is what the loader still answers for, the abstract policy implemented; loading ends, FIFOs included |
| `accept_encoding` | agreement with the fuzzing oracle, elements begin at unquoted commas, the weight is what the field means by the grammar, every pass moves on and the walk stops only at its end |
| `no_transform` | found if and only if said outside quotes, on any line; the walk ends |
| `sha256` | the blocks are those of the padded message, the length is in bits |
| `hooks` | the workers a cycle starts are hooked if and only if needed, over reloads; inheritance by nesting |
| `hooks_respawn` | **violation**: a replacement worker without the hooks its cycle needs |

Bounds of `body_filter`: three body bytes in at most two calls of at most two
links, two output bytes per encoder call, caps none and 1. That is enough for a
buffer to be consumed in part, a block to stop an operation, two re-entries
with output half sent, a flush and the last buffer in one chain, empty links,
a cap reached in the first or in the second call. The liveness run takes one
link per call and two bytes, since TLC's liveness check is dearer.
`negotiation`: nine clients (a browser with each of two dictionaries,
cross-site, with the bypass cookie, a subrequest, a cleartext request, one
without br, wildcards with and without a refusal of br), six origin responses,
eight configurations chosen so that each directive takes each value.
`ratio`: `Word` = 64, every pair; both ways of finding a digit and all carries
occur.
`dictionary`: twelve configurations in which each flag stands before, between and
after dictionaries, twice, or not at all, with and without literals, in one
block and in two, and each kind of path the strict walk refuses by its name; two
directories, one of them another user's; renames that put
another user's file, a link, a FIFO, nothing or his directory in the way; one
file rewritten with 0 to 3 bytes under a limit of 2. A second file that changes
too adds no case, since one is read at a time.
`accept_encoding`: all sequences of up to four of thirteen pieces, at the start
and after a name, and of up to three inside a value and inside a quoted-string:
enough for a quote to open in a name, in a value or before an element, escapes
at the end, and commas inside each; and all pairs of elements on one line, and
triples on two whose first two have weights, of each well-formed form and each
way to be malformed. `ElementsRead`, evaluated before the run, compares what each
of these elements means by the grammar with what it was written to mean.
`no_transform`: a one-letter directive in two cases, every value of up to four
octets of eight, and values of five and six over fewer octets; lists of up to three parts.
`sha256`: lengths up to 130, in up to two calls, so both paddings and all fill
levels of the pending block occur; octets repeat only after more than a block.
`hooks`: http, a server, a location, an `if` in it; every assignment.

`CHECK_DEADLOCK FALSE` is given where the modelled computation ends: a division,
a load, a walk of Cache-Control, a hash. The body filter, the negotiation and
the hooks never stop, and the walk of Accept-Encoding may stop only at its end
(`FieldsNext`), so their runs check for deadlock.

Fairness. In `body_filter_liveness`, `WF(Filter)`: a call runs to its end.
`WF(Wakeup)`: nginx calls the filter again while a `buffered` bit is set; this
is the contract of `ngx_http_writer`, and it gives nothing when no bit is set,
so `Terminates` fails where the filter forgets its bit. `SF(PushProgress)`: a
filter below that is offered output again and again takes some in the end; a
client that never reads is ended by `send_timeout`. The caller owes nothing:
`Terminates` starts when it has handed over the last buffer. In
`no_transform`, `WF(Next)`: the walk is one function in one thread, it goes on
as long as it can. In `dictionary`, `WF(Loader)`: the same for the loader
between the system calls of others, to whom nothing is owed; a call that blocks
is a disabled step (`Returns`).

## Findings

*Flush* (`flush_bit`). A comment (filter module, line 47) says the `buffered` bit means that
data passed to the filter has not been pushed further. When a flush buffer is
larger than an encoder block, CompressStream consumes all of it but stops at
the full block, with FLUSH not performed. The filter drops the buffer and sets
`end_of_block`; the next output, the full block, is marked `flush` and clears
the bit. FLUSH is not called again, so the tail of the flushed data waits for
the next input, and nothing is set that would bring the filter back.

*Vary* (`vary_lines`). The README says "exactly one `Vary: Accept-Encoding` in every state".
With dictionaries configured, a client refused by the static handler gets the
handler's line and the filter's combined line.

*Hooks* (`hooks_respawn`). The README says that leaving out the hooks of a module that is off
everywhere changes nothing else. A reload of such a configuration that fails
after `filter_init` leaves the old configuration in force and the new chain in
the master; a worker forked later to replace one that died compresses nothing.
The static module's handler is not affected, because it is in the cycle.

Two comments of `src/ngx_http_brotli_common.h` are off, and `AcceptEncoding`
follows the code. Lines 56-58 say both scanners step over quoted-strings, but the
scan of a parameter's *name* stops at a `;` inside one. Where elements end does
not suffer, since the cursor is then taken back (`ElementsWhole`), but a weight
may: `br;"x;q=0;y"` is refused for a `q=0` inside the quoted-string, where the
grammar has a malformed parameter. A name is a token and has no quotes, so no
conforming client sends one; `FieldMeansItsMembers` leaves such fields out
(`NamesUnquoted`). Lines 92-93 say `p` is
passed by value and the caller's cursor not advanced, but it is advanced, except
after a quote in a name (`Cursor`).

## Proofs

**Body filter** (`BrotliBodyFilterProofs`; assumes `MaxChunkAssumption`,
`BodyAssumption`). None of the properties is inductive: that output is
contiguous, for instance, needs to know when `out_buf` is empty, that an open
filter has a live encoder, that `taken` of the encoder is the end of `out_buf`,
and which flags exclude each other. The invariant is a conjunction of named
parts: types, encoder and buffer agreement, the accounting of bytes (body =
consumed + queued + in `arg`), the end of input (at most one last buffer, at the
end of all that is queued), dcb framing, the cap, the wake-up condition and the
closed states. One lemma per action shows it is kept; `WholeInvariant` is
`Spec => []` of it, the invariants follow at once, `MemoryStable` and the
refinement `Refinement` (each step is a step of `ContentCoding` or a stutter)
use it on both sides of a step.

**Negotiation** (`BrotliNegotiationProofs`; assumes `NegotiationAssumption`).
The invariant `Inv` says of the response in the pipeline, and of each stored
one, that it was *justified* for its request (the coding was acceptable to it)
and *announced* (all the request headers that decided are on its Vary lines, or
will be once the core has run). `AnsweredFor` combines them: whatever a client
receives was right for a request that agrees with its own on all listed
headers. `AlwaysDecodable` and `BypassedAlways` follow by reading
the same header off both requests. `Kept` carries the latch, the Vary of a
declined sidecar and untouched responses along the pipeline.

**Ratio** (`ArithmeticProofs`; assumes `RatioAssumption`). The loop invariant
of the long division (`bytes_in * 10^i = quotient * bytes_out + remainder`) and,
inside one digit, of the subtraction (`acc + digit * bytes_out =
(k + 1) * remainder`), for every `Word`: 2^64 is an instance.

**Dictionary loading** (`DictionaryLoadingProofs`; assumes `LoadingAssumption`:
what directives and file systems look like, and that trusted directories start
with root's entries only). Four invariants, each for its theorems.
`CleanInv`: entries of trusted directories are root's (`Planted`), the strict
walk stands in a directory it has vetted (`Walked`), and the record of an
unchecked load is true whenever one is in the list (`Recorded`). `BytesInv`: the
buffer is a prefix of positions, no longer than the size asked for.
`NoDescriptorLeft` is inductive as it stands, because it gives the open descriptors
exactly, label by label: the parent and its child differ while both are open, so
that each close leaves what the next label answers for. The types of the nodes
read through `fd` rest on it. `Tally` follows what was hashed. `PolicyImplemented` maps
each step to one of `DictionaryPolicy` or a stutter.

**Walker** (`AcceptEncodingProofs`; assumes `EncodingAssumption`). The walk is
never behind the cursor its caller holds (`Ahead`). With that, every step
increases the lexicographic `Rank` (`AlwaysProgress`): line, then the caller's
cursor, then the stage of the element, then the cursor. The rank is bounded for a
given field, so the walk ends once it cannot stop before its end, which
`accept_encoding` checks as freedom from deadlock.

The second invariant is about quoted-strings (`Whole`). Wherever the walk is, it
knows the mode of the octets before its cursor: plain at an element and at a
parameter, plain or quoted in a value and in the rest as `quoted` says. The one
exception is a parameter whose name has a quote in it, because the scan of names
does not look for quotes. There the walk is lost until the element's parameters
end, and only the caller's cursor, which the code then goes back to, is known
to be in plain text (`Sound`). `AlwaysElementsWhole` follows: however an
element was given up, the next one begins at a comma outside quoted-strings.

The third is about the fuzzing oracle (`AlwaysAgrees`; also assumes
`OracleAssumption`, what the octets of a name are and are not, and `ForBr`: the
coding is `br` and a wildcard counts, which is what the oracle is written for).
`Followed` says at each place of the walk that the oracle's answer for the whole
line is what it would answer from here on: from the element at the cursor with
the weights noted, from the parameter with the weight read, from the end of the
quoted-string the walk is inside of. At the end of the line that is the walker's
verdict. The two do not always stay side by side: the oracle's name of a coding
may be shorter than the walker's, and after an empty parameter name or other
junk it goes to the comma while the walk still reads parameters (`Hopeless`: the
element can match no more, and no quote is left before its comma). Where the
oracle is unsure nothing is claimed; that it is sure is a hypothesis about the
line, carried unchanged, and it is what excludes escapes, repeated weights and
quotes in names.

The fourth is about the meaning of whole fields (`AlwaysMeansItsMembers`; also
assumes `CodingAssumption`: the coding is not empty, and no blank, delimiter or
quote compares as one of its octets). The reading knows nothing of a cursor, so
the invariant (`Meant`) places one in it. In a member, there is a member of
the line that the cursor is in (`InMember`), whose name the flags are right about
(`Heads`) and whose parameters before the cursor are all well formed with at most
one weight among them, the one noted (`HasRead`); what the line has noted is
what the latest member before this one says (`Told`). Once a parameter turns out
malformed, no weight of the whole member counts (`WeighsNothing`), which is why
the walk may forget it. Over the lines, what is folded is what the latest place
in the lines so far says (`Folds`); the `*` is followed only while no line named
the coding, since it cannot matter after. The lemmas about words
(`WordIs`, `NotOneWord`) and about the ends of names and values (`NameReaches`,
`ValueWord`, `QvalueWhole`) carry the walk's three kinds of blanks and its three
decimals over to the grammar's. The theorem needs `Sound`, to know that a
delimiter the walk stops at is outside quoted-strings, and the hypothesis
`NamesUnquoted` on the field, for the reason under Findings.

**No-transform** (`NoTransformProofs`; assumes `DirectiveAssumption`,
`ListAssumption`). `Passed`: the cursor is where a segment begins, at the first
octet or after a comma outside quoted-strings, or at the end, and no earlier
segment of the value is the directive. `Walked`: neither does a header before
this one say it. When the walk ends, it has seen all segments; both directions of `FoundIfSaid` follow, for values of any length
and for any number of headers.

**SHA-256** (`ArithmeticProofs`; assumes `HashAssumption`). The blocks compressed
and the pending block are the message so far (`Reading`), then the message with
its mark (`Marked`), octet by octet; the last block follows by arithmetic on
lengths modulo 64, one case per side of 56. `LengthIsInBits` reads the last eight
octets back, a recursive function over eight places, and has one more
hypothesis, `LengthsFit`: the message's length in bits is below 2^64. FIPS 180-4
has it too, and no file is that long.

**Directives** (`DirectivesProofs`). Hooks assume `ContextsAssumption` and that a
configuration has finitely many contexts. The latch equals
what the directives said, merging makes no block live that has no live directive
above it (`Latched`), and after each stage the chain is what the latch says
(`Hooked`). Workers carry what was true when they were made. `NearestHolds` says
that a merged block has the value of the innermost block around it with a
directive, at any depth of nesting. The recursion outwards goes along the
number of enclosing contexts, which is why these must be finite.

The window's theorems each assume `WindowAssumption`. While reading,
each block's value is unset or a logarithm of what was said; the loop has passed
no window that matches (`Parsed`); while tuning, every smaller window is too
small (`Tuned`).

**Recursion.** `Mode`, `NearestSays`, the length of SHA-256 and the loops of the
oracle are recursive functions. That such a function satisfies its equation at each
argument is not a rule of the prover but a theorem (`UpwardRecursion`,
`DownwardRecursion`), proved from the least element of a set of numbers.
`Induction` and `DownwardInduction` take a set of numbers where the library's
take an operator. The
proofs about lines and blocks of any length rest on these.

## Only proved

The runs are about what is hard to prove or not worth trusting to a proof
alone; some invariants are left to the theorems: the types of `DictionaryLoading`
and `BrotliHooks`, `HashesCounted`, `ChainEnds`, and all of `BrotliWindow`
(`TypeOK`, `WindowAsConfigured`, `SmallestWindow`).

## Only model-checked

- `Terminates`, `LoadingEnds`, `WalkEnds`: liveness under fairness is
  beyond the prover.
- The violations, which are runs.

## Not modelled

- The arithmetic of SHA-256's compression function: 32-bit words are out of
  TLC's reach, and the digest's octets with it. libcrypto's EVP is one step that
  may fail.
- Directives that nginx's own slot functions store and that are inherited
  unchanged (`brotli_comp_level`, `brotli_types`, `brotli_min_length`,
  `brotli_bypass` and the like): the models take their values as given.
- A platform without `openat` and a library without the dictionary API, where
  the directive is refused at once; win32.
- That nginx restores nothing of its statics after a failed reload, and forks
  replacements from the master, is taken from nginx and not from this repository.
- Build scripts, test code, logging, and the content of warnings.
