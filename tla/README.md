# A TLA+ verification of gef-core

gef-core is a small C runtime for embedded programs: an allocator with
accounting, containers, a tagged value, events, channels, stackless coroutines,
a class system, streams, JSON and protobuf. It is single-threaded. What makes it
hard is not parallelism but *re-entrance* (a callback that calls back into the
object that is calling it), *shared ownership by hand* (reference counts, free
callbacks, containers that own their items), *arrays that move under a loop*,
and *allocation failures*, which `g_mem_record_set_max` makes an ordinary event.

Paths below are relative to the repository (`src/gevent.c` is the library's file
of that name, `tests/test_event.c` its test).

## 1. Inventory

| component | state it keeps | operations | what must be right |
|---|---|---|---|
| `src/gmem.c` | four counters, a limit, a recording flag, the leak list; a size header before each block | malloc, malloc0, realloc, free, record begin/end, set_max, profile reset | the counters balance; the limit is never exceeded; the leak list names exactly the leaks although addresses are reused |
| `src/garray.c` | GArray: block, length and allocation in bytes; GPtrArray: the same in slots | insert, remove, set, append, prepend, set_size, set_capacity, free | every call has the effect its name says, inside the block, whatever stale data lie behind the end |
| `src/glist.c` | a chain of nodes | append, prepend, remove, free | every node is on the chain or was released, once |
| `src/gmap.c` | a sorted array of entries, key and value callbacks | set, get, remove, remove_all, free | a finite function; every key copy and owned value is released once |
| `src/gvalue.c` | type, payload, free callback, pointer to a shared counter | set, assign, ref, unref, free | a payload is released with its last holder |
| `src/gevent.c` | listeners in a GArray, `last_token`, `firing_index` | add, remove, fire, free | a fire survives what its callbacks do; it is not re-entered; nobody is skipped |
| `src/gchannel.c` | a bounded queue of values, `closed`, two events | write, read, error, close, free | a bounded FIFO closed by its last item; who owns what is queued |
| `src/gcoroutine.c`, `inc/gcoroutine.h` | per coroutine: status, line to resume at, timer | loop, new, start, stop, free and the `co_*` macros | each live coroutine is called once per loop, a stopped one is not, resumption happens at the right line |
| `src/gauto.c` | a static map: name -> array of pointers with free callbacks | auto_with, auto_container_free, auto_free | each pointer given is released once, also when it cannot be kept |
| `src/gobject.c` | a static map of classes, itself a pointer in the auto container `GClassSystem` | register, class lookup, new, free, reset | no object is finalized through a class that is gone |
| `src/gtime.c` | a clock | tick | (used by timers) |
| `src/gmemorystream.c`, `src/gstream.c` | a block, length, position | read, write, seek, set_length, set_capacity, read_all_content | a file: growth loses nothing, no copy leaves the block |
| `src/gstring.c` | a block, length, limit | append, printf, reset | the first of what was put in, all of it unless memory or the limit cut it |
| `src/gjson.c` | parse stack, last key and its buffer, root; then a tree of values | parse, the edits of a tree, generate | the tree means the text; each value is held or freed once wherever a parse breaks off |
| `src/gprotobuf.c` | registry of message types | decode, encode, to and from JSON | the message means the bytes; a failure at any allocation releases what was built |
| `src/gstrfuncs.c` | none | replace, search, trim, compare, parse, base64, hexadecimal, format | what their names say, in the memory computed beforehand |
| `src/gutils.c` | none | logging | output |
| `libs/mjson` (third-party) | expected token, nesting; counters of a search | mjson, find, next, get_string | the callbacks follow the text; a path finds what a reader finds |
| `libs/nanopb` (third-party) | bytes left | varints, tags, fixed widths, substreams | what is written is read again, nothing behind the end is read |
| `libs/printf` (third-party) | place in the buffer | conversions of the C standard | their layout; the end of the buffer |

How they interact. Everything allocates through gmem, whose limit can make any
allocation fail. GMap and GEvent are made of GArray; GChannel is a GArray of
GValue plus two GEvents that fire *inside* write and read; a coroutine context is
a GPtrArray whose loop calls handlers, which write to and read from channels and
stop and start each other; the class map is a GMap that gauto frees. JSON and
protobuf both build trees of GValues, whose containers are GMap and GPtrArray, from
the callbacks or calls of a third-party library; protobuf reads from a GStream,
and both write to a GString through the formatter of `libs/printf`.

Hard behaviours, and where they bite (`PROJECT.json` lists each at its line):
callbacks that remove listeners during a fire (`src/gevent.c:60-71`), fires inside
fires, writes from callbacks of a write; sizes captured before a loop
(`src/gevent.c:71`, `src/gcoroutine.c:21`); a status that is overwritten when the
handler returns (`src/gcoroutine.c:25`); results of `g_array_add` and of a reservation that
are ignored (`src/gevent.c:45`, `src/gchannel.c:13` and `27`); a counter created after the struct was
copied (`src/gchannel.c:27`); unsigned differences that wrap (`src/garray.c:62`,
`src/gmem.c:37`); a static pointer that outlives what it points to
(`src/gauto.c:61` with `src/gobject.c:9`); a key buffer shared by all levels of a
parse (`src/gjson.c:193`); a tree half built when memory runs out
(`src/gjson.c:184`, `src/gprotobuf.c:281`); lengths that come from outside
(`libs/nanopb/pb_decode.c:368`); sizes computed before the work
(`src/gstrfuncs.c:37`, `src/gmemorystream.c:36`).

## 2. Modules and how they correspond to the code

Each C function that changes state is one action (or an operator on the struct
it changes, where several modules share it). A call that runs callbacks is split
where the callbacks run, and only there: the steps between are exactly the calls
a callback may make. Early returns that change nothing are guards. History
variables, marked so, are read by properties only (`frames[k].start` and `called`
included). Operators named `X_Y`, just before `X`, are `X` with a plausible slip;
no specification uses them.

| module | models | state |
|---|---|---|
| `GEvent` | `gevent.c` on the array it uses, stale slots included | a stack of `g_event_fire` frames: each has the captured size and whether a callback of it is running |
| `GEvent_proofs` | | theorems about `GEvent` |
| `GValue` | `gvalue.c`, as operators on a heap of structs, counters and payloads, and the actions of a client | a pointer to a counter is its number; `released` counts releases |
| `BoundedFifo` | what a channel promises (abstract) | what was sent, what was received, closed |
| `GChannel` | `gchannel.c` with its events | `firing` is the stack of fires; one listener stands for all of an event, because any sequence of calls may be made while it runs |
| `GChannel_proofs` | | theorems about `GChannel` and `ChannelPipeline` |
| `ChannelValues` | the reference counts of `gchannel.c`, on GValue's heap, and what its clients do with their values | the structs in the queue are cells of that heap |
| `ChannelValues_proofs` | | theorems about `ChannelValues` and the heap of `GValue` |
| `GCoroutine` | `gcoroutine.c` and the macros | a handler is abstracted to the ways it can return and the calls it can make |
| `GCoroutine_proofs` | | theorems about `GCoroutine` |
| `ChannelPipeline` | `tests/test_channel.c`: EXTENDS GChannel, INSTANCEs GCoroutine, and adds the two handlers of the test | `at` is the place in the running handler |
| `GMem` | `gmem.c` with ENABLE_MEM_PROFILE and ENABLE_MEM_RECORD | `header` maps an address to the size before the block |
| `FiniteMap` | what a map promises (abstract) | a function, and what left it |
| `GMap` | `gmap.c`: sorted entries, halving search, ownership | a value and the key copy of the same set share a token |
| `ItemList` | what a sequence container promises (abstract) | a sequence, the last call, whether it was carried out |
| `GArray`, `GPtrArray`, `GList` | `garray.c`, `glist.c`, as operators on the struct | records; slots behind the end are kept |
| `Containers` | one container of one of the three kinds, and every call | `store` is the struct |
| `ByteFile` | what a stream promises (abstract) | a file, a position, what the last call moved |
| `ByteBuffers` | `gmemorystream.c`, `g_stream_read_all_content`, `gstring.c` | the block is a sequence of bytes, garbage before they are written |
| `Collections` | one client each of `Containers`, `GMap` and `ByteBuffers`, which it INSTANCEs | `subject` says which one a behaviour is about |
| `Collections_proofs` | | theorems about the clients of maps, streams, strings and sequences in `Collections` |
| `DataTheorems` | | induction over naturals and finite sets; what the folds and sequence operators of the community modules do |
| `MJson` | the scanner of `libs/mjson/mjson.c`, `mjson_find`, `mjson_next` | a text is a sequence of lexemes, an offset a number of them |
| `GJson` | `gjson.c`: the callback on the scanner, the tree and its edits | `node` is every GValue made; `d` is JsonParseData |
| `JsonText` | the generator of `gjson.c`, and what a text means to a reader that has no scanner: EXTENDS GJson by what the run compares | as `GJson` |
| `PbWire` | what `gprotobuf.c` uses of `libs/nanopb` | pure: a stream is a record that is passed on |
| `Inputs` | the input of a pure function, which grows item by item | `subject`, the functions it is for, and `input` |
| `WireFormat` | numbers of every form, written by `PbWire` and read again, on a varint that grows byte by byte | `input` is the varint |
| `GProtobuf` | `gprotobuf.c`: decode, encode, to and from JSON | pure, except that a decoder counts its allocations, refuses one of them, and counts what is alive |
| `Text` | `gstrfuncs.c`, and the escapes of `gjson.c` and `mjson.c` | pure |
| `Printf` | `_vsnprintf` of `libs/printf/printf.c` | pure |
| `StringHelpers` | the functions of `Text` and the conversions of strings of `Printf`, on a string that is typed character by character and on bytes | `input` is the string, or the bytes |
| `Formats_proofs` | | theorems about `GJson`, `WireFormat` and `StringHelpers` |
| `Codecs` | `WireFormat`, `GProtobuf`, `StringHelpers` and the conversions of numbers of `Printf` in one run | `input` |
| `Registry` | `gauto.c` and `gobject.c` together | containers ordered by name; calls of `g_class_X` in progress are a stack |
| `Memory` | `GMem` and `Registry` in one run | `subject` says which one a behaviour is about |
| `Memory_proofs` | | theorems about `GMem` and `Registry` |

`GEvent` has its own two array operators (`Insert`, `Shift`): it needs the slots,
not bytes. `GChannel` uses of events only that a firing event refuses to fire,
which is what `NoRefireUndisturbed` of `GEvent` guarantees for callbacks that
remove no listener.

## 3. What the runs show

Every run is exhaustive within its bounds.

**event** (`GEvent.cfg`; up to 4 listeners, 3 fires, callbacks that add, remove
and fire, adds that fail). `FiringIndexSound`: the loop never reads outside the
allocation, and -1 stands for "not firing" whenever nothing fires.
`UserDataReleasedOnce`: removals that shift the array lose or
repeat no release. `NoneSkipped`: a listener that was there from the beginning of a
fire to its end was called. `NoRefireUndisturbed`, `ExactlyOnceInOrder`: until a
callback removes a listener, fires do not nest and call each listener once in
order. `FireTerminates`: a fire ends. Three fires allow a fire inside a fire
inside a fire; four listeners allow two removals before, at and after the
place of the loop, with an add that reuses the stale slot between them.

**channel** (capacity 2, 5 writes, all four calls from the callbacks of both
events, failing reallocations, the reservation of `g_channel_new` among them). `ImplementsFifo`: refinement of `BoundedFifo`.
`ClosedIsLast`: nothing is accepted after the close marker and `closed` says so.
`DataNeverLost`: the results of the reservation (`src/gchannel.c:13`) and of `g_array_add` (27) are
ignored, so a data item can be lost although its write returned TRUE; but only as long as the
array has not had memory for the capacity, reserved or grown into (the history variable `cramped`
counts the writes until then). `AnnouncedInOrder`: each item is announced at most once, in order, and callbacks
of one event are never inside each other. Five writes fill the queue, overfill it with markers, and
wrap around once.

**channel_values** (three client structs, two queue slots, two payloads, counters that
cannot be allocated and adds to the queue that fail). `SharedTravelsSafely`: a payload that had a counter when it was
written is released once, with its last holder; and while all payloads are such,
every counter is the number of structs that share it and goes with the last of
them, through set, assign, ref, unref and free in every order. When an add fails, `g_value_ref` still
counts the copy (`src/gchannel.c:28`); a slot in `lost`, a holder for ever, stands for that copy, so the two
sentences hold of such payloads, too. `NothingLeaked`: all payloads but those with a lost copy are released in
the end, also those whose count came out one too low. Three
client structs are the smallest number for which two can share while a third joins or is
overwritten.

**coroutine** (three coroutines). `StopIsObeyed`: a coroutine that was stopped by
another one or by the program is not called until it is started again.
`EachOncePerLoop`: a loop calls what was alive when it began, once, in order, and
nothing created meanwhile. `ResumePoint`: only a stopped coroutine resumes in the
middle; and of those that share a semaphore no more pass it than it has permits, and
none is lost, however they are stopped and started while they wait for it (one permit:
two coroutines compete and a third interferes). `AliveIsCalled`: one that stays alive is called again and again. With three,
one can act on one before and one behind it in the array; one line to wait at
tells "at the beginning" from "in the middle", which is all that is asked.

**pipeline** (5 items through a channel of 2; no failure, or one at the first, a
middle or the last item; sleeps of 0 to 2 ticks, chosen anew each time).
`AllTransferred`: what precedes the error arrives, once and in order, and the receiver
stops at the error, or at the close marker if there is none (nothing is said of the marker behind
an error: see *pipeline_error*); `Terminates`: the program ends and frees
everything. The sleeps make either side block on the other.

**memory** (blocks: three addresses, sizes 0, 1 and 3, limits 0 (none) and 4. Objects: three classes
in a chain of bases, one container before and one after `GClassSystem`, three objects, failing
allocations). `Balanced`: the
counters and the memory in use agree, and a limit that is set while no memory is in
use is never exceeded. `LeaksExact`: the leak list names exactly the leaks. Freed
addresses are handed out again; the total of 7 bytes allows a limit to be reached by
growing a block. `ClassesOutliveObjects`: no object is finalized through a class that
is gone. `HeldOrFreedOnce`: each object is in the one container it was given to or was
freed once, and the map of classes is known to its container exactly when the
static pointer to it is set. Blocks and objects share nothing here: a behaviour is about one of them.

**collections** (a container of at most four items, batches of two, six list nodes,
guint arithmetic modulo 16; a map of three keys and four sets, all combinations of
owning keys and values, with or without memory for its array; files and strings of
four bytes). `ImplementsList`, `ImplementsMap`, `ImplementsFile`: refinements of
`ItemList`, `FiniteMap` and `ByteFile`, results and callbacks included. `TypeOK`:
lengths stay inside the block, also where differences wrap, and a map's entries are
sorted. `NothingLost`: no list node, key copy or owned value is lost or released
twice, and no uninitialised pointer is read, as long as a GPtrArray is only made
longer while it is new. `BuffersSound`: a client whose position stays inside the file
never makes a stream copy bytes outside its block, and a string holds the first of
the characters that were put in it. With three map entries the search ends left of,
right of and between entries; with four bytes a write doubles the block, finds that too
little, or no longer doubles. Three structures in one run share nothing: a behaviour is
about one of them. The bytes and items are symmetric, as they are only stored and
compared.

**json** (texts of up to nine lexemes: two keys or strings, one that cannot be decoded,
`null`, all punctuation and an illegal character; three levels; one purpose for which
allocations fail; one edit of the tree). Every text is read lexeme by lexeme.
`ParsedMeansText`: the tree, generated again, is what a reading of the text by its
brackets and commas gives (`Canonical`, which knows no scanner), nested and
repeated keys included, and a text that is not JSON gives nothing. A string value with an escape
that cannot be decoded is not what the text says but what precedes the escape (`Cut`, `CutText`).
`ValuesHeldOrFreedOnce`: wherever the text breaks off, memory runs out or a client
edits, each value is held once or was freed once. `StacksAgree`: the callback's stack is
the scanner's nesting. `LookupsAgree`: `mjson_find` and `mjson_next` find what
a reader finds. Nine lexemes hold a member in an object in an object, an object with a
repeated key, and two arrays one behind the other in a third with a comma too many.

**codecs** (a byte carries 3 bits, an int has 8 and a long 16; varints of up to 7 bytes;
messages of up to 3 fields out of 19, well formed or not; strings of up to 5 characters;
every conversion with every set of flags). `WireFormatExact`: a varint is read as the
number its groups spell, an int is cut and a long is refused when it does not fit, and what is
written is read again; a varint starts as nothing and grows while its last byte says that it goes on. With these widths an int and a long end inside a group, as with 7,
32 and 64. `MessagesAccounted`: for every prefix of the bytes and every allocation that
fails, what is alive after decoding is the message returned, and nothing behind the end was
read. `MessagesMeanTheSame`: the decoded message is what the fields mean, in any
order, packed or not, from a buffer or a stream, and survives encoding and, without a
single sub-message, JSON; of a fixed64 that is no int the encoding keeps the low bits, as an int (`TooWide`). `StringsExact`: escapes, searches, replacements in the memory
computed for them, printed strings and the buffer of `snprintf_`, base64, hexadecimal and comparisons
against their definitions. `PrintfExact`: the layout the C standard gives numbers, the nearest
fraction, and a buffer that is never written behind its end.

In the runs deadlock is not an error: every behaviour stops when its bound is
reached or its object has been freed, as a program does. Each property has been
seen to fail on a changed model: the `mutants` of `PROJECT.json` name the change.

### Disagreements between the code and its own tests

* **event_refire.** `tests/test_event.c:15` says "can not refire an event during
  firing, no effects". `g_event_remove_listener` (`src/gevent.c:60`) lowers
  `firing_index`; when the first listener is removed while it is being called the
  index becomes -1, the value that means "not firing", and the callback
  can fire the event again. `NoRefire` fails.
* **channel_values_error.** `tests/test_channel.c:157` asserts
  `allocated == freed`. `g_channel_write` copies the struct before `g_value_ref`
  gives it a counter, and that counter starts at 1 for two holders; the message of
  `g_channel_error` is released by `g_channel_error`, and again when the queued copy is let go: in
  the trace by `g_channel_free` (`src/gchannel.c:53`); a reader that got the copy would do the same.
  `AllocatedIsFreed` fails. The test's call with an error index (line 146) is
  commented out.
* **pipeline_error** (the call of that line: capacity 100, 10 items, an error at 8).
  `tests/test_channel.c:127` says "assert(read_write_counter.closed);", behind lines 121-122, which
  are about runs with an error. `closed` is set when `on_channel_read` hears of the close marker, but
  the receiver leaves its loop at the first item that is not data (lines 55-56), which is the error; the
  marker behind it stays in the queue. `CloseIsRead` fails.

### Observations that contradict no document

* After a removal by a callback the loop of `g_event_fire` still runs to the size
  it captured, reads the stale slot behind the end and calls a listener a second
  time (the comments at `tests/test_event.c:56-58` list the call twice). `ExactlyOnceInOrder`
  is therefore stated for undisturbed fires.
* A callback that removes its own listener and adds another one without end keeps the
  fire from ending. `FireTerminates` is about finitely many adds.
* A coroutine that calls `g_coroutine_stop` on itself is not stopped: its return value
  overwrites the status. `SelfStop = FALSE` leaves the case out.
* `g_ptr_array_maybe_expand` (`src/garray.c:149`) clears as many *bytes* as there are
  new slots; slots that `g_ptr_array_set_size` uncovers later may be garbage.
* `g_auto_free` frees containers in the order of their names, so objects in a container
  whose name sorts after `GClassSystem` are finalized through a freed class, and leaves
  `name_to_class` dangling until `g_class_system_reset`. `ClassesOutliveObjects` excludes
  both with the history variable `careless`.
* The memory limit is compared with the *peak*: freed memory does not become
  available again.
* `g_channel_new` ignores that its reservation failed (`src/gchannel.c:13`), and `g_channel_write`
  that the item could not be stored (27): a data item of a bounded channel can be lost although the write
  returned TRUE, until the array has grown to the capacity. The value of an item that was not stored
  is leaked if it has a counter, which counts the copy (28).
* JSON. A scalar at the top is written into a parent that is NULL (`src/gjson.c:154`). A container
  that cannot be pushed on the stack (184) is freed although its parent holds it, and a
  member that `g_json_set` cannot store (158) is lost; `ValuesHeldOrFreedOnce` leaves
  these two failures out. When the callback gives up, `mjson` returns the characters read
  so far, so that `g_json_parse` returns what was built instead of nothing
  (`ParsedMeansText` is about parses without failures). A key whose escape cannot be
  decoded leaves the buffer as it was (197), and a string value with such an escape ends
  before it (217). `g_json_array_set` and
  `g_json_array_remove` free nothing.
* `mjson_find` finds a value at `$[0][0]` of `[[],[null]]`; the library only asks for `$`.
* Protobuf. The results of `pb_read` are ignored (`src/gprotobuf.c:246`, `257`): a cut
  string is accepted, and its rest is read as tags. A tag that only a hole of the registry
  has, and a sub-message of an unregistered type, use a NULL pointer (171, 270). A singular
  field that comes twice leaks the first value (289), and a bytes field for which memory runs
  out leaks its array (245). A fixed64 or sfixed64 is encoded through `g_value_int` (534) and loses what
  does not fit an int. A single sub-message makes the conversion to JSON fail (391).
  `MessagesAccounted` and `MessagesMeanTheSame` name these cases.
* Streams and strings. A read behind the end gives `memcpy` a negative size
  (`src/gmemorystream.c:54`); the run contains it, and `BuffersSound` says that only a client that
  left the position outside gets there. A string that once could not grow never grows
  again, also after `g_string_reset` (`src/gstring.c:21`).
* Formatting. `%.1f` of 0.95 prints 32 digits: the product 0.95 * 10 comes out as exactly
  9.5, the branch at `libs/printf/printf.c:395` does not carry into the whole part, and the count
  of leading zeros wraps. The model's fractions are sixteenths, whose products are
  exact, and do not reach this. `-` switches a precision's zeros off, and `#` takes
  the place of digits when they fill the width (`Standard` in `Codecs` leaves both
  out); without a precision zeros at the end are left out.
* `g_last_index_of` finds the last of the places that do not overlap an earlier one; for a
  single character, which is what `StringsExact` says, that is the last place.

## 4. Fairness

There is one thread. *event*: weak fairness of the loop of `g_event_fire` and of
callbacks returning, which is that a callback returns. *coroutine*: weak
fairness of the loop, of handlers returning, and of one that resumed at
`co_semaphore_wait` going on from there (by passing or by waiting again); nothing
says that a coroutine which has a permit signals. The program calls the loop again
while something is alive, as `while (g_coroutine_context_alive_count(context))` in
`tests/test_channel.c:117` does. No call of New, Start, Stop or Free is fair: the
properties hold if they never happen. *pipeline*: the thread goes on, and the
clock goes on; nothing says which of the two is faster. All other runs check safety
only and assume no fairness.

## 5. What is proved

Each theorem holds for every value of the constants that the named assumption allows.

**GEvent** (`EventAssumption`: the bounds are naturals; any number of listeners,
callbacks and fires).

* `TypeCorrect`, `IndexCorrect`: `TypeOK` and `FiringIndexSound`. The latter is not
  inductive: a callback that returns adds one to `firing_index`, so what has to be
  kept is that the index is at least -1 *inside* a callback, and for that that all
  frames but the innermost are inside a callback, so that there is one index for all
  of them (`IndexInv`). A removal can only lower an index that is at least the position
  removed, so never below -1.
* `NoRefireProved`, `OrderProved`: `NoRefireUndisturbed` and `ExactlyOnceInOrder`.
  `FireInv` says of the single frame of an undisturbed fire (`FrameInv`) that its
  listeners are still the first of the registered ones, that those called are a prefix
  as long as the index says, and that the captured size is their number. Adds only
  append, refused fires change nothing, a callback's removal sets `disturbed`.
* `ReleasedOnceProved`: `UserDataReleasedOnce`. The property counts releases; what is
  inductive is that each token handed out has one owner, a place in the array or a
  place in the releases (`OwnerInv`). `Shift` leaves a stale copy behind the end, which
  owns nothing.
* `NoneSkippedProved`: `NoneSkipped`. `SkipInv`: a listener that was there when the
  innermost fire began and is still registered was called or lies behind the index.
  A removal moves the listener and the index together, and an outer fire's listeners are
  called by the inner one.

**GChannel** (`ChannelAssumption`; any capacity, writes and calls of callbacks).

* `TypeCorrect`, `NothingAfterClose`, `StoresWhatItAccepts`: `TypeOK`, `ClosedIsLast`,
  `DataNeverLost`, from one `IndInv`: writes are numbered, what is stored is some of what was
  accepted, in order, delivered items followed by the queue are what was stored, and an array that
  has had memory for the capacity keeps it. With that memory an add of a data item, for which
  there is room in the queue, cannot fail (`RoomyIsStored`). The initial states include the one in which the
  reservation failed.
* `ReservedLosesNothing`: in the behaviours that start with the reservation made, no data item is
  ever lost; `cramped` stays 0.
* `FiresInOrder`: `AnnouncedInOrder`; what an event's listeners hear is ordered and among
  what was accepted or delivered, and no event fires inside itself.
* `QueueIsFifo`: `ImplementsFifo`, one lemma for each action and the step of `BoundedFifo`
  it is.

**ChannelValues** (`ValueAssumption`, `ChannelValuesAssumption`; any set of structs, slots and payloads).

* `ValuesTravelSafely`, `NothingStaysBehind`: `SharedTravelsSafely` and `NothingLeaked`, both from
  `ValuesInv`. The properties are far from inductive: nothing in them says what a counter
  is worth once one payload was written by its only holder. `HeapInv` says it of every counter
  and of every payload separately. A counter never counts more than the structs that share it
  (`CounterKept`), so it may run out early, but then the payload is gone and is
  not kept for ever (`PayloadKept`). A payload outside `sole` is released once, its holders agree on
  one counter, and that counter is exact (`PayloadExact`). `HeapInv` has a parameter for the
  one moment in which a counter is ahead of its structs: `g_value_assign` gives a new counter the value 2
  before it copies the struct. A copy that was counted and not stored stays among the holders as a slot that nothing
  reads or releases, so exactness counts it and `NothingLeaked` excepts it; where the original had no counter,
  `g_value_ref` gives it one that says 1, which is right (`RefAloneKeeps`). What a release does (`UnrefKeeps`) is then proved once, what each way
  to fill a struct does (a plain one, a new payload, one more sharer, a move) once each, and every
  call of the library and the channel is a sequence of these. `g_channel_free` is a fold of
  releases over the queue (`LetGoKeeps`).

**GCoroutine** (`CoroutineAssumption`; any number of coroutines, lines and permits).

* `TypeCorrect`, `CallsEachOnce`, `ResumesRightly`: `TypeOK`, `EachOncePerLoop`, `ResumePoint`.
  `IndInv` adds that the index of the loop is the coroutine that runs (`LoopSound`), that what
  a loop has called lies behind it and what it owes a call is ahead of it and alive
  (`RanSoFar`), that permits outside the semaphore are with the coroutines inside it, and
  that one which waits is not inside. The count of the semaphore is a guint; that it does
  not wrap is part of it.
* `StopsForGood`: `StopIsObeyed`, for programs in which no coroutine stops itself (`~SelfStop`):
  the theorem has the hypothesis that the run has.

**GMem** (`MemAssumption`; any finite set of blocks, sizes and limits). The theorems are in
`Memory_proofs`.

* `ProfileAddsUp`: `Balanced`. `current_mem` is the *sum* of the headers in use, so the proof
  needs what a change of one header does to a sum (`SumUpdate` in `DataTheorems`).
* `LeaksNamed`: `LeaksExact`. While recording, the list has one record with the block's size
  for each block allocated since (`RecordInv`); a record is looked up by address, and at
  most one has it.

**GJson** (`GJsonAssumption`, `MJsonAssumption`; any strings, numbers and depth, and any number of lexemes,
edits and failures). The theorems are in `Formats_proofs`.

* `JsonOwnership`: `ValuesHeldOrFreedOnce`. The property counts the holders of a value; what is
  inductive is a shape, `Forest`: the values that are alive are trees. Every one but the roots has
  one place in one container that is alive, the roots have none, and nothing was freed twice. The roots are
  what is held from outside: the root of the parse, what the client took out of arrays and,
  in the middle of a round, a value that the callback has made and not stored yet
  (`ForestInv` has a parameter for it). A release takes `Below`, the least set that contains a value
  and what its values hold: in a forest that is a tree and meets no other, so that what a release
  leaves is a forest again without that root. That a set of edges has no circle is not local; what makes
  it so is `Ordered`, that a container is older than what it holds, which every call keeps because
  it stores only values that it has just made. `Forest` is not claimed once a push or a map's
  entry has found no memory: the code frees a value that its parent holds, or loses it.
* `JsonStack`: `StacksAgree`. `StackInv`: the stack is a path in the forest from the root down, as deep as
  mjson's nesting and with its kinds; what a release in the middle of a parse takes (the value of a repeated key, a value that was just made)
  is newer than the innermost open container, and so than all of the stack. This is claimed whatever
  fails, but for the links between neighbours, which end with a set that fails. The scanner's part
  is `ScanStep`: an opening adds to the nesting, a closing comes only when there
  is something open of the same kind, and everything else leaves the nesting alone; so the callback
  is never asked to close what it has not opened, and never finds itself outside a container
  unless the text is a scalar.

  The proof asked for changes of the model: a release was a recursive walk and is the least
  closed set now, the member's place in a map is counted, and mjson's loop has one operator
  for each state of its `switch`.

**WireFormat** (`PbWireAssumption`, `WireFormatAssumption`; a group of at least three bits, an int and a
longer long that are whole bytes and end inside a group, any bytes and any length of the input). The
theorem is in `Formats_proofs`; 7, 32 and 64 bits are one instance.

* `WireExact`: `WireFormatExact`. The invariant is only that the input may go on (`Coming`); the rest is
  arithmetic. The loop that reads is followed round by round against a *total*, a function of the number
  of bytes read (`Traced`): as long as every byte is valid behind the total so far the loop has that
  total, and from the first that is not, or is missing, the result is a failure (`VarintDecodes`). What the
  totals are is said by digits: after n bytes it is the number their groups spell, for an int modulo
  2^`IntBits`, so that bytes being valid becomes a bound on a number (`LongTaken`). For an int this goes one way only, as the
  code accepts more than what fits: zeros, and copies of the sign, behind its last bit. For what
  the writer makes of a negative int, `NegativeTaken` says that all its groups above the int are ones, that
  the group in which it ends agrees with its sign, and that the last group is cut where the long ends.
  A sequence of groups of a number, going on until the last, which is not zero unless it is the only
  one, is unique (`GroupsUnique`), so for the writer, which puts together a low half, a group shared
  by both halves and a high half, it is enough that each is a group of the number
  (`EncodeLongIsGroups`). That nested remainders can be taken apart (`DivisionTwice`) carries most of it.

  The proof asked for changes of the model here, too: reading was recursive and is a loop with a
  round now, and the groups of a number are given by their count and each one.

**StringHelpers** (`StringsAssumption`; any characters, any length, any set of strings that are looked for, which
are not empty, and of strings put in their place, and any bytes. For an empty string `g_replace`
returns a copy before it searches, `src/gstrfuncs.c:34`). The theorem is in `Formats_proofs`.

* `StringsExactly`: `StringsExact`. The invariant is only that the input is a string or bytes
  (`StringInv`); each function then has a lemma of its own, for every string. What is
  put together from pieces is followed by its prefixes (`Joined`): in the text that `Escape` makes, the scan of
  `mjson_pass_string` stands at the end of a piece whenever it stood at the end of the one before, so it
  stops at the closing quote and nowhere earlier (`EscapesExactly`), and the character that `mjson_unescape`
  takes from a piece is the one the piece was made of. For the copy of
  `g_replace`, what is made of the string from a place on takes at most the share that its
  characters have in the memory asked for, before the division of `ReplaceMemory` rounds it (`Fits`), wherever occurrences overlap
  (`ReplacesExactly`). A repeated search of `g_last_index_of` always stands behind a place it has found, which is
  why it finds the last one of a single character, and why no more is claimed of longer ones.
  Base64 is arithmetic on three bytes (`Recombine`) and a walk over groups, the last of which is
  cut where the bytes end; of hexadecimal digits it is enough that no two are the same. The sign of `g_cmp` is
  decided at the first difference, or by a character that is not zero behind the shorter string.

  What `_vsnprintf` makes of directives that take one argument each is what it makes of each one
  (`FormatIs`), so a string is cut and padded as the C standard says (`PrintsExactly`), and `snprintf_` writes as much
  of any text as there is room for, its zero, and nothing behind it (`FitsAlways`).

  Recursive functions are `CHOOSE`n in TLA+: that `PassString`, `Unescape`, `Replace` and `LastIndexOf` have the values
  their bodies give them is proved first (`RecursionExists`), each with a measure that its calls decrease.
  For this the two places of `mjson_unescape`'s loop became a pair in the model, the
  properties take their strings as parameters and not from the state, and `Format` counts the arguments in
  front of a directive and no longer recurs over both sequences.

**ByteBuffers** (through `CollectionsAssumption`; any bytes, capacities and lengths).

* `StreamIsFile`: `ImplementsFile`. `StreamInv`: the file lies in the block, and the position
  is inside the file unless the client left it. Each reallocation keeps what lies before the length
  (`Becomes`); whether doubling was enough is a case distinction in the proof as it is in the code.
* `BuffersAlwaysSound`: `BuffersSound`. Appending is a fold over characters that may stop
  growing at any of them; `StringInv` (the block holds a prefix, which is terminated, of the text, and
  the whole text unless the string was cut) is carried through the fold by induction
  over the characters appended so far.

**GMap** (`CollectionsAssumption`; any number of keys and calls).

* `MapIsFunction`: `ImplementsMap`. The search by halving is a recursive function on pairs of
  places. By induction on the length of the range it ends, and if all smaller keys lie left
  of the range and all larger ones right of it, it ends at the key or at the two places it lies
  between. So an insertion keeps the entries sorted, keys in them are unique, and the map
  that the abstract specification sees changes at one key. `MapInv` adds to `TypeOK`
  that the array has never had memory for more entries than there were sets, without which
  the bound of the allocation is not inductive. The attempt found that the search, first written with `CASE`, had
  two guards that were both true at the end of an empty range; it is an `IF` now, in the
  order of the code.

**Containers** (`CollectionsAssumption`; any item length, width, sizes and numbers of nodes).

* `ContainersAreLists`: `ImplementsList`. `ContainerInv`: the structure holds a sequence. For
  the arrays that means that the slots begin with it, and nothing is said of the slots behind: so it
  follows for each call that whatever lies there never comes in front of the length. For
  a list it means that the chain from the head goes through nodes with its items, none twice, and
  exactly the nodes off the chain have been freed, once each. Lengths of a GArray are multiples
  of the item length below the width (`LenOf`), so the sums of the calls do not wrap, and the differences of
  `g_array_set_size`, which do, come out right modulo the width (`NoWrap`). The walk along a chain
  is a recursive function on the nodes; that it ends, and where, follows by
  induction over the chain.
* `CollectionsTyped`: `TypeOK` of the clients, from `ContainerInv` and `MapInv`.
* `NothingIsLost`: `NothingLost`. For a list it is part of `ContainerInv`; for a pointer array the
  invariant adds that the sequence has no garbage unless an array with a block was lengthened, and the
  assumption that garbage is none of the things clients store is there to say so. For a map it
  needs an invariant of its own, `Ledger`: tokens in the map are distinct, held and, if the map
  owns keys, copied; no token is twice among the releases of keys or of values (`OneToOne`), and a
  token is among them exactly when it was copied (or, for values with a default callback, held)
  and is no longer in the map. One lemma, `LedgerMoves`, says that a call keeps the ledger if what it
  releases is what leaves the map; each of the six ways a call can end has then to show only that. The
  counts of the property follow because a mark that is there at all is there once (`MarkCount`).

**ChannelPipeline** (`PipelineAssumption`; any capacity, number of items, error and sleeps;
no allocation fails, since the test does not limit the memory: in an unbounded channel
an item for which there is none is lost). The theorem is in `GChannel_proofs`.

* `PipelineTransfersAll`: `AllTransferred`. `PipeInv` gives each coroutine a `Stage`: where
  its handler is while it runs, where its line makes it resume while it waits, or that it has ended, so
  that resuming changes no stage. `Script` is everything the sender will
  write. What was accepted is the beginning of the script, as long as the sender's stage and `i`
  say (`SenderInv`); what was read is the beginning of that, and the queue is the rest
  (`QueueInv`); the receiver has ended exactly when it has read one item behind the data
  (`ReceiverInv`). The sender never waits for room with the item `error_index` refers to (`block` implies
  `i # error_index`): without that a wait for room could resume past the error.

**Registry** (`RegistryAssumption`; any containers and names, depth of classes and number
of objects). The theorems are in `Memory_proofs`.

* `HeldInOnePlace`: `HeldOrFreedOnce`. The inductive invariant, `RegistryInv`, says of each
  container that it has no pointer twice and that its pointers are exactly the live objects made
  for it, and of the class system's own container that it has the map of classes exactly
  while `name_to_class` points to a live one (`PointersInv`); that no object is freed twice
  (`FreedOnce`); and that the base recorded for a class is registered (`ClassesInv`).
  Unlike the property it says all of this also after freed memory was used.
* `ClassesLast`: `ClassesOutliveObjects`. What a careful client adds (`CarefulInv`) is that its
  live objects have their classes.

Freeing is a fold within a fold, callbacks within a container and containers within the order
of their names. `Effect` says what freeing a *set* of pointers does: its objects count one more
release, and if the map of classes is in it every object turns stale. Effects of
disjoint sets add up (`EffectThen`), and containers are disjoint (`HeldApart`), so the effect of
`g_auto_free` is that of everything held, whatever the order. The order matters for
one thing only, that no freed memory is used on the way, which is `SafeNext`: when a container's turn comes its
objects were in no earlier one, and if the classes were, the container's name is behind
theirs and the client was careless. That the names can be sorted at all
(`Order` chooses the sorted sequence) follows by induction on finite sets (`SortedExists`).
The proof needed an assumption made explicit: the mark for objects in no container, `Client`,
is not itself the name of one.

`DataTheorems` holds what these proofs need of data. The library's induction theorems take
an operator as a parameter and cannot be used here; `NaturalInduction` and `FiniteInduction`
take a *set* instead, follow from the well-foundedness of `<`, and are enough to show that the
recursive functions inside `FoldFunction`, `SumFunction`, `FoldLeft` and `FlattenSeq` exist, and
what they return.

Only model-checked:

* liveness (`AliveIsCalled`, `FireTerminates`, `Terminates`): out of the prover's reach;
* `ParsedMeansText` and `LookupsAgree` (`JsonText`), which compare the tree and the searches with
  recursive readings of a text, and `MessagesAccounted` and `MessagesMeanTheSame` (`Codecs`), whose
  decoder and meaning are recursive, too: RECURSIVE operators on texts, bytes and trees, for TLC only;
* `PrintfExact` (`Codecs`), of numbers: TLC checks the conversions with every set of flags on the ints and fractions at
  the boundaries. It holds only as long as what is printed fits the buffer of the conversion, so a theorem
  would have to bound every layout first; none was attempted. What the conversions of strings
  and `snprintf_` do is part of `StringsExactly`.

## 6. Bounds and abstractions

Every bound is a constant named and commented in its module. The data abstracted:
payloads, keys and items are tokens; keys are numbers in the order of
`key_compare_handler`; container names are numbers in the order of their
names; the text of error messages is left out. Sizes in `Containers` are kept in
bytes where the arithmetic matters, and `MaxSize * ItemLen < Width` keeps out
overflow of the true length. In JSON a string is its value and a character its lexeme
(characters are the subject of `Text`), white space is left out, and numbers are
scalars like `null`; what an undecodable string value leaves is one more value, `Cut`. In protobuf a float is the number its bits spell.

`ChannelValues` is checked under a `VIEW` (`InUse`) that forgets the contents of structs which are not
in use: no action reads them before it has filled them. A `g_ptr_array_new` that fails in
`g_json_parse` is its first push failing: `g_ptr_array_add` refuses NULL as it refuses without memory.

Preconditions taken from how the library is used: events, channels and contexts are
freed by their clients, not by their own callbacks; a value is not assigned to
itself; a value is set into one map entry only; `g_list_prepend` is not called when
there is no memory; the map of containers of gauto can be allocated; the file of a
stream, a string and a message are freed by their clients.

Not modelled, and why:

* `malloc` failing by itself (the model's allocations fail by the limit or by choice);
  the children of a coroutine context, which nothing in the repository fills, and its
  shared map, which is a map like any other; a semaphore that more is signalled to than was taken from; `g_coroutine_free`
  of a coroutine still in its context, whose effect (freed memory in the next loop) no call
  in the repository produces;
* failures of small allocations whose results the code uses without a look: `g_new(GValue)` in
  `g_channel_close` and `g_channel_error` (`src/gchannel.c:66-68`, `73-76`), after which a NULL item is
  written; `g_value_new` in the setters of `gjson.c` (35), after which the member holds NULL;
  the buffer of `g_stream_read_all_content` with a zero to append (`src/gstream.c:53-57`);
* the free callback of user data that calls the event it is being removed from, while its listener
  is still in the array (`src/gevent.c:64`): a removal is one step;
* a handler that calls `g_coroutine_context_loop` of its own context: no handler of the repository does;
* `g_string_wrap` of a buffer of one byte, whose limit comes out as 0, which means unlimited
  (`src/gstring.c:43-49`): the buffer, which is its caller's, would be reallocated;
* packed data for a field that is not repeated and has a scalar already, which is then taken for
  an array (`src/gprotobuf.c:57`, `154`): undefined behaviour, where the model appends;
* `class_init` and `finalize` that call back; the registry of message types, whose life
  cycle is that of the class map;
* conversions of doubles and of strings to numbers in `gvalue.c`; `%e`, `%g` and
  infinities: arithmetic of doubles, which TLA+ has no counterpart for;
* allocations that fail while a message is encoded or converted to JSON, and the
  writing callback of a stream;
* the descriptor-driven parts of `libs/nanopb`, and printing, merging and remote calls of
  `libs/mjson`, which the library does not use;
* the wrappers of `gstream.c`, which pick a function from a table; logging, dates, macros:
  output, no state.

## 7. Plan

1. done: all models and runs of sections 2 and 3; the theorems of section 5.
2. `g_coroutine_free` of a coroutine still listed, once a caller in the repository does it.
