# A verification development for udplive

udplive is the beginning of an SCTP-like transport ("vlstp") over UDP, in C. The
repository holds its building blocks: the receiver's TSN map with the serial
number arithmetic under it, word-array bitmaps, a timer list with the event loop
that drives it, intrusive linked lists with a hash table on them, atomic reference counts,
and a thin socket layer. This directory
models those blocks in TLA+, checks them with TLC and proves the most important
facts with TLAPS.

## 1. Inventory

| component (source) | state it keeps | operations | who uses it |
|---|---|---|---|
| TSN map (`vlstp/tsnmap.c`, `include/tsnmap.h`) | `tsn_map` (malloc'ed bits), `len`, `base_tsn`, `cumulative_tsn_ack_point`, `max_tsn_seen`, `dup_tsns`, `num_dup_tsns` | init, free, check, mark, skip, renege, pending, num_gabs, gap ack iterator, mark_dup, get_dups; internal grow, update, find_gap_ack | the receiving end of an association, `test_tsnmap.c` |
| serial numbers (`include/vlstp.h`) | none | `TSN_lt`, `TSN_lte`, `SSN_lt`, `SSN_lte` | TSN map |
| bitmaps (`vlstp/bitmap.c`, `vlstp/bitops.c`, their headers) | arrays of `unsigned long` owned by the caller | fill, copy, logic, shifts, runs, single bits, searches, zero areas, fold, ordinals | TSN map, `test_uls.c` |
| timer list (`vlstp/timer.c`, `include/timer.h`) | one sorted list of `struct timer_list`, `inited` | setup, add, mod, del, next_msecs, dispatch | the program and the timers' own functions |
| event loop (`vlstp/vlstp.c`) | none of its own | `vlstp_dispatch_event`, `vlstp_atomic_inc/dec` | the program's main loop |
| linked lists (`include/list.h`) | `next`/`prev` pointers in the entries | add, delete, replace, move, cut, splice, rotate, walks; the hlist variants | timer list, `hash.c` |
| hash table (`testProgs/hash.c`) | `hashtable`, an array of hlist heads; malloc'ed `struct tag` entries | add, look up, destroy | itself: the program that shows the use of `jhash` and hlist |
| socket layer (`vlstp/socket_layer.c`) | `fdset_t` | create, bind, select, read, write | nobody yet |
| reference counts (`testProgs/test_uls.c` on the atomics) | `refcnt` | init, addref, release | `test_uls.c` |
| hash function (`include/jhash.h`) | none | `jhash`, `jhash2`, `jhash_1word` to `_3words` | `hash.c` |
| packet structures (`vlstp/structs.h`) | none | layouts | nobody yet |

How they interact. Everything but the reference counts is called synchronously from
one thread; the counts are atomic so that several threads may share an object. The main
loop calls `vlstp_dispatch_event`, which asks the timer list how long to sleep,
sleeps in `select`, and calls `dispatch_timer`; that walks the list and calls the
timers' functions, *which may call the timer API in the middle of the walk*. The
TSN map calls the bitmap operations on its own array and the serial number
comparisons on its fields.

What is hard here:

* arithmetic that wraps: 32-bit TSNs, 16-bit offsets cut from them, window limits;
* representation: the bit array, its base and two TSNs must move together through
  shift, growth and skip, and many short cuts rely on relations nobody wrote down
  (bit 0 is always clear; no bit lies beyond the highest TSN seen);
* storage whose content is whatever `malloc` returned;
* a gap ack iterator that outlives changes of the map;
* bitmaps whose size is no multiple of the word, and operations in place;
* re-entrance: the timer walk holds two pointers into a list that functions change;
* the event loop: sleeping too long, walks that do not end, timers never served;
* a wall clock that may be set while all this goes on;
* sends that are taken in part, buffers that fill up, calls that fail half-way;
* releases of one object by several threads at once.

What makes each component correct:

* *TSN map*: it knows exactly which TSNs were received (as a set of unbounded
  numbers), the ack point stops just before the first missing one and never moves
  back, and each query answers from that set.
* *serial numbers*: the order of two counters is kept by their wrapped images.
* *bitmaps*: every operation is the set operation it stands for on the valid bits,
  whatever the unused ones hold, in place too.
* *timer list*: a closed, sorted ring under every interleaving of walk and calls; a
  function runs only for an armed timer that is due; walks end.
* *event loop*: never asleep past an expiry; no timer stays overdue.
* *linked lists*: every operation is the sequence operation it stands for, and
  disturbs no other list, whatever stale links the entries outside hold; a walk visits
  every entry that stays on its list once, whatever its body is allowed to change.
* *hash table*: a name is found exactly when an entry carries it, collisions
  included; the destroying walk never touches what it freed.
* *hash function*: it is the published one, an array of words has the hash of its bytes,
  and nothing behind the key counts.
* *socket layer*: the bytes sent are the message from its beginning and the caller knows
  how many, unless an error was reported; nothing received is lost; no descriptor is
  left open; readiness is not missed.
* *reference counts*: the count is the number of references; exactly the last release
  destroys, and nobody touches the object afterwards.

`PROJECT.json` lists the hazards line by line.

## 2. Modules

| module | models |
|---|---|
| `SerialArith` | a TSN as a number modulo `2 * TSN_SIGN_BIT`; `Plus`, `Diff`, `TSN_lt`, `TSN_lte`. The C code is the instance 2^31 (TSN) or 2^15 (SSN). |
| `BitArray` | the bit operations the TSN map needs, on sets of bit numbers. |
| `Bitmap` | the same operations and all others of `bitmap.c`/`bitops.c` on machine words: a bitmap is a function from word index to the set of its one bits, a store to a word behind the last adds that word (so that `TypeOK` notices it), a loop that reads no other word than the one it writes is a function of the words, and the shifts, which do, go turn by turn, so that in place they read what they have written as in C; searches, counts and walks are recursive functions. `bitmap_and` is the inline function of the header with its short cut for one-word sizes known to the compiler (`small_const_nbits`), `__bitmap_and` the loop behind it, and so for the others. Its properties say, among others, that it agrees with `BitArray`. |
| `TsnMap` | the TSN map, one action per operation. |
| `TsnTracker` | what a TSN map promises: an unbounded number `cum`, the set `ahead` of what was received after it, the highest number `high`. |
| `TsnMapHistory` | `TsnMap` with two history variables, the unwrapped base and the duplicates since the last report: the refinement to `TsnTracker`, the exactness of the queries, and the order of wrapped TSNs and SSNs. |
| `SackReport` | `TsnMap` with a gap ack iterator that lives across changes. |
| `ListHead` | `list_head` as a heap of `next`/`prev` pointers, with every operation of `list.h` on it, assignment by assignment. |
| `Lists` | programs on several such lists, with heads that are left stale by a splice or a replacement; and every walk of `list.h`, one turn at a time, with the edits its body makes. |
| `HashChains` | hlist, whose `pprev` is the address of the pointer to an entry, and the table of `hash.c` on it; `hash_table_destory` is split at every turn of its walk. |
| `JenkinsHash` | `jhash.h` at its full width, a `uint32_t` being a pair of 16-bit halves. |
| `Timer` | the timer list on that heap; `dispatch_timer` is split at every turn of its loop and around every callback, with its local variables `now`, `timer`, `timer1` as state. |
| `TimerQueue` | what a timer service promises: a set of armed timers, functions run for due ones only, one at a time. |
| `EventLoop` | `Timer` under `vlstp_dispatch_event`: the time-out is computed, `select` is entered, it times out or is interrupted, each a step of its own. |
| `SocketLayer` | the socket layer between a program, the kernel and a peer. |
| `RefCount` | reference counts under several threads: only the change of the count is atomic. |
| `ListHeadProofs` | what each operation of `ListHead` makes of the ring it changes: the lemmas that `TimerProofs` and `ListsProofs` share. |
| `*Proofs` | the theorems about the module of that name; `TsnMapProofs` also those about `SerialArith`, `TsnMapHistory` and `SackReport`, `TimerProofs` those about `EventLoop`. |

Correspondence of state and actions. Variables carry the names of the C fields.
In `TsnMap`, `mem` is the pointer `tsn_map` (NULL, live, freed) and `tsn_map` the set
of set bits over the words that the bitmap operations touch, so that bits behind `len` and
bits left by `malloc` are part of the state. `malloc(len >> 3)` rounds down, so those words may
reach behind the storage: `Backed` is where it ends, and what lies behind it holds anything
until it is written, whatever `malloc` returns (section 4). `vlstp_tsnmap_mark` contains growth, the in-order
short cut, the bit and `vlstp_tsnmap_update`, in the order of the code;
`uint16_t` truncation is `% GapSpace` at each place the code truncates. The receiver
follows the protocol of `test_tsnmap.c`: it marks a TSN that
`vlstp_tsnmap_check` did not refuse. Operators that begin with `Mutant` in their
comment are broken variants of the definition below them; no specification uses
them, `PROJECT.json` pairs each with the property that notices it. Some checked
properties are conjunctions of named parts (`GapReportIsExact`, `LookupsAreExact`,
`EntryOperationsAreExact`, `ListOperationsAreExact`, `ChainOperationsAreExact`,
`CombinationsAreBitwise`, `SerialsKeepTheOrder`, `HashAgrees`).

In `Timer`, `Program` is the code between two dispatches, `Callback` one use of the
API by the running function (repeated as often as it likes), `Walk` the turns of
the loop. `CallbackUses` says what functions do, so that a run can name the
uses under which a property holds: `add` another timer, `delete_self`, `move_other`
(`mod_timer`), `rearm_self`, `delete_other` except the one the walk has saved,
`delete_next` that one, and `overdue` for expiries that lie in the past. With
`ClockIsSet` the clock may take any value at any time, as the wall clock may.

In `Bitmap` an action writes the result of one operation to a bitmap; the
properties quantify over all operands in each reachable state. `Lists` does the same:
its actions bring the heap into every arrangement, and each property compares an
operation with the sequence operation it stands for in all of them. The state of a walk
is its macro's `pos` and `n`; `due` is a history variable, what the walk has still to
visit. What a body may do is what each macro allows: it leaves alone the entry the walk
goes on with (the current one, or the saved one of the `_safe` macros), or it takes the
saved one away and calls `list_safe_reset_next`.

`SocketLayer` has no caller in the repository, so its session is one the interface
suggests: a main loop that creates two non-blocking stream sockets, and in each round
asks for readiness (`fd_set_read`, `fd_set_write`, `fd_select`), reads what is ready and
sends what is left. `fd_write` is split at every `send`, so that the peer drains the
buffer, sends, closes, or the connection breaks, between two turns of its loop. A byte is its
place in the stream. Each call to the kernel may fail. After an `fd_write` that
returned -1 the program sends no more, because it cannot know what was sent.

In `RefCount` a reference is a pointer variable of the program, owned by one thread. The
decrement, the test of what it returned, and the two frees of `typedobj_destroy` are
four steps; the memory may be allocated again for the next object.

## 3. Runs

| run | shows | bounds and why they suffice |
|---|---|---|
| `tsnmap` | representation invariant with the storage behind it, refinement to `TsnTracker`, exact answers of check, pending, num_gabs, duplicates; order of TSNs and SSNs | TSNs of 5 bits and starts 27 and 30, so that a window of 8 wraps at once; SSNs of 3 bits; lengths 2 and 4 with words of 2 bits and bytes of 1, so that the map grows, by one word more than it needs, to its cap; 3 gap blocks fit the window; 2 duplicates of room for 3 reports |
| `sack_report` | soundness and progress of an iterator across changes | window 6, two separate blocks, base moves up to half the 16-bit offset space (`GapSpace`) between two calls |
| `bitmap` | two-operand operations, shifts, fold, masking, runs, single bits, searches, zero areas, ordinals, walks over bits | words of 2 and of 4 bits, sizes 3, 4, 5 and 9, constant or not: one, two and three words, full and unfinished, with and without the one-word short cut, several halving steps; one or two bitmaps as far as `MaxBits` = 12 bits in all allow; operands in both orders, in place and not; all bit patterns, unused bits included, are reached |
| `bitmap_test_and` (violation) | `test_and_*_bit` lose the upper half of a word | a word of 4 bits, an `unsigned int` of 2: the 64-bit build in small |
| `timer` | ring closed, sorted, walk never led off the list; implements `TimerQueue`; walks end | three timers: one being called, its saved successor, and a third to be put between them; clock 0..1, which may be set, and expiries 0..2: past, present and future; functions use the whole API, expiries in the past included, but for the deletion of the saved next timer |
| `event_loop` | no oversleeping, order of calls, no timer overdue for ever | three timers: one being called, the saved one, and one that may be passed; clock 0..3 and expiries 0..4: a time-out computed, time passing before `select` is entered, and a timer beyond it; functions add, move and delete timers wherever the clock stands; idle sleep 2, slack 1 |
| `lists` | rings closed and disjoint; insertion, deletion, move, rotation, cut, splice and replacement act on the lists as on sequences; walks visit what stays | 2 heads, 4 entries: a list of three and more has a middle, a cut leaves two on a side, a splice joins two and two; heads and entries are interchangeable (symmetry; no liveness in this run) |
| `hash_chains` | chains well linked, look-up complete, edits exact, destruction safe | 2 buckets, 4 entries, 2 names, every hash function: collisions of equal and of different names, and entries behind and in front of the one edited; keys of 0 to 28 bytes for the hash: on either side of the end of each of the first two blocks |
| `socket_layer` | bytes acknowledged, received and not lost; no leak; reading goes on, the message is sent | 2 descriptors, as the program needs; message of 4, send buffer of 2, so that `fd_write` meets a full buffer in the middle and at the end; answer of 3, reads of 2 |
| `refcount` | exact count, one destruction, no use after free, destruction happens | 3 threads, so that two release while one adds; 4 references; counts modulo 5, the smallest that holds them |
| `tsnmap_malloc` (violation) | a new map reports unseen TSNs as seen | malloc returns any bits |
| `timer_delete_other` (violation) | deleting the saved next timer derails the walk | two timers |

Bounds of the models that are not in the code: `MaxEpoch`, `MaxDupHistory`
(`TsnMapHistory`), the half space of `SackReport!Receive`, `MaxTime`,
`MaxBits`, `MessageLen`, `AnswerLen`, `SendBuffer`, `ReadLen`. At `MaxTime` the clock
stops, but timers may still be set to `MaxTime + 1`, so that what functions and the program do
after that moment is what they do before it; what is set to that time is not called. `CountSpace` stands for
the width of `vlstp_atomic_t`. TSN map runs may stop for good (a freed map), hence
`CHECK_DEADLOCK FALSE`; so may the sockets when both are closed, and threads that are left without an object to do anything with.

`HashesAreExact` speaks of keys, not of a table, so `hash_chains` evaluates it in the
states with an empty table only; the hash chains themselves are checked under every hash
function, not only this one.

Fairness. *`EventLoop`*: the clock goes on (WF on `ClockRuns`); the program comes
back to `vlstp_dispatch_event`, as the `while (1)` of `test_uls.c` does; the walk,
being sequential code, continues and functions return (WF on `WalkRuns`; the running
function's own calls carry none). `select` returning 0 gets strong fairness: an
interruption by a signal dispatches nothing and the loop sleeps again, and the
assumption is that not every sleep for ever is interrupted. In this run functions
arm timers for the future only; the program itself arms them in the past too.

*`Timer`*: the walk continues and the function it called returns (WF on `Walk`). The clock and
the program owe nothing.

Two liveness properties name what the code does not guarantee, so that everything else is
claimed. `WalkEnds`: every walk ends, *or* functions start overdue timers again and again,
which the walk then meets; it holds with the clock set at will and every use of the API but
the deletion of the saved next timer, with which a walk does not end (run
`timer_delete_other`). `NoTimerStaysOverdue`: whatever program and functions start, also in the
past, no armed timer stays overdue for ever, *or* functions move the saved next timer again
and again: the walk follows that timer to its new place and passes those in between, and if
this happens in every walk, a timer that waits there is never called. Without its exception
each of the two properties is violated.

*`SocketLayer`*: the program goes on (WF on `Create` and `Round`), being sequential code
that never blocks; `select` gets strong fairness: it may fail, or be interrupted, but not
every time. The kernel and the peer owe nothing; `MessageIsSent` assumes in its own
premise that the peer goes on taking bytes.

*`RefCount`*: a release that has begun is finished (WF on `Finish`); threads may keep
references for ever.

## 4. What the violations show

* **`vlstp_tsnmap_init` does not clear new storage** (`tsnmap.c:16`). The array comes
  from `malloc` and is cleared only when the structure is used again. A new map may
  hold any bits: `vlstp_tsnmap_check` calls TSNs seen that nobody marked, where the
  comment promises "0 if the TSN has not yet been seen". The same holds for the part
  `vlstp_tsnmap_grow` does not copy. All exactness results are therefore for
  `CleanStorage`: `ZeroedHeap = TRUE` and whole words. The proofs say what survives without it.
* **Deleting the next timer from a callback** (`timer.c:45`). `dispatch_timer` has saved
  the next entry; `del_timer` on that one makes it point to itself, so the walk steps
  to it and then stays on it: the list head is never reached again, and if it is due,
  its function is called although it was deleted. Deleting any other timer, or the
  running one, is safe (`timer`).
* **`test_and_set_bit`, `test_and_clear_bit`, `test_and_change_bit`** (`bitops.h:110-141`) hold
  the word in an `unsigned int`. The committed build is one with 64-bit words (`config.h:4`), so
  they clear the upper half of the word and answer 0 for every bit in it. Nobody in the
  repository calls them. The other operations on single bits and runs are exact
  (`ChangesAreExact`).

More observations that are not stated as findings. An iterator that the ack
point has passed returns "no block" although a block is left (its offset is
negative and cut to 16 bits): sound, but incomplete, which is why `SackReport` only
claims soundness and progress. `TSN_lt` holds in both directions for numbers exactly
half the space apart (`AntipodesAreBothLess`), where RFC 1982 defines nothing. The
storage of a map is `len >> 3` bytes (`tsnmap.c:16`, 326), rounded down, while the bitmap
operations touch whole words. From a whole number of words on, `vlstp_tsnmap_grow` keeps
the length one and the storage suffices (`StorageBacksMap`, a part of `WindowFits`). For another
initial length, such as the 63 of `test_tsnmap.c`, which the comment of `bitmap.c` (4-7) allows,
the last word reaches behind the storage: nothing is stated there, because C leaves what happens
undefined. The comment at the top of `bitmap.c`
(18-21) says that operands without unused bits give results without any; complement and
left shift do not mask the last word (50, 127), and set unused bits. `CleanStaysClean`,
a part of `CombinationsAreBitwise`, says it of the operations that do keep it, and
`AnswersIgnoreUnusedBits` that no answer depends on unused bits. A shift of a
one-word bitmap of constant size by its whole word is undefined in C and is left out. `fd_write` returns
-1 after an error in a later turn of its loop, and so forgets what earlier turns have
sent: `SentIsAcknowledged` claims the count only while no error was reported. It returns -1
also when `send` takes nothing. Times are natural numbers: `timer.h` compares, and
`timer_next_msecs` subtracts, longs by the sign of the difference, which is the same while the
milliseconds since 1970 do not wrap; they do not in the 64 bits of the committed build, and would
on a 32-bit one.

## 5. Proofs

Every theorem holds for all values of the constants that the assumptions of its module
allow. An invariant was first checked by TLC on the instance of its run, then proved:
it holds at the start, every action keeps it (one lemma or one step per action), and it
gives the properties.

* `TsnMapProofs`, first part: values of `Plus` and `Diff`, their algebra,
  `SerialOrder`: within half a turn of any TSN, `TSN_lt` orders TSNs by distance;
  from it `TSN_ltIsRFC1982` and `AntipodesAreBothLess`.
* `RefCountProofs`: for any number of threads and any finite set of references smaller
  than the count space,

  `IInv == TypeOK /\ ReferencesAreCounted /\ DestroyersAreAlone`

  is inductive, and from it `CountsAreExact` (`ReferencesAreCounted`) and
  `NobodyUsesFreedMemory` (`NoUseAfterFree`). `DestroyersAreAlone` adds what `NoUseAfterFree`
  does not see: a thread whose decrement has returned 0 is bound to destroy although it
  has not tested it yet, and until it is through there is no reference left, and so no
  other release, that could make a second one.
* `TsnMapProofs`, second part: for every width, word size, window, length and content of
  the heap,

  `IInv == TypeOK /\ BaseFollowsAckPoint /\ GapFitsMap /\ LenIsWholeWords /\ NextTSNIsMissing /\ NothingBeyondMax /\ UnusedIsEmpty`

  is inductive, and from it `TypeCorrect`, `WindowIsSound` (`WindowFits`, from the second
  to the fourth part), `BitsAreSound` (`MapIsUpToDate`, the next two) and
  `AckPointIsMonotone`. `LenIsWholeWords` is why the storage suffices: growth adds whole words
  up to a cap of whole words, whatever it was asked for. Why the strengthening is needed: `update` looks for the first
  clear bit only below the truncated span, so the span must fit the map
  (`GapFitsMap`) and 16 bits; the map is left with bit 0 clear only if no bit lies
  beyond the span (`NothingBeyondMax`); and the relation of offsets to TSNs holds
  only while the base is one past the ack point. One lemma per action
  (`InitMapStep`, `MarkStep`, `SkipStep`, `RenegeStep`, `DupAndFreeStep`); mark and
  skip share `UpdateStep`, the lemma about moving the ack point. The part begins with
  what the bit operations of `BitArray` return.
* `TsnMapProofs`, third part: the TSN map keeps what `TsnTracker` promises. `HInv` adds to
  `IInv` that `base_tsn` is the unwrapped base modulo the space of TSNs, so that every
  bit stands for one unbounded number. `Refinement` shows each operation to be a step of
  the tracker or none: the point is that a receiver's set of numbers, shifted by
  as much as the first run of bits is long, is the set of bits after
  `vlstp_tsnmap_update`. `ChecksAreExact`, `PendingIsCounted` and `GapReportsAreExact` say
  of the queries that they answer from the tracker's set; the last shows that the
  search for the next block, turn by turn, yields the maximal runs in order, all of
  them or as many as a SACK takes. All four assume `CleanStorage`, zeroed storage of whole words: without it
  they are false, which is the violation `tsnmap_malloc`. `DupsAreKept` needs no such assumption.
  The part after it is about `SackReport`, an iterator over a map that moves on
  (`SackInv`: what lies between the iterator's TSN and the base, in both directions, is
  bounded by half the space of 16-bit offsets). `BlocksAreReceived`: whatever changed
  since the last call, a block returned consists of received TSNs. `IterationsAdvance`: it
  lies behind the one before. This part alone uses `IteratorAssumption`.
* `TsnMapProofs`, last part: `OrderIsKept` (`SerialsKeepTheOrder`): comparing the ack point with
  the TSN of any number less than half the space away gives the order of the numbers, and so
  for SSNs, the same arithmetic at another width. It follows from `HInv`, which says that the
  ack point is the image of `cum` however often it has wrapped.
* `SocketLayerProofs`: for any descriptors, message, answer and sizes of the
  buffers,

  `IInv == TypeOK /\ DescriptorsAreHeld /\ SentIsPrefix /\ ReadIsPrefix /\ EndIsReal`

  is inductive. `DescriptorsAreHeld` says at each point of `fd_create_socket` who is to
  close the new descriptor, and gives `DescriptorsAreClosed` (`NoDescriptorLeaks`).
  `SentIsPrefix` relates the two counts of bytes, `fd_write`'s `writes` and the
  program's, to what the kernel took; it gives `WritesAreCounted`
  (`SentIsAcknowledged`). The last two give `ReadsAreExact` (`ReadsUpToTheEnd`).
* `TimerProofs`: the pointers are handled through the sequence they spell. `IsRing` says
  that a heap holds the ring of a sequence of entries, one lemma of `ListHeadProofs` per
  pointer operation (`AddBetween`, `DelInit`, ...) which sequence it makes of which, and one
  per function of the API what it does to the list and which entries stay linked.
  * `TimerInv == ListInv /\ WalkInv`, for whatever the program and the timer functions
    do: the pointers are one closed ring in the order of expiry, idle timers point to
    themselves or nowhere, and the walk's two variables point to entries that are linked,
    to the list or to themselves. From it `RingStaysClosed` (`ListIsClosed`) and
    `ListStaysSorted` (`ListIsSorted`). So the walk follows no NULL even when it has been led
    off the list.
  * `CursorInv`, where the walk stands: on the list, with the saved entry its successor
    when no function is running, and another entry of the list otherwise. It assumes
    `"delete_next" \notin CallbackUses`, that no function deletes the saved timer; the
    violation `timer_delete_other` is what happens otherwise. From it `WalkStaysAhead`
    (`NextCursorIsOnList`), `WalkStaysOnList` (`CursorIsOnList`) and `TimerRefinement`
    (`ImplementsTimerQueue`).
  * `OrderInv`: a timer the walk finds expired is the first of the list, and the one behind
    the running timer is the next. It gives `CallsAreInOrder` (`EarliestFirst`) if moreover
    functions arm timers for the future only and the clock is not set: a function may
    otherwise put a due timer behind the walk, directly or because the clock
    was set back before it computed the expiry.
  * `EventLoopUsesTimers`: a behaviour of the event loop is one of `Timer`, so the
    above holds in it; and `SleepIsShort` (`NeverOversleeps`), for every slack and every delay
    between the computation of the time-out and `select`.
* `HashChainsProofs`: here too the pointers are handled through sequences. `IsChain` says
  that a heap spells a sequence behind a head, links and pprevs; `ChainIs`, that `Chain`, the
  walk cut after as many entries as there are, then is that sequence. `Insertion` and
  `Removal` say what a change of the pointers around one place makes of all chains, and
  one lemma per operation (`AddHead`, `AddBefore`, `DelInitIs`, ...) that its assignments, in
  their order, are such a change. An entry that is on no chain cannot disturb one
  (`ChainsStay`), which is why `hlist_add_fake` followed by `hlist_del` is harmless.

  `ChainsInv == Table(hash, heap, name) /\ Walk(heap, pos, n)`

  is inductive: disjoint chains without repetition, each entry on the chain of its
  name, allocated entries off the table with no address in it, and the destroying
  walk on the first entry of a chain, its `n` the second. The last part is why the walk
  survives the `free`: `n` was read before and is still linked. From it `TableIsLinked`
  (`ChainsAreLinked`), `LookupFinds` (`LookupIsComplete`), `ChainOperations`
  (`ChainOperationsAreExact`) and `DestroyEnds` (`DestroyIsSafe`), for every hash function.

  The last part is about `jhash.h`, at its full width and for keys of every length.
  `MixReversible`: the mixing of three words can be undone, as its comment says, because
  modulo 2^32 a sum is undone by a difference and an exclusive or by itself.
  `OnlyTheKeyIsRead`, `WordsHashAsBytes` and `HashIsAWord` go through the blocks of a key, one
  turn of the loop after the other (`MixTurns`): two keys whose blocks are alike have one
  hash. `HashesOfEverySeed` applies them to the keys of the run; with the two published
  values as an assumption, which TLC evaluates, `HashesHold` gives `HashesAreExact`.

* `ListsProofs`: for any finite sets of heads and entries, and any program that uses the
  operations in any order. `Spells(h, U, s)` says that in heap `h` the list of each head in
  `U` is the ring of the sequence `s[l]`, and that no entry is in two of them. One lemma per
  operation (`Adds`, `Deletes`, `Moves`, `Replaces`, `Rotates`, `Cuts`, `Splices`,
  `SplicesInit`, `ReplacesHead`, `ReplacesHeadInit`, `Initialises`) says which sequences the
  heap spells after its assignments, and for which heads: a head whose entries went
  elsewhere leaves `U`. What the nodes outside hold does not occur in any of them, except
  that it is a link.

  `ListsInv == Rings /\ (walk = NoWalk \/ (walk \in Walks /\ WalkStands))`

  is inductive. `Rings` is `Spells` for the heads that are not stale; alone it gives
  `ListsAreRings` (`RingsAreClosed`), `EntryOperations` (`EntryOperationsAreExact`) and
  `ListOperations` (`ListOperationsAreExact`). `WalkStands` is about the entries ahead of a
  walk, in its direction, as one sequence: there is a place such that `due` is `pos` and
  what follows that place; a walk that is not safe stands on the entry at the place, and one
  that is has saved the entry after it, whether `pos` is still on the list or not. Its last
  part, `PosKnown`, is what `list_safe_reset_next` lives on: if `pos` was taken off, its
  `next` is poison or itself, so when `pos->next` is still the saved entry, `pos` is the entry
  before it and its `next` may be read again after that one was deleted. From it
  `WalksVisit` (`WalksVisitAll`).

* `BitmapProofs`: for any set of bitmaps, every size, and every width of a word. The
  invariant is `TypeOK` alone (`BitmapTyped`): what matters about bitmaps holds of every
  content their words can have, unused bits included, so the properties follow from the
  words being in place, and none needs to know how the words came to be. That the words stay in
  place is a fact about the bounds of every loop, because a store elsewhere would add a word
  (mutant `Cleared_over`).
  * Bits are addressed by word and place, `At(k, b)`. The first lemmas turn masks, numbers
    of words, and the equality of sets of bits into statements about places; only they
    see products and remainders. One lemma per operation (`AndStores`, `FillStores`, ...)
    says which words it stores, by the short cut and by the loop alike, and one
    (`AndWordsBits`, ...) which bits these are. That gives `CombinationsBitwise`
    (`CombinationsAreBitwise`).
  * `RightTurnsAre` and `LeftTurnsAre` say that a shift in place reads each word before it
    has written it, whatever has been stored so far; so what a turn stores is what it would
    store elsewhere, and `RightWordBits` and `LeftWordBits` follow one bit through the two
    words it may come from. `ShiftsMove` (`ShiftsMoveBits`).
  * `ChangesHold` (`ChangesAreExact`): the words a run covers and the part of each that belongs
    to it (`RunWordsAre`, `RunBitsOf`), and single bits, for every width. The `test_and_`
    operations are not in it; `bitmap_test_and` shows why.
  * `LookupsHold` (`LookupsAreExact`): `WordSearches`, that halving finds the lowest and the
    highest bit of a word; from it what each search returns, in any part of a bitmap
    (`FirstBit`, `NextSetBit`, `LastBit`, ...); then the loops (`LoopVisits`), the free area
    (`AreaFound`: starting again behind a set bit misses no area, because every area that
    begins before that bit contains it), the weights (`WordWeight`, `TotalIs`), and the
    ordinals (`PositionFrom`: each step to the next bit leaves one bit fewer before the
    one looked for). `WidthAssumption` is what halving needs.

Assumptions: those of the modules, each named and checked by TLC on the instance of its
run. `SignBitAssumption`, `WordAssumption`: sizes are not 0.
`MapAssumption`: words are whole bytes, a window that is a multiple of the word and smaller than 2^16, which
is at most 2^31, as in `tsnmap.h`. `IteratorAssumption`: twice the window fits 16 bits, and
2^16 divides 2^32. `HistoryAssumption`: bounds of the model. `RefCountAssumption`: fewer
references than the counter can count. `SocketAssumption`: buffers that take a byte.
`TimerAssumption`: finitely many timers, none of which is the list head.
`ChainsAssumption`: finitely many entries; NULL is no bucket, entry, name or address.
`ListsAssumption`: finitely many heads and entries, which differ, and neither NULL nor a poison
value is one of them. `BitmapAssumption`: widths and sizes are not 0. `WidthAssumption`: a
word is a power of 2 wide (32 or 64 bits in C), so that halving leads down to 1.
`EventLoopAssumption`: delays are numbers. Beyond them a theorem assumes only what its
statement says, `CleanStorage`, which uses of the API functions make, or the published hash
values.

Only model-checked:

* liveness under fairness (`WalkEnds`, `NoTimerStaysOverdue`, `IncomingIsRead`,
  `MessageIsSent`, `UnusedIsDestroyed`), which is out of the prover's reach;
* the two published values of the hash (`AgreesWithLookup3`), which are computations.

The recursive definitions the proofs do reach (`Entries`, `Chain`, the blocks of a gap
report, `vlstp_tsnmap_num_gabs`, the searches, loops and weights of `Bitmap`, the exclusive or and the blocks of
`JenkinsHash`) are recursive functions on numbers. The library's induction rules cannot be used with this prover, so
that such a function exists (`FfsTurnsExist`, `LoopTurnsExist`, ...) and what it returns are
each proved by the least counterexample (`LeastNat`: a nonempty set of naturals has a
least element, from `WFMin`).

## 6. Not modelled

The wire layouts of `structs.h` and the writing half of `packed_struct.h` (no code uses
them), the constructor and destructor of the library (they print), the build files; of
the test programs, `test_tsnmap.c`, `socket.c` and `thread.c` (callers: the first is the
protocol the TSN map's receiver follows, the second uses sockets of its own, the third
increments one counter by the same atomic operation as `RefCount`), and of `test_uls.c`
everything but the reference counts (hand-written singly linked lists and printing). Failing `malloc`s other
than that of `vlstp_tsnmap_init` and `_grow` are not in the models: `hash.c` and
`test_uls.c` write through the result without a test. Addresses, ports and
devices are arguments the socket layer passes on; only whether the call fails is
modelled. Declared but not defined in the repository: `bitmap_remap`, `bitmap_onto`,
`bitmap_bitremap`.

## 7. Plan

In order of importance; all groups are done, and with the first six every component
that has state or steps of its own.

1. `SerialArith`, `BitArray`, `TsnMap` and their proofs (`IInv` inductive).
2. `TsnTracker`, `TsnMapHistory`, `SackReport`: what the map promises, and iterators.
3. `ListHead`, `Timer`, `TimerQueue`, `EventLoop`, with a clock that may be set.
4. `Bitmap`.
5. `Lists` with its walks, `HashChains`, `JenkinsHash`.
6. `SocketLayer`; `RefCount` and its proofs.
7. Proofs: the TSN map's refinement, queries, duplicates and iterator; the socket layer; the
   timer list, its refinement and the event loop; the hash chains.
8. Proofs: the lemmas about rings, in a module of their own on `ListHead`; `Lists` and its
   walks.
9. Proofs: `Bitmap`, with recursive functions in place of its loops.
10. Proofs: `JenkinsHash` over keys of every length.
11. Left: liveness, and the published hash values, to TLC.
