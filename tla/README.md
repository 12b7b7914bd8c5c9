# libdiscid in TLA+

A model of libdiscid 0.7.0: how the table of contents (TOC) of a disc is taken
from a drive, what is made of it, and what a client that holds a handle is told
about it. TLC checks the modules on small tables; TLAPS proves what matters most
for tables of every size.

## The system

| Component | State | Operations | Depends on |
|---|---|---|---|
| TOC loading (`src/toc.c`) | the handle's TOC fields, two indices | `mb_disc_load_toc` | called by every backend |
| Handle and public calls (`src/disc.c`) | `mb_disc_private`: TOC, five cached texts, MCN, ISRCs, error message, `success` | new, free, read, read_sparse, put, 14 getters | backend, texts |
| Texts (`src/disc.c`) | none | DiscID, FreeDB ID, TOC string, two URLs | SHA-1, Base64 |
| Unix skeleton (`src/unix.c`) | a descriptor and a `mb_disc_toc` on the stack | `mb_disc_unix_read`, `_read_toc`, `_open`, `_exists`, `_find_device` | four backend functions |
| Backends (`disc_linux.c`, `_bsd`, `_darwin`, `_haiku`, `_solaris`, `_win32`, `_generic`) | a buffer with the default device | header, entry, MCN, ISRC, features, default device | the drive |
| SHA-1, Base64 (`sha1.c`, `base64.c`) | a hash context | init, update, final; `rfc822_binary` | - |

There are no threads inside the library and nothing is persistent. Calls on
different handles share nothing except, where buffers are not thread local, the
name of the default device. What is hard in this code:

* **The loop at the end of `mb_disc_load_toc`**, which drops tracks that start
  behind the lead-out and computes a new lead-out from each track it dropped.
* **Caching in the handle.** Texts are made when first asked for, some of them
  from others, and any call that brings another disc has to forget them all.
* **Partial failure.** Reads and puts fail in a dozen places, and the handle may
  have been in use before; `discid_read_sparse` reads twice into it.
* **The drive.** Each ioctl may fail, and between any two of them the medium may
  be changed or taken out. Platforms get the TOC entry by entry or at once, into
  memory that nobody initialised.
* **Names of drives.** The default device lies in a static buffer that a call reads
  from twice; a device number is looked up in each pass; drives come and go.
* **Texts of limited size.** Texts are printed with `sprintf`, `strcat` and `memcpy` into
  arrays whose sizes were reckoned by hand, through a hash that buffers its input and
  an encoder that estimates its output.
* **Misuse.** Getters without a disc, and of tracks that do not exist, assert in
  a debug build and answer NULL or -1 in a release build.

The hazards are listed with their lines in `PROJECT.json`.

## Modules

    DiscToc -+- DiscTocProofs              lemmas of the proofs below
             +- LoadToc ------ MCLoadToc   LoadTocProofs
             +- ReadCall
             |      ^ refined by
             +- DriveRead ---- MCDriveRead DriveReadProofs --- ReadCallProofs
             +- DiscText -+- DiscIdApi
                          |      ^ refined by
                          +- DiscHandle -- MCDiscHandle   DiscHandleProofs
                          |
    Sha1Feed -------------+- MakeText ---- MCMakeText     MakeTextProofs, which
    Base64 ---------------+                               extends Sha1FeedProofs
    DeviceNames -------------- MCDeviceNames              DeviceNamesProofs

**DiscToc** has the data: `Toc` is `mb_disc_toc`, `BlankDisc` and `LoadedDisc` are
the TOC fields of `mb_disc_private` before and after `mb_disc_load_toc`. Slot 0 is
the lead-out, in both. `Refusal(toc)` is the error message and `LoadedDisc(toc)`
the result in closed form: `LastTrack` is the greatest track, or 0, that starts
before the lead-out which goes with it. The other modules use the closed form;
LoadToc shows that it is what the loops compute.

**LoadToc** is `mb_disc_load_toc`, one iteration of a loop per step. `pc` is the
place in the code, `lat` is `last_audio_track`, `i` the loop variable. The table may
claim more tracks than there are slots; the loop then leaves the array
(`ScanBeyondTable`), which is undefined behaviour and ends the model.

**DiscText** says what each answer depends on. A text is the sequence of the
values that are printed into it. Formatting is injective enough not to matter
(fixed widths, separators), and SHA-1 is taken to be: `DiscIdOf` is what is hashed.
That the code prints these values, all of them and in this order, is the subject of
MakeText. `FreedbIdOf` does its arithmetic: digits of seconds, sum modulo 255, the division
of C. `PutRefusal` and `PutDisc` are `discid_put`.

**DiscIdApi** is the abstract specification of a handle. It has the disc, its
codes, and a state (`unset`, `loaded`, `failed`), and answers each question from the
disc alone. It knows no caches, no `success` flag and no order in which things
are cleared.

**DiscHandle** is `mb_disc_private` with one action per public call: `ReadRefused`,
`ReadLoaded` (`discid_read`, `discid_read_sparse`), `PutRefused`, `PutLoaded`
(`discid_put`), `GetText` for the five lazy getters, one action for each other
getter, `GetOfNoDisc` and `GetOfNoTrack` for misuse, `New`, `Free`. A read is one step
whose input is the TOC the drive gave in the end; DriveRead opens this step up.
`setting.ndebug` chooses what a failed assertion does. Where memory is scarce
(`setting.scarce`) the allocations of `create_toc_string` and `discid_new` may fail, and
that of `rfc822_binary`, which is not looked at, may end in undefined behaviour; DiscIdApi
then allows a text without its TOC, and the end of the program (`Die`). `result` is the
last call and its answer, `origin` a history variable for the properties.

**MakeText** is the private half of `disc.c`, one iteration of a loop per step:
`create_disc_id`, `create_freedb_disc_id`, `create_toc_string`, the two URLs. A text has
its values, its length in characters and its `extent`, the number of characters that
were written, NULs included. `job` is the getter that was called; the URLs get to the
id and the TOC as in the code. `FreedbBytes` shifts and ors in 32 bits. The disc may be
any that a handle can hold: `discid_put` takes negative offsets, and a read may leave a
last track far in front of the first. Numbers are printed with their sign; when the
size of the TOC would be negative there is no memory for it (`OmitToc`); and a job that
has written where there was no room (`Overrun`) stops, as what follows is undefined.
`Printable` says for which discs the comment at `discid_private.h:42` reckons
the sizes. Two more jobs, `hash` and `encode`, are clients of `sha1.c` and `base64.c` with
lengths that no DiscID has. The repository has no such clients: `create_disc_id` is the only
one, with 804 bytes to hash, in pieces of 2 and 8, and 20 to encode. The two files
are written for any, so what they promise is checked beyond that use.

**Sha1Feed** is the buffering of `sha1.c`: the first block of `sha_update`, its loop, its
rest, the mark and the length that `sha_final` writes, and the two words that
count bits. The rounds of `sha_transform` are opaque: a digest is the sequence of the
blocks it was made of, which is all that buffering can get wrong. **Base64** is
`rfc822_binary`, a tuplet per step. Both are parts that MakeText EXTENDS, with variables of
their own, and state what they promise without looking at how: the padded message of
the hash standard, and a decoder.

**ReadCall** is what a read is to its caller: it clears the handle and later, in one step,
loads a disc with the codes that were asked for, or fails with a reason, or dies.
It is the read that DiscHandle has, without a table or a drive.

**DriveRead** is `discid_read_sparse` down to the ioctls: the pre-read, the second `memset`,
the final read; device, open, header, entries, lead-out, `mb_disc_load_toc`, MCN, ISRCs,
close. `build` chooses the platform, whose header function is an action of its own. The
drive is external and modelled from how the code takes its answers: `medium` changes at any
time (`Swap`), any ioctl may fail, and a medium that was just inserted may show its first
session only until a TOC was read (`EarlyToc`), which is the "not-ready" problem the comment
at `disc.c:172` is about. The TOC on the stack begins as any of `StackTocs`. A code is named
by the medium that it was read from. `McnMedia` and `IsrcTracks` have what a medium carries:
where it has no code, an ioctl that succeeds says so in a flag. BSD looks at the flags of
both codes and Linux at that of the ISRC; these leave an empty code. The others store what
the drive gave in its place, `Filler` or nothing (`CodeGiven`). History: `since` says since
when (the call, its final pass) the medium has been in place, `faultless` that no ioctl
failed in this call. `Caller` maps it to ReadCall: while `pc` is not idle the call is `busy`
and what is in the handle is not seen. So a pre-read cannot be told from the read, and a
disc that was half loaded from none.

**DeviceNames** is the part of `discid_read_sparse` that DriveRead has as the one step
`FindDevice`: the default device of each platform, the lookup of device numbers, and what
`discid_get_default_device` leaves with its caller. A drive is named by its node; `attached`
is the system's list (external). Linux prints it newest first and `get_device` counts down,
which `Counted` repeats; Windows goes by letters (`Lettered`), BSD by unit, Darwin by the
registry, whose order is left open. A device is a name, a number, or a pointer into
`default_device`, whose contents are taken when the device is opened, not when the pointer
was handed over. A candidate for the default counts as present when its node exists:
`unix.c:41-45` takes every failure to open it but ENOENT for a device that is there, so
permissions and empty drives make no difference. On BSD the buffer is plain static
(`disc_bsd.c:192`), while `discid.h.in:335` speaks of a thread local one. `call[t]` is the
call of a thread; its `events` are a history variable.

Where the model stops short of the code: Darwin's table comes from descriptors, of which the
model takes tracks and lead-out as the medium has them; in DriveRead `DeviceNotFound` is
every way not to find a device, and in DeviceNames looking through the system's list of
drives is one step; warnings on stderr are not modelled; a `discid_read` is a
`discid_read_sparse` with all features.

## Runs

Every run but `device_names`, `saved_default`, `texts` and `texts_put` has tables of four
slots (`MAX_TRACK` = 3). This is enough for a track before, at and behind each place where
the code tells tracks apart: a disc with a dropped track, the track before it, and a data
track behind it; three tracks are also the least for which order can be wrong only in the
part that the loop of `discid_put` reaches last. Sectors are small integers with the
constants of the code scaled to match: `XA_INTERVAL` = 2, `PREGAP` = 1, `MAX_DISC_LENGTH` =
10.

| Run | Question | Bounds |
|---|---|---|
| `load_toc` | Does the loop end, with the disc of the closed form, on every table? | first 0..3, last 0..4, all controls of the tracks, addresses -1, 1, 2 and 4 |
| `handle` | Does a handle keep its promise (DiscIdApi) under every order of calls? | nine TOCs, one per way a disc can be read; put arguments at and around every limit; a debug build with memory, a release build whose allocations may fail |
| `read` | A whole call on every platform, BSD with and without assertions, while media change and ioctls fail, ioctl by ioctl: is it the one step of ReadCall? | four media: two sessions, from track 2 with a last track that does not exist, empty, over-long; with and without MCN, tracks with and without ISRC; two stack contents |
| `device_names` | Which drive does a call read while drives come and go, the link moves and another thread asks for the default device? | two drives, all platforms, a thread that reads and one that only asks |
| `texts` | Is each text the one DiscText defines, does it fit where it should, and does every loop end? | the sizes of the code (100 slots); sixteen discs, 120 messages, 23 sources; see MCMakeText |

The properties, each with a mutant of the code in `PROJECT.json` that breaks it:

* LoadToc: `LoadsClosedForm`, `RefusalLeavesBlank`, `LeadOutCoversLastTrack`,
  `HiddenSlotsAreZero` (the whole table is hashed, so a left-over changes the DiscID),
  `OrderlyDiscIsKept` (a correct disc loses no track), `SurvivorsAreUntouched` (an action
  property of the trim loop), `Terminates`.
* DiscHandle: `TextsAreCurrent` (where memory is scarce, of the texts that need none of it),
  `TextsAreStable` (no getter writes into a whole text that a client holds; the empty
  `toc_string` of a call that found no memory is printed over when there is memory again),
  `FailureLeavesNothing` (with a message exactly when the last such call failed),
  `PutDiscIsPlayable`, `TailIsZero`, `OrdinaryReadRoundTrips` (what test_read.c calls
  read/put idempotence, for discs in order and within the maximum length), `ImplementsApi`.
* DriveRead: `DeviceIsClosed`, `OutcomeIsConsistent` (a message exactly when 0 is returned),
  `SteadyDiscIsRead`, `GoodDiscIsRead`, `SparseReadsWhatIsAsked` (where nothing failed every
  code the medium has, and none where it has none and the backend looks),
  `ReportedDiscIsSane`, `ImplementsReadCall`, `CallReturns`.
* MakeText: `DigestIsOfPaddedMessage` (whatever the pieces, and when the low word of the
  counter wraps), `EncodedFits`, `EncodedDecodes`, `TextsFit` (the ids always, with the copy
  of as many bytes as Base64 estimated; the memory of `create_toc_string` and what it is
  copied to for `Printable` discs), `TextsAreThoseOfTheDisc` (of every disc),
  `FreedbFieldsAreSeparate` (exactly when the playing time is one of two bytes),
  `EveryTextIsMade`.
* DeviceNames: `BothPassesReadOneDrive` (the drive that was pre-read is the one that is
  read), `KeptNameIsStable` (a name handed out is rewritten by nothing but the same thread's
  next lookup of the default; on BSD the buffer is shared, but what is written to it never
  differs), `DefaultIsPresent`.

Two drives are enough for two names to be confused and for a list to be read from
the wrong end. A second thread can disturb the first only through the static
buffers, which looking up the default device is the one way to write.

In `texts` all sizes are those of the code, but for the words that count bits: they have 12
bits instead of 32, so that the 804 bytes that are hashed for a DiscID and two pieces of 512
make the low word wrap. Discs are at the limits of the comment about sizes (99 tracks with
six digits), of each kind that a read can leave: one track, tracks that do not begin with 1,
none left, a dropped last track, a lead-out in front of the tracks, a last track two, four
and five in front of the first; and two that `discid_put` accepts although their offsets are
negative. Messages end on, before and behind the edge of a block and of the place of the
length; sources on those of a tuplet and of a line.

Some media mixtures cannot be excluded: when the medium changes between two
entries, Linux and Solaris store entries of both, and nothing in the code could
notice. `SteadyDiscIsRead` therefore speaks of media that stayed in place, and
`ReportedDiscIsSane` of all.

### Disagreements

Seven runs show what the repository says of itself and the code does not do:

* `load_toc_audio`: dropping tracks may end at a data track, or at none.
* `saved_default`: on Darwin the default device is the number 1, which a client that
  saves it, as `discid.h.in:331` advises, may find to be another drive later.
* `read_solaris`: reading is announced as a feature, but the header function has its
  return value inverted, so no disc is read.
* `read_haiku`: the lead-out is never stored.
* `read_windows`: the table is indexed by track number, although it begins with the
  first track, whatever its number. (This rests on the drive's answer starting with
  the first track, as the layout of READ TOC does.)
* `handle_memory` and `texts_put`: `discid_private.h:84-86` says that texts have fixed lengths, so
  that "as soon as the mb_disc object has been created, all calls returning strings will be
  successful". But `create_toc_string` allocates. When there is no memory, a client is given an
  empty TOC string, or a URL without TOC that is cached like a whole one. And the lengths
  are reckoned for offsets of six digits, while `discid_put` checks no lower bound: 99
  offsets of ten digits with a sign overrun the memory of the TOC.

One more has no run of its own: `toc.c:51` does not check the upper limit that its
message (`toc.c:53`, "must be 99 or lower") names. A larger number takes the loops behind the
table; the actions `ScanBeyondTable` and `ReadEntryBeyondTable` are this, and end the models.

### Fairness and deadlock

LoadToc, MakeText and DriveRead assume weak fairness of the thread that is in the call
(`Next`, `Next`, and `Step` without `Call` and `Swap`): it is not blocked by anything but an
ioctl, and each ioctl answers. Nobody has to call, and media may change for ever:
`CallReturns` needs neither. DiscHandle has no liveness property. Neither
has DeviceNames, where a drive that fails is a step like any other. Deadlock is checked
in `read`, `texts` and `device_names`. LoadToc ends when the function
returns, and DiscHandle ends in the undefined state that `rfc822_binary` may bring where
memory is scarce, so these are allowed to.

## Proofs

`LoadTocProofs` proves, for every `MAX_TRACK`, every interval and every set of tables,
the type invariant and every safety property of the run `load_toc`. Assumptions:
`TocConstants` and `TocsAreTocs`, which TLC evaluates in each run. The argument is an
inductive invariant that says for each `pc` what the loop has done so far: while
scanning, `lat` is the last audio track before `i`; while storing, slots below `i` hold
what the closed form has for `lat`; in the trim loop, the table is that of
`TableWithLast(toc, lat)` and no track behind `lat` is covered by the lead-out that
goes with it. The last part is what makes the loop's exit the greatest covered
track. It is not a consequence of the listed properties, none of which is
inductive. `LastAudioIsGreatest` and `LastTrackIsGreatest` say that the CHOOSE in the
closed form has a witness.

`DriveReadProofs` proves `TypeOK`, `DeviceIsClosed`, `OutcomeIsConsistent` and
`ReportedDiscIsSane` for every set of media, builds and stack contents and every table
size. It assumes `DriveConstants`: a drive gives TOCs whose numbers are not negative
(they are unsigned bytes in every interface the code uses). `Inv` has the types, the
number of descriptors for each `pc`, and four statements that the properties need
and do not say: nothing is in the handle until the TOC was accepted (`BlankInv`); from
then on a sane disc is, and `success` not yet (`LoadedInv`); an idle handle is one or the
other, as `ret` tells (`IdleInv`); and the loop over entries has not left the table, so
that what gets as far as `mb_disc_load_toc` has no more tracks than there are slots
(`TableInv`). `ReportedDiscIsSane` then follows from `LoadedDiscIsSane`, a lemma on the
closed form alone.

It goes on to `SteadyDiscIsRead`: a medium that stayed is read as what it is.
`SteadyInv` adds that a drive whose TOC was read once is ready (`ReadyInv`), so that what
it shows in the second pass is the settled TOC; that a medium is there where something
was read (`MediumInv`); and that the entries before `i` of the local TOC, in the loop
that fills it, are those of the medium (`TocInv`). The closed form depends on nothing
else (`AgreeingDiscs`). As in the run, Haiku and Solaris
are excluded, and Windows for discs that do not begin with track 1. `GoodDiscIsRead`, that
no disc that can be loaded is missed when nothing fails, follows with `ServedInv`: as the
table is the medium's, it is not refused in either pass. (On Haiku the lead-out is not the
medium's, and `ServedInv` says instead that the table is not refused.)

`ReadCallProofs` proves `SparseReadsWhatIsAsked` and the refinement `ImplementsReadCall`,
with the assumption of `DriveReadProofs`. `CodesInv` says what MCN and ISRCs may be at each
`pc`: nothing before the final pass; then those of tracks before `i`, and, where the medium
stayed and nothing failed, all that the medium has. A step in the middle of a call is a
stutter of ReadCall because the handle is hidden; `Call` is `Begin`, and the step that
returns is `Loads` or `Fails`, by `IdleInv`, `LoadedInv` and `CodesInv` in the state before
it. DiscHandle may therefore have a read as one step, on every platform and for tables of
every size.

`DiscHandleProofs` proves every safety property of a handle: `TypeOK`, `TextsAreCurrent`,
`FailureLeavesNothing`, `PutDiscIsPlayable`, `TailIsZero`, `OrdinaryReadRoundTrips` and
`TextsAreStable`, for every table size, in debug and release builds, where memory is scarce
and where it is not. The assumptions are `HandleConstants` (the drive gives TOCs with no
more tracks than there are slots, as `TableInv` shows of what gets as far as
`mb_disc_load_toc`; the arguments of `discid_put` are numbers), `TocConstants` and
`TextConstants`. `HandleInv` strengthens the listed invariants by `TextsInv`, that a text is
that of the disc or this without its TOC, and by `OriginInv`: a handle has a disc exactly
when the call that filled it is known, and the disc has the shape that this call gives it,
`HasReadShape` by the closed form, `HasPutShape` by the checks of `discid_put`. The
properties speak of what was put or read last; without the shape nothing is known of a disc
that two getters later is asked for a length. `HandleImplementsApi` is the refinement of
DiscIdApi, action by action, with and without enough memory. Since both specifications
instantiate DiscText, a few lemmas (`SameTexts`) say that they mean the same texts.

`DeviceNamesProofs` proves `TypeOK`, `BothPassesReadOneDrive`, `KeptNameIsStable` and
`DefaultIsPresent` for any number of drives and threads, from `NameConstants`. `Home(t)` is the
drive that the device of a thread leads to. `HomeInv` says that whatever the call has found
out is `Home(t)`, unless an event that `MayMove` names met the call; `BufferInv` says why
a static buffer stays (only its own thread writes it, or all threads write the same); and
`CandidateInv` that the candidates that were tried are still not there. The last step, that
a number of Linux stands for the same drive when other drives come or go behind it, is
`CountedInOrder`.

`Sha1FeedProofs` proves that any client that calls `sha_update` with pieces of any
length and then `sha_final` gets the digest of the padded message
(`AnyClientGetsTheDigest`), for every size of block and word. `FeedInv` has what was taken
and is not in the digest in the block (`LeftOver`), what is in the digest in its place
(`Digested`), the two words as one number (`BitsCounted`), and, between the mark and the
length, all but the length (`Closed`). That the mark, which the code places by the
counter of bits and not by `local`, comes right behind the message is
`MarkIsBehindMessage`. The proof cites `PowersOfCell`, three laws of powers for the bytes of
the length: they are true of all numbers, but powers are outside the provers'
arithmetic; TLC evaluates them.

`MakeTextProofs` proves every safety property of the run `texts`, for every disc that a handle
may hold. `TextsFit` speaks of the ids of all of them, and of the TOC of those that
are `Printable`; it holds for every table of up to 99 tracks, an array for the id of at least
30 characters and a URL prefix of at least 80 (the code has 32 and 300), and `EncodedFits`
for a source of any length. The assumptions are `MakeTextConstants`, which
bounds nothing but the numbers of the tracks, and `TextSizes`, the arithmetic of the comments at
`discid_private.h:42-62`. `TextInv` counts: of a printable disc a TOC
string that is printed up to `i` has at most `i - first` numbers of seven characters
behind its limits (`TocFits`), what has been encoded is four characters per tuplet and
two per line (`Progressed`), and a URL has the prefix, then the id, then the
TOC, in the order of the steps (`UrlFits`). `TextsFit` itself says
that the last write fitted, not why the next one will.

`TextsAreThoseOfTheDisc` needs the values as well (`ValueInv`): pieces that are left and
numbers that were fed are always `MAX_TRACK + 3` together (`FedInv`), the TOC string has the
offsets of `first..i - 1` (`TocInv`), and a URL what its step has appended so far.
`EncodedDecodes` needs to know where the characters of every three bytes went (`CodedInv`),
line breaks counted, and that four characters of six bits hold three bytes (`SixBitsEach`).
`DigestIsOfPaddedMessage` is the theorem of Sha1FeedProofs, as `create_disc_id` is such a
client (`ShaIsUsedInOrder`). `FreedbFieldsAreSeparate` rests on `FreedbInv`, that the digits
added so far and those of `m` are the sum of the starts up to `i`; on two bytes side by side
being a number of two bytes and no other (`FreedbIsSeparate`), beside which the checksum is
or-ed with nothing (`OrWithNothing`); and on the functions `DigitSum` and `StartSums` being
what their recursive definitions say, which is proved by induction over how far they go
(`DigitSumAdds`, `StartSumsAdd`). `TypeOK` adds the ranges of the loops (`LoopInv`).

Every invariant and every action property of the passing runs is proved, and both
refinements are. What stays with TLC is liveness: `Terminates`, `CallReturns` and
`EveryTextIsMade`. So do the seven disagreements, which are counterexamples.

## Not modelled

* The rounds of SHA-1 (`sha_transform`): arithmetic without control, for which a model
  would be a transliteration. `sha_stream`, `sha_print` and `sha_version` are not called.
* Heap and stdio resources: the block that `disc_darwin.c:176` allocates is never freed
  when the ioctl fails, and `disc_linux.c:77` leaves the file open when it has no line with names.
* The codes of the MCN and ISRC as characters; a code is the medium it was read from, or what
  a drive gives where the medium has none.
* The descriptors of Darwin's table, the version string, warnings on stderr.
* Build files, examples, tests (their claims are properties), third-party headers.

That a disc of more than 90 minutes is read but cannot be put is left out of
`OrdinaryReadRoundTrips`; test_read.c:126 claims it of every disc.

## Plan

1. (done) `DiscToc`, `LoadToc` and the proof that the loops compute the closed form.
2. (done) `DiscText`, `DiscIdApi`, `DiscHandle` and the refinement.
3. (done) `DriveRead` with all platforms.
4. (done) `DeviceNames`, and the safety of DriveRead proved.
5. (done) `MakeText`, `Sha1Feed` and `Base64`, and the proof that texts fit.
6. (done) `ReadCall`, and the proof that DriveRead implements it.
7. (done) Proofs of the handle and its refinement of DiscIdApi, of the names of devices,
   of `GoodDiscIsRead`, and of what is printed, hashed and encoded.
8. (done) The handle where memory is scarce, in the refinement and its proof; media without
   codes; discs with negative offsets and too few tracks for their TOC.
9. Darwin's descriptors and the buffers they are read into.
