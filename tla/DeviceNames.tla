----------------------------- MODULE DeviceNames -----------------------------
(***************************************************************************)
(* Which drive a call reads: the default device of each platform, device   *)
(* numbers, and the name that discid_get_default_device leaves with its    *)
(* caller, while drives come and go and other threads do the same.         *)
(*                                                                         *)
(* A drive is known by its node (/dev/sr1, /dev/cd1, E:), so the number of *)
(* the drive is its name.  Looking through the list of the system is one   *)
(* step.  What is read from a drive is the subject of DriveRead.           *)
(***************************************************************************)
EXTENDS Integers, FiniteSets, SequencesExt

CONSTANTS Threads, Readers, \* those of them that read discs
          LAST_DRIVE,       \* drives are 0..LAST_DRIVE
          Platforms

Platform == {"linux", "bsd", "darwin", "haiku", "solaris", "windows", "generic"}

ASSUME NameConstants ==
    LAST_DRIVE \in Nat /\ Platforms \subseteq Platform /\ Readers \subseteq Threads

Drives == 0..LAST_DRIVE

Nowhere == -1               \* "", "/dev/null"
Link == -2                  \* "/dev/cdrom"
Node == Drives \cup {Nowhere, Link}

(* A device as it is passed on: a name, the number of a drive, or a        *)
(* pointer to the static buffer of the library.                            *)
Device == [kind : {"name"}, of : Node] \cup [kind : {"number"}, of : 1..(LAST_DRIVE + 1)]
             \cup [kind : {"buffer"}, of : {Nowhere}]

Named(node) == [kind |-> "name", of |-> node]
Numbered(n) == [kind |-> "number", of |-> n]
InBuffer == [kind |-> "buffer", of |-> Nowhere]

VARIABLES platform,
          listed,           \* /proc/sys/dev/cdrom/info has a line with names
          attached,         \* the drives, in the order of the system's list
          link,             \* the drive /dev/cdrom leads to
          default_device,   \* the static buffers
          call,             \* of each thread
          kept              \* what discid_get_default_device returned to it

vars == <<platform, listed, attached, link, default_device, call, kept>>

Process == "process"

(* Mutant: THREAD_LOCAL is empty.                                          *)
OneBuffer(t) == Process

(* On Linux and Windows each thread has a buffer, on BSD there is one.     *)
BufferOf(t) == IF platform = "bsd" THEN Process ELSE t

NoCall == [pc |-> "idle", asker |-> "client", k |-> 0, pass |-> 1, device |-> Named(Nowhere),
           target |-> Named(Nowhere), drive |-> Nowhere, first |-> Nowhere, events |-> {}]

Init ==
    /\ platform \in Platforms
    /\ listed \in (IF platform = "linux" THEN BOOLEAN ELSE {FALSE})
    /\ attached = <<>>
    /\ link = Nowhere
    /\ default_device = [b \in Threads \cup {Process} |-> Nowhere]
    /\ call = [t \in Threads |-> NoCall]
    /\ kept = [t \in Threads |-> Named(Nowhere)]

-----------------------------------------------------------------------------
(* The system.  Linux lists a new drive before all others; attached has    *)
(* them the other way round.  Only Darwin does not tell how it orders them.*)
(* events is a history variable: what may move the drive of a call since   *)
(* the device it reads is known, or make it miss a new drive.              *)
Disturbs(event, c) ==
    \/ c.pc # "idle" /\ c.asker = "client" /\ event = "attach"
    \/ /\ c.pc \in {"resolve", "open", "reading"} /\ c.asker = "read"
       /\ \/ c.device = Named(Link) /\ event = "relink"
          \/ c.device.kind = "number" /\ event \in {"attach", "detach"}

Notice(event) ==
    call' = [t \in Threads |-> IF Disturbs(event, call[t])
                               THEN [call[t] EXCEPT !.events = @ \cup {event}]
                               ELSE call[t]]

Attach(d) ==
    /\ ~ Contains(attached, d)
    /\ \E k \in 1..(Len(attached) + 1) :
          /\ platform # "darwin" => k = Len(attached) + 1
          /\ attached' = InsertAt(attached, k, d)
    /\ Notice("attach")
    /\ UNCHANGED <<platform, listed, link, default_device, kept>>

Detach(d) ==
    /\ \E k \in DOMAIN attached : attached[k] = d /\ attached' = RemoveAt(attached, k)
    /\ Notice("detach")
    /\ UNCHANGED <<platform, listed, link, default_device, kept>>

Relink(d) ==
    /\ platform = "linux" /\ d # link
    /\ link' = d
    /\ Notice("relink")
    /\ UNCHANGED <<platform, listed, attached, default_device, kept>>

(* The drive that open finds under a name, Nowhere if there is none.       *)
Opens(node) ==
    LET d == IF node = Link THEN link ELSE node
    IN  IF Contains(attached, d) THEN d ELSE Nowhere

Exists(node) == Opens(node) # Nowhere

-----------------------------------------------------------------------------
(* get_device, get_nth_device, get_device_from_number: drive number n.     *)

(* The line of names has the newest drive first, and counter goes down     *)
(* from their count as strtok_r goes through them.                         *)
Line == Reverse(attached)

(* Mutant: the names are counted from the front.                           *)
CountedFromFront(n) == IF n \in DOMAIN Line THEN Line[n] ELSE Nowhere

Counted(n) ==
    LET counter(k) == Len(Line) - (k - 1)
        found == {k \in DOMAIN Line : counter(k) = n}
    IN  IF found = {} THEN Nowhere ELSE Line[CHOOSE k \in found : TRUE]

(* The letters of CD-ROM drives in the order of the alphabet.              *)
Lettered(n) ==
    LET counter(d) == Cardinality({e \in ToSet(attached) : e <= d})
        found == {d \in ToSet(attached) : counter(d) = n}
    IN  IF found = {} THEN Nowhere ELSE CHOOSE d \in found : TRUE

(* Drive number 1 is /dev/cd0, if it exists.                               *)
Unit(n) == Opens(n - 1)

(* The n-th drive of the I/O registry.                                     *)
Registered(n) == IF n \in DOMAIN attached THEN attached[n] ELSE Nowhere

NthDrive(n) ==
    CASE platform = "linux"   -> IF listed THEN Counted(n) ELSE Nowhere
      [] platform = "bsd"     -> Unit(n)
      [] platform = "windows" -> Lettered(n)
      [] platform = "darwin"  -> Registered(n)

-----------------------------------------------------------------------------
(* The frame of a call.                                                    *)
System == <<platform, listed, attached, link>>

Goto(t, label) == call' = [call EXCEPT ![t].pc = label]

Return(t) == call' = [call EXCEPT ![t] = NoCall]

GetDefault(t) ==
    /\ call[t].pc = "idle"
    /\ call' = [call EXCEPT ![t].pc = "default"]
    /\ UNCHANGED <<System, default_device, kept>>

ReadDefault(t) ==
    /\ call[t].pc = "idle"
    /\ call' = [call EXCEPT ![t].pc = "default", ![t].asker = "read"]
    /\ UNCHANGED <<System, default_device, kept>>

Read(t, device) ==
    /\ call[t].pc = "idle"
    /\ call' = [call EXCEPT ![t].pc = "resolve", ![t].asker = "read", ![t].device = device]
    /\ UNCHANGED <<System, default_device, kept>>

(* discid_get_default_device returns, to the client or to discid_read.     *)
Answer(t, device) ==
    IF call[t].asker = "client"
    THEN kept' = [kept EXCEPT ![t] = device] /\ Return(t)
    ELSE /\ call' = [call EXCEPT ![t].pc = "resolve", ![t].device = device, ![t].k = 0]
         /\ UNCHANGED kept

-----------------------------------------------------------------------------
(* mb_disc_get_default_device_unportable.                                  *)

(* Mutant: the link is preferred, whether it leads anywhere or not.        *)
DefaultLinkUnseen(t) ==
    /\ call[t].pc = "default" /\ platform = "linux"
    /\ Answer(t, Named(Link))
    /\ UNCHANGED <<System, default_device>>

DefaultLink(t) ==
    /\ call[t].pc = "default" /\ platform = "linux"
    /\ IF Exists(Link) THEN Answer(t, Named(Link))
                       ELSE Goto(t, "first") /\ UNCHANGED kept
    /\ UNCHANGED <<System, default_device>>

(* The first drive, by name in the buffer; or what there should be.        *)
DefaultFirst(t) ==
    /\ \/ call[t].pc = "first"
       \/ call[t].pc = "default" /\ platform = "windows"
    /\ IF NthDrive(1) # Nowhere
       THEN /\ default_device' = [default_device EXCEPT ![BufferOf(t)] = NthDrive(1)]
            /\ Answer(t, InBuffer)
       ELSE /\ Answer(t, Named(IF platform = "linux" THEN Link ELSE 0))
            /\ UNCHANGED default_device
    /\ UNCHANGED System

(* Always the name of cd0.                                                 *)
DefaultBsd(t) ==
    /\ call[t].pc = "default" /\ platform = "bsd"
    /\ default_device' = [default_device EXCEPT ![BufferOf(t)] = 0]
    /\ Answer(t, InBuffer)
    /\ UNCHANGED System

DefaultConstant(t) ==
    /\ call[t].pc = "default" /\ platform \in {"darwin", "generic"}
    /\ Answer(t, IF platform = "darwin" THEN Numbered(1) ELSE Named(Nowhere))
    /\ UNCHANGED <<System, default_device>>

(* Mutant: the loop runs one candidate too far.                            *)
DefaultCandidateBeyond(t) ==
    /\ call[t].pc = "default" /\ platform \in {"haiku", "solaris"}
    /\ LET k == call[t].k
       IN  IF k > LAST_DRIVE + 1 THEN Answer(t, Named(0))
           ELSE IF Exists(k) THEN Answer(t, Named(k))
           ELSE call' = [call EXCEPT ![t].k = k + 1] /\ UNCHANGED kept
    /\ UNCHANGED <<System, default_device>>

(* mb_disc_unix_find_device: k is the candidate to be tried.               *)
DefaultCandidate(t) ==
    /\ call[t].pc = "default" /\ platform \in {"haiku", "solaris"}
    /\ LET k == call[t].k
       IN  IF k \notin Drives THEN Answer(t, Named(0))
           ELSE IF Exists(k) THEN Answer(t, Named(k))
           ELSE call' = [call EXCEPT ![t].k = k + 1] /\ UNCHANGED kept
    /\ UNCHANGED <<System, default_device>>

-----------------------------------------------------------------------------
(* mb_disc_read_unportable, in each of the two passes.                     *)
HasNumbers == platform \in {"linux", "bsd", "darwin", "windows"}

ResolveName(t) ==
    /\ call[t].pc = "resolve" /\ platform # "generic"
    /\ ~ (HasNumbers /\ call[t].device.kind = "number")
    /\ call' = [call EXCEPT ![t].pc = "open", ![t].target = call[t].device]
    /\ UNCHANGED <<System, default_device, kept>>

ResolveNumber(t) ==
    /\ call[t].pc = "resolve" /\ HasNumbers /\ call[t].device.kind = "number"
    /\ LET d == NthDrive(call[t].device.of)
       IN  \/ /\ d # Nowhere
              /\ call' = [call EXCEPT ![t].pc = "open", ![t].target = Named(d)]
           \/ (d = Nowhere \/ platform = "darwin") /\ Return(t)
    /\ UNCHANGED <<System, default_device, kept>>

NotImplemented(t) ==
    /\ call[t].pc = "resolve" /\ platform = "generic"
    /\ Return(t)
    /\ UNCHANGED <<System, default_device, kept>>

(* The name a device stands for now; where numbers mean nothing, they are  *)
(* names of no drive.                                                      *)
NameOf(t, device) ==
    CASE device.kind = "name"   -> device.of
      [] device.kind = "buffer" -> default_device[BufferOf(t)]
      [] device.kind = "number" -> Nowhere

Open(t) ==
    /\ call[t].pc = "open" /\ Exists(NameOf(t, call[t].target))
    /\ call' = [call EXCEPT ![t].pc = "reading", ![t].drive = Opens(NameOf(t, call[t].target))]
    /\ UNCHANGED <<System, default_device, kept>>

(* The drive cannot be opened, or reading its disc fails.                  *)
Fail(t) ==
    /\ call[t].pc \in {"open", "reading"}
    /\ Return(t)
    /\ UNCHANGED <<System, default_device, kept>>

PassEnds(t) ==
    /\ call[t].pc = "reading"
    /\ IF call[t].pass = 1
       THEN call' = [call EXCEPT ![t].pc = "resolve", ![t].pass = 2, ![t].first = call[t].drive,
                                 ![t].target = Named(Nowhere), ![t].drive = Nowhere]
       ELSE Return(t)
    /\ UNCHANGED <<System, default_device, kept>>

-----------------------------------------------------------------------------
(* A client names a drive, gives its number, or passes what it was given.  *)
Next ==
    \/ \E d \in Drives : Attach(d) \/ Detach(d)
    \/ \E d \in Drives \cup {Nowhere} : Relink(d)
    \/ \E t \in Readers :
        \/ ReadDefault(t) \/ Read(t, kept[t])
        \/ \E d \in Drives : Read(t, Named(d)) \/ Read(t, Numbered(d + 1))
    \/ \E t \in Threads :
        \/ GetDefault(t)
        \/ DefaultLink(t) \/ DefaultFirst(t) \/ DefaultBsd(t)
        \/ DefaultConstant(t) \/ DefaultCandidate(t)
        \/ ResolveName(t) \/ ResolveNumber(t) \/ NotImplemented(t)
        \/ Open(t) \/ Fail(t) \/ PassEnds(t)

Spec == Init /\ [][Next]_vars

-----------------------------------------------------------------------------
TypeOK ==
    /\ platform \in Platforms /\ listed \in BOOLEAN
    /\ attached \in Seq(Drives) /\ IsInjective(attached)
    /\ link \in Drives \cup {Nowhere}
    /\ default_device \in [Threads \cup {Process} -> Drives \cup {Nowhere}]
    /\ kept \in [Threads -> Device]
    /\ call \in [Threads -> [pc     : {"idle", "default", "first", "resolve", "open", "reading"},
                             asker  : {"client", "read"}, k : 0..(LAST_DRIVE + 1), pass : 1..2,
                             device : Device, target : Device,
                             drive  : Drives \cup {Nowhere}, first : Drives \cup {Nowhere},
                             events : SUBSET {"attach", "detach", "relink"}]]

(* The pre-read settles the drive that the final read then takes the disc  *)
(* from (disc.c:175-180): both passes of a call open the same drive,       *)
(* whatever other threads look up and whatever is attached meanwhile.  A   *)
(* number is looked up in each pass, so it may come to stand for another   *)
(* drive when one is detached or, where the list is not in order of age,   *)
(* attached; the link may be put on another drive.                         *)
MayMove(c) ==
    \/ /\ c.device.kind = "number" /\ platform # "bsd"
       /\ \/ "detach" \in c.events
          \/ "attach" \in c.events /\ platform # "linux"
    \/ c.device = Named(Link) /\ "relink" \in c.events

BothPassesReadOneDrive ==
    \A t \in Threads :
        call[t].pc = "reading" /\ call[t].pass = 2 /\ call[t].drive # call[t].first
        => MayMove(call[t])

(* A thread asks for the default device, or reads it.                      *)
Asks(t) == call[t].pc \in {"default", "first"} /\ call'[t] # call[t]

(* discid.h.in:328-336, "call this once and save it when you want to make  *)
(* sure to use the same drive for multiple operations": the name a thread  *)
(* was given stays what it is until that thread asks for the default again *)
(* or reads it.                                                            *)
KeptNameIsStable ==
    [][\A t \in Threads :
          kept[t].kind = "buffer" /\ ~ Asks(t) => NameOf(t, kept[t])' = NameOf(t, kept[t])]_vars

(* When a platform can name a drive that is there, the default device is   *)
(* one that is there (discid_get_default_device), unless a drive comes     *)
(* during the call.                                                        *)
CanName(node) ==
    \/ platform = "linux" /\ node # Nowhere /\ (listed \/ node = link)
    \/ platform = "bsd" /\ node = 0
    \/ platform \in {"darwin", "haiku", "solaris", "windows"}

DefaultIsPresent ==
    [][\A t \in Threads :
          /\ call[t].pc # "idle" /\ call'[t].pc = "idle" /\ call[t].asker = "client"
          /\ call[t].events = {} /\ \E d \in ToSet(attached) : CanName(d)
          => IF kept'[t].kind = "number" THEN NthDrive(kept'[t].of) # Nowhere
             ELSE Opens(NameOf(t, kept[t])') # Nowhere]_vars

-----------------------------------------------------------------------------
(* A statement of the repository that Darwin does not live up to.          *)

(* The drive that a device stands for at this moment.                      *)
StandsFor(t, device) ==
    IF HasNumbers /\ device.kind = "number" THEN NthDrive(device.of)
                                            ELSE Opens(NameOf(t, device))

(* discid.h.in:331-333, "call this once and save it when you want to make  *)
(* sure to use the same drive for multiple operations": what a thread has  *)
(* saved does not turn from one drive into another until it asks again.    *)
SavedDefaultIsOneDrive ==
    [][\A t \in Threads :
          LET now == StandsFor(t, kept[t])
              then == StandsFor(t, kept[t])'
          IN  ~ Asks(t) /\ Nowhere \notin {now, then} => then = now]_vars
=============================================================================
