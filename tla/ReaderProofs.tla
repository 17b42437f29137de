---------------------------- MODULE ReaderProofs ----------------------------
(***************************************************************************)
(* No copy is missed, for any contents, any number of changes and claims,  *)
(* and both backends.                                                      *)
(***************************************************************************)
EXTENDS Reader, TLAPS

\* Nothing announces a change to the loop, and the watcher would.
Calm == watcher = "on" /\ seen /\ ~Pending

\* Half-way through a sample the selection has the flavour that was asked
\* for, or a wake-up for the new one is on its way.
HalfSampled ==
  loop.at = "read" =>
    /\ loop.flavour \in {"text", "image"}
    /\ Calm /\ ~failed => loop.flavour = Flavour(selection)

\* last_hash is set for what was sent.
HashWasTold == Up /\ lastHash # None => told = lastHash

\* Before the watcher is attached nothing has been announced.
Unannounced == watcher = "off" => ~seen
Starting    == loop.at = "start" => watcher = "off"

Inv  == TypeOK /\ HalfSampled /\ HashWasTold /\ Unannounced /\ Starting
IInv == Inv /\ NothingMissed

-----------------------------------------------------------------------------
\* A wake-up that is sent stays in the channel until it is the first.
LEMMA PendingAppend ==
  ASSUME wakes \in Seq(Wakes), NEW w \in Wakes, wakes' = Append(wakes, w)
  PROVE  /\ wakes' \in Seq(Wakes)
         /\ w = Changed => Pending'
         /\ notices' = notices /\ Pending => Pending'
  <1>1. /\ wakes' \in Seq(Wakes)
        /\ Len(wakes') = Len(wakes) + 1 /\ wakes'[Len(wakes) + 1] = w
        /\ DOMAIN wakes \subseteq DOMAIN wakes' /\ Len(wakes) + 1 \in DOMAIN wakes'
        /\ \A i \in DOMAIN wakes : wakes'[i] = wakes[i]
    OBVIOUS
  <1> QED
    BY <1>1 DEF Pending, Changed

\* Receiving a frame takes no wake-up from the channel.
LEMMA PendingRecv ==
  ASSUME wakes \in Seq(Wakes), NEW kind, Recv(kind)
  PROVE  /\ wakes' \in Seq(Wakes)
         /\ Head(wakes) \in Wakes
         /\ kind # "changed" /\ notices' = notices /\ Pending => Pending'
  <1>1. /\ wakes' \in Seq(Wakes) /\ Head(wakes) \in Wakes /\ Head(wakes) = wakes[1]
        /\ \A i \in DOMAIN wakes : i # 1 => i - 1 \in DOMAIN wakes' /\ wakes'[i - 1] = wakes[i]
    BY DEF Recv
  <1>2. kind # "changed" => wakes[1] # Changed
    BY <1>1 DEF Recv, Changed
  <1> QED
    BY <1>1, <1>2 DEF Pending

\* A module starts with nothing announced.
LEMMA InitIInv == Init => IInv
  <1> SUFFICES ASSUME Init PROVE IInv
    OBVIOUS
  <1>1. TypeOK
    <2>1. wakes \in Seq(Wakes) /\ claims \in Seq(Contents)
      BY DEF Init
    <2>2. loop \in [at : {"start", "recv", "read", "over"}, flavour : {"text", "image", "none"}]
      BY DEF Init
    <2>3. /\ platform \in {"wayland", "x11"} /\ watcher \in {"off", "on", "dead"}
          /\ selection \in Selections /\ lastHash \in Selections /\ told \in Selections
          /\ notices \in Nat /\ changes \in Nat /\ sets \in Nat
      BY DEF Init, Selections
    <2>4. seen \in BOOLEAN /\ stdin \in BOOLEAN /\ host \in BOOLEAN /\ failed \in BOOLEAN
      BY DEF Init
    <2> QED
      BY <2>1, <2>2, <2>3, <2>4 DEF TypeOK
  <1>2. HalfSampled /\ HashWasTold /\ Unannounced /\ Starting /\ NothingMissed
    BY DEF Init, HalfSampled, HashWasTold, Unannounced, Starting, Up, NothingMissed
  <1> QED
    BY <1>1, <1>2 DEF IInv, Inv

\* A new owner is announced, or there is nobody to announce it to.
LEMMA OwnIsAnnounced ==
  ASSUME TypeOK, NEW c \in Selections, Own(c), UNCHANGED watcher
  PROVE  /\ selection' \in Selections /\ seen' \in BOOLEAN /\ notices' \in Nat
         /\ ~Calm'
         /\ watcher = "off" => ~seen'
  <1>1. CASE watcher = "on"
    <2>1. notices' = notices + 1 /\ notices \in Nat
      BY <1>1 DEF Own, TypeOK
    <2>2. Pending'
      BY <2>1 DEF Pending
    <2> QED
      BY <1>1, <2>1, <2>2 DEF Own, TypeOK, Calm
  <1>2. CASE watcher # "on"
    BY <1>2 DEF Own, TypeOK, Calm
  <1> QED
    BY <1>1, <1>2

\* A step that leaves the loop's knowledge alone, and after which it is calm
\* only if it was, keeps the invariant.
LEMMA Elsewhere ==
  ASSUME IInv, TypeOK', Unannounced', Starting',
         UNCHANGED <<loop, lastHash, failed, told, platform>>,
         Calm' => Calm /\ UNCHANGED selection
  PROVE  IInv'
  BY DEF IInv, Inv, HalfSampled, HashWasTold, Up, NothingMissed, Calm, Flavour, Known

\* The platform, the applications and the claims.
LEMMA ClipboardStep ==
  ASSUME IInv
  PROVE  /\ \A c \in Contents : AppCopies(c) => IInv'
         /\ AppClears => IInv'
         /\ PrimaryChanges => IInv'
         /\ Claim => IInv'
  <1> USE DEF IInv, Inv
  <1>1. ASSUME NEW c \in Contents, AppCopies(c) PROVE IInv'
    <2>1. ~Calm' /\ TypeOK' /\ Unannounced' /\ Starting'
      BY <1>1, OwnIsAnnounced DEF AppCopies, ends, TypeOK, Unannounced, Starting, Selections
    <2> QED
      BY <1>1, <2>1, Elsewhere DEF AppCopies
  <1>2. ASSUME AppClears PROVE IInv'
    <2>a. /\ selection' \in Selections /\ seen' \in BOOLEAN /\ notices' \in Nat
          /\ ~Calm' /\ (watcher = "off" => ~seen')
      <3>1. CASE Own(None)
        BY <1>2, <3>1, OwnIsAnnounced DEF AppClears, Selections
      <3>2. CASE selection' = None /\ seen' = FALSE /\ UNCHANGED notices
        BY <3>2 DEF TypeOK, Selections, Calm
      <3> QED
        BY <1>2, <3>1, <3>2 DEF AppClears
    <2>1. ~Calm' /\ TypeOK' /\ Unannounced' /\ Starting'
      BY <1>2, <2>a DEF AppClears, ends, TypeOK, Unannounced, Starting
    <2> QED
      BY <1>2, <2>1, Elsewhere DEF AppClears
  <1>3. ASSUME PrimaryChanges PROVE IInv'
    <2>1. ~Calm' /\ TypeOK' /\ Unannounced' /\ Starting'
      BY <1>3 DEF PrimaryChanges, ends, TypeOK, Unannounced, Starting, Calm, Pending
    <2> QED
      BY <1>3, <2>1, Elsewhere DEF PrimaryChanges
  <1>4. ASSUME Claim PROVE IInv'
    <2>1. PICK i \in DOMAIN claims : /\ claims' = RemoveAt(claims, i)
                                     /\ Own(claims[i]) \/ UNCHANGED clipboard
      BY <1>4 DEF Claim
    <2>2. claims[i] \in Selections /\ claims' \in Seq(Contents)
      <3>1. claims \in Seq(Contents) /\ claims[i] \in Contents
        BY DEF TypeOK
      <3>2. RemoveAt(claims, i) \in Seq(Contents)
        BY <3>1 DEF RemoveAt
      <3> QED
        BY <2>1, <3>1, <3>2 DEF Selections
    <2>3. CASE Own(claims[i])
      <3>1. ~Calm' /\ TypeOK' /\ Unannounced' /\ Starting'
        BY <1>4, <2>2, <2>3, OwnIsAnnounced
           DEF Claim, ends, counters, TypeOK, Unannounced, Starting
      <3> QED
        BY <1>4, <3>1, Elsewhere DEF Claim
    <2>4. CASE UNCHANGED clipboard
      <3>1. TypeOK' /\ Unannounced' /\ Starting' /\ (Calm' => Calm)
        BY <1>4, <2>2, <2>4
           DEF Claim, clipboard, ends, counters, TypeOK, Unannounced, Starting, Calm, Pending
      <3> QED
        BY <1>4, <2>4, <3>1, Elsewhere DEF Claim, clipboard
    <2> QED
      BY <2>1, <2>3, <2>4
  <1> QED
    BY <1>1, <1>2, <1>3, <1>4

\* The watcher, the host and the stdin thread.
LEMMA SourceStep ==
  ASSUME IInv
  PROVE  /\ WatcherWakes => IInv'
         /\ WatcherDies => IInv'
         /\ \A c \in Contents : HostSets(c) => IInv'
         /\ HostEnds => IInv'
         /\ StdinCloses => IInv'
  <1> USE DEF IInv, Inv
  <1>w. Changed \in Wakes /\ Stop \in Wakes /\ \A c \in Contents : Set(c) \in Wakes
    BY DEF Wakes
  <1>1. ASSUME WatcherWakes PROVE IInv'
    <2>1. wakes' \in Seq(Wakes) /\ Pending'
      BY <1>1, <1>w, PendingAppend DEF WatcherWakes, TypeOK
    <2>2. notices' \in Nat
      BY <1>1 DEF WatcherWakes, TypeOK
    <2>3. ~Calm' /\ TypeOK' /\ Unannounced' /\ Starting'
      BY <1>1, <2>1, <2>2
         DEF WatcherWakes, ends, counters, TypeOK, Unannounced, Starting, Calm
    <2> QED
      BY <1>1, <2>3, Elsewhere DEF WatcherWakes
  <1>2. ASSUME WatcherDies PROVE IInv'
    <2>1. ~Calm' /\ TypeOK' /\ Unannounced' /\ Starting'
      BY <1>2 DEF WatcherDies, clipboard, ends, counters, TypeOK, Unannounced, Starting, Calm
    <2> QED
      BY <1>2, <2>1, Elsewhere DEF WatcherDies
  <1>3. ASSUME NEW c \in Contents, HostSets(c) PROVE IInv'
    <2>1. wakes' \in Seq(Wakes) /\ (Pending => Pending')
      BY <1>3, <1>w, PendingAppend DEF HostSets, TypeOK, clipboard
    <2>2. TypeOK' /\ Unannounced' /\ Starting' /\ (Calm' => Calm)
      BY <1>3, <2>1 DEF HostSets, clipboard, ends, TypeOK, Unannounced, Starting, Calm
    <2> QED
      BY <1>3, <2>2, Elsewhere DEF HostSets, clipboard
  <1>4. ASSUME HostEnds PROVE IInv'
    <2>1. wakes' \in Seq(Wakes) /\ (Pending => Pending')
      <3>1. CASE wakes' = wakes
        BY <1>4, <3>1 DEF HostEnds, TypeOK, clipboard, Pending
      <3>2. CASE wakes' = Append(wakes, Stop)
        BY <1>4, <1>w, <3>2, PendingAppend DEF HostEnds, TypeOK, clipboard
      <3> QED
        BY <1>4, <3>1, <3>2 DEF HostEnds
    <2>2. TypeOK' /\ Unannounced' /\ Starting' /\ (Calm' => Calm)
      BY <1>4, <2>1
         DEF HostEnds, clipboard, counters, TypeOK, Unannounced, Starting, Calm
    <2> QED
      BY <1>4, <2>2, Elsewhere DEF HostEnds, clipboard
  <1>5. ASSUME StdinCloses PROVE IInv'
    <2>1. TypeOK' /\ Unannounced' /\ Starting' /\ (Calm' => Calm)
      BY <1>5
         DEF StdinCloses, clipboard, counters, TypeOK, Unannounced, Starting, Calm, Pending
    <2> QED
      BY <1>5, <2>1, Elsewhere DEF StdinCloses, clipboard
  <1> QED
    BY <1>1, <1>2, <1>3, <1>4, <1>5

-----------------------------------------------------------------------------
\* The loop, apart from its samples.
LEMMA LoopStep ==
  ASSUME IInv
  PROVE  /\ Start => IInv'
         /\ HandleSet => IInv'
         /\ HandleStop \/ SourcesGone => IInv'
  <1> USE DEF IInv, Inv
  <1>1. ASSUME Start PROVE IInv'
    <2>a. /\ seen' \in BOOLEAN /\ notices' \in Nat /\ watcher' \in {"off", "on", "dead"}
      <3>1. seen \in BOOLEAN /\ notices \in Nat /\ watcher \in {"off", "on", "dead"}
        BY DEF TypeOK
      <3>2. CASE UNCHANGED <<seen, notices, watcher>>
        BY <3>1, <3>2
      <3>3. CASE seen' = TRUE /\ notices' = 1 /\ watcher' = "on"
        BY <3>3
      <3>4. CASE watcher' = "on" /\ UNCHANGED <<seen, notices>>
        BY <3>1, <3>4
      <3> QED
        BY <1>1, <3>2, <3>3, <3>4 DEF Start
    <2>b. loop' \in [at : {"start", "recv", "read", "over"}, flavour : {"text", "image", "none"}]
      BY <1>1 DEF Start, Goto
    <2>1. TypeOK'
      BY <1>1, <2>a, <2>b DEF Start, ends, counters, TypeOK
    <2>2. Unannounced' /\ Starting' /\ HalfSampled' /\ HashWasTold'
      BY <1>1 DEF Start, Goto, Unannounced, Starting, HalfSampled, HashWasTold, Up, TypeOK
    <2>3. ~Calm'
      BY <1>1 DEF Start, Goto, Calm, Pending, Unannounced, Starting, TypeOK
    <2> QED
      BY <2>1, <2>2, <2>3 DEF NothingMissed, Calm
  <1>2. ASSUME HandleSet PROVE IInv'
    <2>1. wakes' \in Seq(Wakes) /\ Head(wakes) \in Wakes /\ (Pending => Pending')
      BY <1>2, PendingRecv DEF HandleSet, TypeOK, clipboard
    <2>2. Head(wakes).content \in Contents
      BY <1>2, <2>1 DEF HandleSet, Recv, Wakes, Changed, Stop, Set
    <2>3. TypeOK' /\ Unannounced' /\ Starting' /\ (Calm' => Calm)
      BY <1>2, <2>1, <2>2
         DEF HandleSet, clipboard, ends, counters, TypeOK, Unannounced, Starting, Calm
    <2> QED
      BY <1>2, <2>3, Elsewhere DEF HandleSet, clipboard
  <1>3. ASSUME HandleStop \/ SourcesGone PROVE IInv'
    <2>1. wakes' \in Seq(Wakes)
      BY <1>3, PendingRecv DEF HandleStop, SourcesGone, TypeOK
    <2>2. TypeOK'
      BY <1>3, <2>1 DEF HandleStop, SourcesGone, Goto, clipboard, ends, counters, TypeOK
    <2> QED
      BY <1>3, <2>2
         DEF HandleStop, SourcesGone, Goto, clipboard, HalfSampled, HashWasTold, Up,
             Unannounced, Starting, NothingMissed, TypeOK
  <1> QED
    BY <1>1, <1>2, <1>3

\* What a sample leaves when it ends in an error or in nothing.
LEMMA SampleEnds ==
  ASSUME IInv, TypeOK', UNCHANGED <<watcher, seen, platform>>, Err \/ Forget,
         loop.at \in {"recv", "read"}
  PROVE  /\ HalfSampled' /\ HashWasTold' /\ Unannounced' /\ Starting'
         /\ Err => NothingMissed'
  BY DEF IInv, Inv, Err, Forget, Goto, HalfSampled, HashWasTold, Up, Unannounced, Starting,
         NothingMissed

\* The first half of a sample.
LEMMA SampleStep == IInv /\ Sample => IInv'
  <1> SUFFICES ASSUME IInv, Sample PROVE IInv'
    OBVIOUS
  <1> USE DEF IInv, Inv
  <1>1. wakes' \in Seq(Wakes) /\ loop.at = "recv"
    BY PendingRecv DEF Sample, TypeOK, Recv
  <1>2. CASE Err
    <2>1. TypeOK'
      BY <1>1, <1>2 DEF Sample, Err, Goto, clipboard, ends, counters, TypeOK
    <2> QED
      BY <1>1, <1>2, <2>1, SampleEnds DEF Sample, clipboard
  <1>3. CASE failed' = FALSE /\ Flavour(selection) = "none" /\ Forget
    <2>1. TypeOK'
      BY <1>1, <1>3 DEF Sample, Forget, Goto, clipboard, ends, counters, TypeOK, Selections
    <2>2. Known(selection) = None
      BY <1>3, KindAssumption DEF Flavour, Known, TypeOK, Selections
    <2>3. NothingMissed'
      BY <1>3, <2>2 DEF Sample, Forget, clipboard, NothingMissed, Known
    <2> QED
      BY <1>1, <1>3, <2>1, <2>3, SampleEnds DEF Sample, clipboard
  <1>4. CASE /\ Flavour(selection) # "none" /\ failed' = FALSE
             /\ Goto("read", Flavour(selection)) /\ UNCHANGED <<lastHash, told>>
    <2>1. Flavour(selection) \in {"text", "image"}
      BY <1>4, KindAssumption DEF Flavour, TypeOK, Selections
    <2>2. TypeOK'
      BY <1>1, <1>4, <2>1 DEF Sample, Goto, clipboard, ends, counters, TypeOK
    <2> QED
      BY <1>1, <1>4, <2>1, <2>2
         DEF Sample, Goto, clipboard, HalfSampled, HashWasTold, Up, Unannounced, Starting,
             NothingMissed, Flavour, TypeOK
  <1>5. CASE failed' = TRUE /\ Goto("read", "text") /\ UNCHANGED <<lastHash, told>>
    <2>1. TypeOK'
      BY <1>1, <1>5 DEF Sample, Goto, clipboard, ends, counters, TypeOK
    <2> QED
      BY <1>1, <1>5, <2>1
         DEF Sample, Goto, clipboard, HalfSampled, HashWasTold, Up, Unannounced, Starting,
             NothingMissed, TypeOK
  <1> QED
    BY <1>2, <1>3, <1>4, <1>5 DEF Sample

\* The second half: the payload that is there now is reported.
LEMMA ReadStep == IInv /\ ReadPayload => IInv'
  <1> SUFFICES ASSUME IInv, ReadPayload PROVE IInv'
    OBVIOUS
  <1> USE DEF IInv, Inv
  <1>1. loop.at = "read" /\ loop.flavour \in {"text", "image"}
    BY DEF ReadPayload, HalfSampled
  <1>2. CASE Holds(loop.flavour) /\ Report(selection) /\ UNCHANGED failed
    <2>1. selection \in Contents /\ Known(selection) = selection
      BY <1>1, <1>2 DEF Holds, Known, TypeOK, Selections
    <2>2. TypeOK'
      BY <1>2, <2>1
         DEF ReadPayload, Report, Goto, clipboard, ends, counters, TypeOK, Selections
    <2>3. HashWasTold' /\ HalfSampled' /\ Unannounced' /\ Starting'
      BY <1>1, <1>2
         DEF ReadPayload, Report, Goto, News, clipboard, HashWasTold, Up, HalfSampled,
             Unannounced, Starting, TypeOK
    <2>4. NothingMissed'
      <3>1. lastHash' = selection
        BY <1>2 DEF Report, News
      <3>2. loop'.at = "recv" => told' = selection
        BY <3>1, <2>1, <2>3, KindAssumption DEF HashWasTold, Up
      <3> QED
        BY <2>1, <3>1, <3>2 DEF ReadPayload, clipboard, NothingMissed, Known
    <2> QED
      BY <2>2, <2>3, <2>4
  <1>3. CASE ~Holds(loop.flavour) /\ platform = "x11" /\ Forget /\ UNCHANGED failed
    <2>1. TypeOK'
      BY <1>3 DEF ReadPayload, Forget, Goto, clipboard, ends, counters, TypeOK, Selections
    <2>2. Calm /\ ~failed => Known(selection) = None
      BY <1>1, <1>3 DEF HalfSampled, Holds, Flavour, Known
    <2>3. NothingMissed'
      BY <1>3, <2>2
         DEF ReadPayload, Forget, clipboard, NothingMissed, Calm, Pending, Known
    <2> QED
      BY <1>1, <1>3, <2>1, <2>3, SampleEnds DEF ReadPayload, clipboard
  <1>4. CASE platform = "x11" /\ Forget /\ failed' = TRUE
    <2>1. TypeOK'
      BY <1>4 DEF ReadPayload, Forget, Goto, clipboard, ends, counters, TypeOK, Selections
    <2>2. NothingMissed'
      BY <1>4 DEF NothingMissed
    <2> QED
      BY <1>1, <1>4, <2>1, <2>2, SampleEnds DEF ReadPayload, clipboard
  <1>5. CASE Err
    <2>1. TypeOK'
      BY <1>5 DEF ReadPayload, Err, Goto, clipboard, ends, counters, TypeOK
    <2> QED
      BY <1>1, <1>5, <2>1, SampleEnds DEF ReadPayload, clipboard
  <1> QED
    BY <1>2, <1>3, <1>4, <1>5 DEF ReadPayload

-----------------------------------------------------------------------------
\* Every step of the module and its surroundings keeps the invariant.
LEMMA StepIInv == IInv /\ [Next]_vars => IInv'
  <1> SUFFICES ASSUME IInv, [Next]_vars PROVE IInv'
    OBVIOUS
  <1>1. CASE UNCHANGED vars
    BY <1>1
       DEF vars, clipboard, ends, counters, IInv, Inv, TypeOK, HalfSampled, HashWasTold,
           Unannounced, Starting, NothingMissed, Up, Calm, Pending, Known, Flavour
  <1>2. CASE Next
    BY <1>1, <1>2, ClipboardStep, SourceStep, LoopStep, SampleStep, ReadStep
       DEF Next, EventLoop, Ended
  <1> QED
    BY <1>1, <1>2

\* A reader's threads, channels and registers keep their types.
THEOREM ReaderTypeCorrect == Spec => []TypeOK
  <1>1. IInv => TypeOK
    BY DEF IInv, Inv
  <1> QED
    BY InitIInv, StepIInv, <1>1, PTL DEF Spec

\* Whatever changes hands between the two halves of a sample and however
\* wake-ups are merged, a reader at rest has told the host what is on the
\* clipboard.
THEOREM NoCopyIsMissed == Spec => []NothingMissed
  <1>1. IInv => NothingMissed
    BY DEF IInv
  <1> QED
    BY InitIInv, StepIInv, <1>1, PTL DEF Spec
=============================================================================
