------------------------------ MODULE AeProofs ------------------------------
(***************************************************************************)
(* Proofs about Ae, for any number of descriptors, every backend, and      *)
(* calls of aeProcessEvents nested to any depth.                           *)
(***************************************************************************)
EXTENDS Ae, FiniteSetTheorems, TLAPS

-----------------------------------------------------------------------------
(* The inductive invariant, by parts.                                      *)

Place == {"poll", "next", "read", "write", "late"} \union InHandler
Entry == [fd : Fd, mask : SUBSET RW]
Frame == [at : Place, j : Nat \ {0}, n : Nat, fd : Fd, mask : SUBSET RW,
          invert : {0, 1}, fired : Nat, gen : Nat, proc : Proc \union {Wild},
          valid : {0, 1}, called : Seq(Proc \union {Wild}), touched : {0, 1}]

LoopType ==
    /\ api \in Apis /\ setsize \in 1..(MaxFd + 1) /\ gen \in Nat /\ maxfd \in -1..MaxFd
    /\ mask \in [Fd -> SUBSET Flags]
    /\ rproc \in [Fd -> Proc \union {Wild}] /\ wproc \in [Fd -> Proc \union {Wild}]

ApiType == kernel \in [Fd -> SUBSET RW] /\ pending \in [Fd -> SUBSET Flags]

CallType == fired \in Seq(Entry) /\ frames \in Seq(Frame)

\* Nothing is watched beyond the set, and only event ports have pending associations.
ApiInv ==
    \A fd \in Fd :
        /\ setsize <= fd => kernel[fd] = {} /\ pending[fd] = {}
        /\ api # "evport" => pending[fd] = {}

\* A registered event has a handler.
ProcInv ==
    \A fd \in Fd : fd < setsize =>
        /\ R \in mask[fd] => rproc[fd] # Wild
        /\ W \in mask[fd] => wproc[fd] # Wild

\* The entries ever written name slots of the events array.
FiredInv == \A k \in 1..Len(fired) : fired[k].fd < setsize

\* A call stays inside what was polled.
BoundInv(f) ==
    /\ f.at # "poll" => f.n <= setsize /\ f.n <= Len(fired)
    /\ f.at \notin {"poll", "next"} => f.j <= f.n /\ f.fd < setsize

\* The pointer into the events array is not stale, unless handlers resize the set.
ValidInv(f) ==
    /\ f.valid = 1
    /\ f.at \notin {"poll", "next"} => f.gen = gen
    /\ f.at \in InHandler => f.proc # Wild

\* What an entry has called before its writable handler, after it, and in the end,
\* when the registration of its descriptor is what it was.
Due(f) == f.mask \intersect mask[f.fd]

CalledBefore(f) ==
    IF f.invert = 0 /\ R \in Due(f) THEN <<rproc[f.fd]>> ELSE <<>>

CalledAfter(f) ==
    IF W \in Due(f) /\ (CalledBefore(f) = <<>> \/ wproc[f.fd] # rproc[f.fd])
    THEN Append(CalledBefore(f), wproc[f.fd]) ELSE CalledBefore(f)

CalledAtEnd(f) ==
    IF f.invert = 1 /\ R \in Due(f) /\ (CalledAfter(f) = <<>> \/ wproc[f.fd] # rproc[f.fd])
    THEN Append(CalledAfter(f), rproc[f.fd]) ELSE CalledAfter(f)

CalledAt(f) ==
    CASE f.at = "read" -> <<>>
      [] f.at \in {"inread", "write"} -> CalledBefore(f)
      [] f.at \in {"inwrite", "late"} -> CalledAfter(f)
      [] OTHER -> CalledAtEnd(f)

EntryInv(f) ==
    /\ f.at \in {"poll", "next"} => f.called = <<>>
    /\ f.at \notin {"poll", "next"} =>
        /\ f.gen <= gen
        /\ f.gen = gen /\ f.touched = 0 =>
              /\ f.invert = IF B \in mask[f.fd] THEN 1 ELSE 0
              /\ f.called = CalledAt(f) /\ (f.fired = 0 <=> f.called = <<>>)

FramesInv ==
    \A i \in 1..Len(frames) :
        /\ BoundInv(frames[i])
        /\ ~CommandsInHandlers => ValidInv(frames[i])
        /\ EntryInv(frames[i])

LoopInv == LoopType /\ ApiType /\ MaxfdIsHighest /\ KernelMatchesMask /\ ApiInv /\ ProcInv

CallInv == CallType /\ FiredInv /\ FramesInv

IInv == LoopInv /\ CallInv

-----------------------------------------------------------------------------
(* Facts about numbers, descriptors and masks.                             *)

LEMMA Constants ==
    /\ MaxFd \in Nat /\ Fd = 0..MaxFd
    /\ \A n \in Sizes : n \in 1..(MaxFd + 1)
    /\ Wild \notin Proc
BY AeAssumption DEF Fd, Proc

\* The scan of aeDeleteFileEvent finds a descriptor with an event, or none.
LEMMA HighestFound ==
    ASSUME NEW m \in [Fd -> SUBSET Flags], NEW top \in -1..MaxFd
    PROVE  /\ Highest(m, top) \in -1..top
           /\ Highest(m, top) = -1 \/ m[Highest(m, top)] # {}
           /\ \A k \in (Highest(m, top) + 1)..top : m[k] = {}
<1> DEFINE S == {j \in -1..top : j = -1 \/ m[j] # {}}
           T == {top - j : j \in S}
<1>1. T \in SUBSET Nat /\ top + 1 \in T
  BY Constants
<1>2. PICK x \in T : \A y \in T : x <= y
  <2> HIDE DEF T
  <2>1. PICK x \in T : \A y \in T : ~(<<y, x>> \in OpToRel(<, Nat))
    BY <1>1, NatLessThanWellFounded, WFMin, Zenon
  <2>2. ASSUME NEW y \in T PROVE ~(y < x)
    BY <1>1, <2>1, Zenon DEF OpToRel
  <2>3. \A y \in T : x <= y
    BY <1>1, <2>2
  <2> QED
    BY <2>3
<1>3. PICK h \in S : x = top - h
  OBVIOUS
<1>4. ASSUME NEW k \in (h + 1)..top PROVE m[k] = {}
  <2>1. SUFFICES ASSUME m[k] # {} PROVE FALSE
    OBVIOUS
  <2>2. k \in S
    BY <1>3, <2>1
  <2>3. top - h <= top - k
    BY <1>2, <1>3, <2>2
  <2> QED
    BY <1>3, <2>3, Constants
<1>5. \E j \in -1..top : /\ j = -1 \/ m[j] # {}
                         /\ \A k \in (j + 1)..top : m[k] = {}
  BY <1>3, <1>4
<1> HIDE DEF S, T
<1> QED
  BY <1>5, Zenon DEF Highest

-----------------------------------------------------------------------------
(* Registering and deleting events.                                        *)

LEMMA CreateStep ==
    ASSUME LoopInv, NEW fd \in Fd, NEW m \in {{R}, {W}, {W, B}}, NEW p \in Proc,
           aeCreateFileEvent(fd, m, p)
    PROVE  LoopInv'
<1> USE DEF LoopInv, LoopType, ApiType
<1>1. /\ fd < setsize /\ mask' = [mask EXCEPT ![fd] = @ \union m]
      /\ maxfd' = IF fd > maxfd THEN fd ELSE maxfd
      /\ UNCHANGED <<api, setsize, gen>>
      /\ rproc' = IF R \in m THEN [rproc EXCEPT ![fd] = p] ELSE rproc
      /\ wproc' = IF W \in m THEN [wproc EXCEPT ![fd] = p] ELSE wproc
  BY DEF aeCreateFileEvent
<1>2. m \in SUBSET Flags /\ m \intersect RW \in SUBSET RW /\ m # {}
  BY DEF Flags, RW
<1>3. LoopType'
  BY <1>1, <1>2, Constants
<1>4. MaxfdIsHighest'
  BY <1>1, <1>2, Constants DEF MaxfdIsHighest
<1>5. /\ \/ /\ pending[fd] # {} /\ kernel' = kernel
            /\ pending' = [pending EXCEPT ![fd] = @ \union m \union mask[fd]]
         \/ /\ pending[fd] = {} /\ pending' = pending
            /\ kernel' = [kernel EXCEPT ![fd] =
                             IF api \in {"epoll", "evport"}
                             THEN (m \union mask[fd]) \intersect RW
                             ELSE @ \union (m \intersect RW)]
  BY DEF aeCreateFileEvent, aeApiAddEvent
<1>6. ApiType'
  BY <1>2, <1>5 DEF Flags, RW
<1>7. ApiInv'
  BY <1>1, <1>5, Constants DEF ApiInv
<1>8. KernelMatchesMask'
  <2> SUFFICES ASSUME api # "evport", NEW d \in Fd, d < setsize
               PROVE  mask'[d] \intersect RW = kernel'[d] /\ pending'[d] = {}
    BY <1>1 DEF KernelMatchesMask, WatchedAsRegistered
  <2>1. pending[d] = {} /\ pending' = pending
    BY <1>5 DEF ApiInv
  <2>2. mask[d] \intersect RW = kernel[d]
    BY <2>1 DEF KernelMatchesMask, WatchedAsRegistered
  <2> QED
    BY <1>1, <1>2, <1>5, <2>1, <2>2
<1>9. ProcInv'
  BY <1>1, Constants DEF ProcInv
<1> QED
  BY <1>3, <1>4, <1>6, <1>7, <1>8, <1>9

LEMMA DeleteStep ==
    ASSUME LoopInv, NEW fd \in Fd, NEW m0 \in DeleteMasks, aeDeleteFileEvent(fd, m0)
    PROVE  LoopInv'
<1> USE DEF LoopInv, LoopType, ApiType
<1> DEFINE m == WithBarrier(m0)
<1>1. /\ fd < setsize /\ mask[fd] # {} /\ mask' = [mask EXCEPT ![fd] = @ \ m]
      /\ maxfd' = IF fd = maxfd /\ mask'[fd] = {} THEN Highest(mask', maxfd - 1) ELSE maxfd
      /\ UNCHANGED <<api, setsize, gen, rproc, wproc>>
  BY DEF aeDeleteFileEvent
<1>2. mask' \in [Fd -> SUBSET Flags] /\ \A d \in Fd : mask'[d] \subseteq mask[d]
  BY <1>1
<1>3. maxfd' \in -1..MaxFd /\ MaxfdIsHighest'
  <2>1. CASE fd = maxfd /\ mask'[fd] = {}
    <3>1. maxfd - 1 \in -1..MaxFd
      BY <2>1, Constants
    <3>0. maxfd' = Highest(mask', maxfd - 1)
      BY <1>1, <2>1
    <3>2. /\ maxfd' \in -1..(maxfd - 1) /\ (maxfd' = -1 \/ mask'[maxfd'] # {})
          /\ \A k \in (maxfd' + 1)..(maxfd - 1) : mask'[k] = {}
      BY ONLY <1>2, <3>0, <3>1, HighestFound
    <3>3. ASSUME NEW d \in Fd, maxfd' < d, d < setsize PROVE mask'[d] = {}
      <4>1. d \in Int /\ maxfd \in Int /\ maxfd' \in Int
        BY ONLY <3>2, <3>3, maxfd \in -1..MaxFd, Constants
      <4>2. d \in (maxfd' + 1)..(maxfd - 1) \/ d = maxfd \/ d > maxfd
        <5>1. \A a, b, e \in Int : a < e => e \in (a + 1)..(b - 1) \/ e = b \/ e > b
          OBVIOUS
        <5> QED
          BY ONLY <3>3, <4>1, <5>1, Zenon
      <4>3. d > maxfd => mask[d] = {}
        BY <3>3, <4>1 DEF MaxfdIsHighest
      <4> QED
        BY <1>2, <2>1, <3>2, <4>2, <4>3, Zenon
    <3>4. maxfd' \in -1..MaxFd /\ maxfd' < setsize /\ (maxfd' = -1 \/ maxfd' \in Fd)
      BY <3>1, <3>2, Constants DEF MaxfdIsHighest
    <3> QED
      BY <1>1, <3>2, <3>3, <3>4, Zenon DEF MaxfdIsHighest
  <2>2. CASE ~(fd = maxfd /\ mask'[fd] = {})
    BY <1>1, <1>2, <2>2 DEF MaxfdIsHighest
  <2> QED
    BY <2>1, <2>2
<1>4. \/ /\ pending[fd] # {} /\ kernel' = kernel
         /\ pending' = [pending EXCEPT ![fd] = @ \ m]
      \/ /\ pending[fd] = {} /\ pending' = pending
         /\ kernel' = [kernel EXCEPT ![fd] =
                         CASE api = "epoll"  -> (mask[fd] \ m) \intersect RW
                           [] api = "evport" -> mask[fd] \intersect RW
                           [] OTHER          -> @ \ m]
  BY DEF aeDeleteFileEvent, aeApiDelEvent
<1> HIDE DEF m
<1>5. ApiType' /\ ApiInv'
  <2>1. CASE pending[fd] # {}
    <3>1. PICK k \in SUBSET Flags : pending' = [pending EXCEPT ![fd] = k] /\ kernel' = kernel
      BY <1>4, <2>1
    <3>2. api = "evport"
      BY <2>1 DEF ApiInv
    <3> QED
      BY <1>1, <3>1, <3>2, Constants DEF ApiInv
  <2>2. CASE pending[fd] = {}
    <3>1. PICK k \in SUBSET RW : kernel' = [kernel EXCEPT ![fd] = k] /\ pending' = pending
      BY <1>4, <2>2
    <3> QED
      BY <1>1, <3>1, Constants DEF ApiInv
  <2> QED
    BY <2>1, <2>2
<1>6. KernelMatchesMask'
  <2> SUFFICES ASSUME api # "evport", NEW d \in Fd, d < setsize
               PROVE  mask'[d] \intersect RW = kernel'[d] /\ pending'[d] = {}
    BY <1>1 DEF KernelMatchesMask, WatchedAsRegistered
  <2>1. \A e \in Fd : pending[e] = {}
    BY DEF ApiInv
  <2>2. mask[d] \intersect RW = kernel[d]
    BY <2>1 DEF KernelMatchesMask, WatchedAsRegistered
  <2>3. /\ pending' = pending
        /\ kernel' = [kernel EXCEPT ![fd] = IF api = "epoll" THEN (mask[fd] \ m) \intersect RW
                                                             ELSE @ \ m]
    BY <1>4, <2>1
  <2> QED
    BY <1>1, <2>1, <2>2, <2>3
<1>7. ProcInv'
  BY <1>1, <1>2 DEF ProcInv
<1> QED
  BY <1>1, <1>2, <1>3, <1>5, <1>6, <1>7

\* The slots a larger set adds have no events: nothing is registered above maxfd.
LEMMA ResizeStep ==
    ASSUME LoopInv, NEW n \in Sizes, aeResizeSetSize(n)
    PROVE  LoopInv'
<1> USE DEF LoopInv, LoopType, ApiType
<1>1. /\ setsize < n /\ maxfd < n /\ setsize' = n /\ gen' = gen + 1
      /\ mask' = [fd \in Fd |-> IF fd > maxfd /\ fd < n THEN {} ELSE mask[fd]]
      /\ UNCHANGED <<api, maxfd, rproc, wproc, kernel, pending>>
  BY DEF aeResizeSetSize, InitialisedSlots, apiVars
<1>2. n \in 1..(MaxFd + 1)
  BY Constants
<1>3. LoopType' /\ ApiType'
  BY <1>1, <1>2
<1>4. ASSUME NEW fd \in Fd, fd < n
      PROVE  IF fd < setsize THEN mask'[fd] = mask[fd] ELSE mask'[fd] = {}
  BY <1>1, <1>2, <1>4, Constants DEF MaxfdIsHighest
<1>5. MaxfdIsHighest'
  BY <1>1, <1>2, Constants DEF MaxfdIsHighest
<1>6. ApiInv'
  BY <1>1, <1>2, Constants DEF ApiInv
<1>7. KernelMatchesMask'
  <2> SUFFICES ASSUME api # "evport", NEW d \in Fd, d < n
               PROVE  mask'[d] \intersect RW = kernel[d] /\ pending[d] = {}
    BY <1>1 DEF KernelMatchesMask, WatchedAsRegistered
  <2>1. pending[d] = {} /\ (~(d < setsize) => kernel[d] = {})
    BY Constants DEF ApiInv
  <2>2. d < setsize => mask[d] \intersect RW = kernel[d]
    BY <2>1 DEF KernelMatchesMask, WatchedAsRegistered
  <2> QED
    BY <1>4, <2>1, <2>2
<1>8. ProcInv'
  BY <1>1, <1>4 DEF ProcInv
<1> QED
  BY <1>3, <1>5, <1>6, <1>7, <1>8

-----------------------------------------------------------------------------
(* The running calls.                                                      *)

\* The array of events only grows, and while calls run it stays where it is.
LEMMA CallsKept ==
    ASSUME LoopType, CallInv, UNCHANGED <<fired, frames, api>>,
           setsize' \in Nat, setsize <= setsize',
           \/ UNCHANGED <<gen, mask, rproc, wproc>>
           \/ gen' = gen + 1 /\ (frames = <<>> \/ CommandsInHandlers)
    PROVE  CallInv'
<1> USE DEF CallInv, CallType
<1>1. FiredInv'
  <2>1. ASSUME NEW k \in 1..Len(fired) PROVE fired[k].fd < setsize'
    <3>1. fired[k] \in Entry /\ fired[k].fd < setsize
      BY DEF FiredInv
    <3>2. fired[k].fd \in Int
      BY <3>1, Constants DEF Entry
    <3> QED
      BY <3>1, <3>2 DEF LoopType
  <2> QED
    BY <2>1 DEF FiredInv
<1>2. ASSUME NEW i \in 1..Len(frames)
      PROVE  /\ BoundInv(frames[i])'
             /\ ~CommandsInHandlers => ValidInv(frames[i])'
             /\ EntryInv(frames[i])'
  <2>1. frames[i] \in Frame /\ frames'[i] = frames[i] /\ frames # <<>>
    OBVIOUS
  <2>2. BoundInv(frames[i])'
    <3>1. BoundInv(frames[i])
      BY DEF FramesInv
    <3>2. frames[i].n \in Nat /\ frames[i].fd \in Fd
      BY ONLY <2>1 DEF Frame
    <3>3. frames[i].fd \in Int
      BY ONLY <3>2, Constants
    <3> QED
      BY <2>1, <3>1, <3>2, <3>3 DEF BoundInv, LoopType
  <2>3. ~CommandsInHandlers => ValidInv(frames[i])'
    BY <2>1 DEF FramesInv, ValidInv
  <2>4. EntryInv(frames[i])'
    <3>1. EntryInv(frames[i]) /\ frames[i].gen \in Nat /\ gen \in Nat
      BY <2>1 DEF FramesInv, Frame, LoopType
    <3>2. CASE UNCHANGED <<gen, mask, rproc, wproc>>
      BY <2>1, <3>1, <3>2 DEF EntryInv, CalledAt, CalledAtEnd, CalledAfter, CalledBefore, Due
    <3>3. CASE gen' = gen + 1
      <4>1. /\ frames'[i].at \in {"poll", "next"} => frames'[i].called = <<>>
            /\ frames'[i].at \notin {"poll", "next"} => frames'[i].gen <= gen'
            /\ frames'[i].at \notin {"poll", "next"} => frames'[i].gen # gen'
        BY <2>1, <3>1, <3>3 DEF EntryInv
      <4> QED
        BY ONLY <4>1 DEF EntryInv
    <3> QED
      BY <3>2, <3>3
  <2> QED
    BY <2>2, <2>3, <2>4
<1>3. FramesInv'
  BY <1>2 DEF FramesInv
<1> QED
  BY <1>1, <1>3

\* The registration of fd changes, and the calls that handle an entry of it note that.
LEMMA ChangeNoted ==
    ASSUME LoopType, CallInv, NEW fd \in Fd, NoteChange(fd),
           UNCHANGED <<api, setsize, gen, fired>>,
           \A d \in Fd \ {fd} : /\ mask'[d] = mask[d]
                                /\ rproc'[d] = rproc[d] /\ wproc'[d] = wproc[d]
    PROVE  CallInv'
<1>1. frames \in Seq(Frame) /\ fired \in Seq(Entry) /\ DOMAIN frames = 1..Len(frames)
  BY DEF CallInv, CallType
<1> DEFINE Same == mask'[fd] = mask[fd] /\ rproc'[fd] = rproc[fd] /\ wproc'[fd] = wproc[fd]
           Noted(f) == IF f.fd = fd /\ f.at \notin {"poll", "next"}
                       THEN [f EXCEPT !.touched = 1, !.called = <<>>] ELSE f
<1>2. frames' = IF Same THEN frames ELSE [i \in 1..Len(frames) |-> Noted(frames[i])]
  BY <1>1, Zenon DEF NoteChange
<1>3. ASSUME NEW f \in Frame
      PROVE  /\ Noted(f) \in Frame
             /\ Noted(f).at = f.at /\ Noted(f).j = f.j /\ Noted(f).n = f.n
             /\ Noted(f).fd = f.fd /\ Noted(f).gen = f.gen
             /\ Noted(f).valid = f.valid /\ Noted(f).proc = f.proc
             /\ f.fd = fd /\ f.at \notin {"poll", "next"} => Noted(f).touched = 1
             /\ f.fd # fd \/ f.at \in {"poll", "next"} => Noted(f) = f
  <2>1. CASE f.fd = fd /\ f.at \notin {"poll", "next"}
    <3>1. Noted(f) = [f EXCEPT !.touched = 1, !.called = <<>>]
      BY <2>1
    <3>2. <<>> \in Seq(Proc \union {Wild})
      OBVIOUS
    <3>3. Noted(f) \in Frame
      BY <3>1, <3>2, Zenon DEF Frame
    <3> QED
      BY <2>1, <3>1, <3>3 DEF Frame
  <2>2. CASE ~(f.fd = fd /\ f.at \notin {"poll", "next"})
    BY <2>2
  <2> QED
    BY <2>1, <2>2
<1> HIDE DEF Noted
<1>4. ASSUME NEW f, f.fd \in Fd, f.fd # fd \/ Same, EntryInv(f) PROVE EntryInv(f)'
  <2>1. mask'[f.fd] = mask[f.fd] /\ rproc'[f.fd] = rproc[f.fd] /\ wproc'[f.fd] = wproc[f.fd]
    BY <1>4
  <2> QED
    BY ONLY <1>4, <2>1, gen' = gen
    DEF EntryInv, CalledAt, CalledAtEnd, CalledAfter, CalledBefore, Due
<1> HIDE DEF Same
<1>5. ASSUME NEW f \in Frame, BoundInv(f), ~CommandsInHandlers => ValidInv(f), EntryInv(f),
             NEW g, g = IF Same THEN f ELSE Noted(f)
      PROVE  /\ g \in Frame /\ BoundInv(g)'
             /\ ~CommandsInHandlers => ValidInv(g)'
             /\ EntryInv(g)'
  <2>1. f.fd \in Fd
    BY DEF Frame
  <2>2. /\ g \in Frame /\ g.at = f.at /\ g.j = f.j /\ g.n = f.n /\ g.fd = f.fd
        /\ g.gen = f.gen /\ g.valid = f.valid /\ g.proc = f.proc
    BY <1>3, <1>5
  <2>3. BoundInv(g)'
    BY <1>5, <2>2 DEF BoundInv
  <2>4. ~CommandsInHandlers => ValidInv(g)'
    BY <1>5, <2>2 DEF ValidInv
  <2>5. EntryInv(g)'
    <3>1. CASE f.fd # fd \/ Same \/ f.at \in {"poll", "next"}
      <4>1. g = f
        BY <1>3, <1>5, <3>1
      <4>2. CASE f.at \in {"poll", "next"}
        BY <1>5, <4>1, <4>2 DEF EntryInv
      <4>3. CASE f.fd # fd \/ Same
        <5>1. EntryInv(f)'
          BY <1>4, <1>5, <2>1, <4>3
        <5> QED
          BY <4>1, <5>1
      <4> QED
        BY <3>1, <4>2, <4>3
    <3>2. CASE ~(f.fd # fd \/ Same \/ f.at \in {"poll", "next"})
      <4>1. g.touched = 1
        BY <1>3, <1>5, <3>2
      <4>2. f.at \notin {"poll", "next"} => f.gen <= gen
        BY <1>5 DEF EntryInv
      <4> QED
        BY <2>2, <3>2, <4>1, <4>2 DEF EntryInv
    <3> QED
      BY <3>1, <3>2
  <2> QED
    BY <2>2, <2>3, <2>4, <2>5
<1>6. ASSUME NEW i \in 1..Len(frames)
      PROVE  /\ frames[i] \in Frame /\ BoundInv(frames[i])
             /\ ~CommandsInHandlers => ValidInv(frames[i])
             /\ EntryInv(frames[i])
             /\ frames'[i] = IF Same THEN frames[i] ELSE Noted(frames[i])
  BY <1>1, <1>2 DEF CallInv, FramesInv
<1>7. frames' \in Seq(Frame) /\ Len(frames') = Len(frames)
  <2>1. CASE Same
    BY <1>1, <1>2, <2>1
  <2>2. CASE ~Same
    <3>1. frames' = [i \in 1..Len(frames) |-> Noted(frames[i])]
      BY <1>2, <2>2
    <3>2. \A i \in 1..Len(frames) : Noted(frames[i]) \in Frame
      BY <1>3, <1>6
    <3>3. Len(frames) \in Nat
      BY <1>1
    <3> QED
      BY ONLY <3>1, <3>2, <3>3
  <2> QED
    BY <2>1, <2>2
<1>8. ASSUME NEW i \in 1..Len(frames'), NEW g, g = frames'[i]
      PROVE  /\ BoundInv(g)'
             /\ ~CommandsInHandlers => ValidInv(g)'
             /\ EntryInv(g)'
  BY <1>5, <1>6, <1>7, <1>8
<1>9. FramesInv'
  <2>1. SUFFICES ASSUME NEW i \in 1..Len(frames')
                 PROVE  /\ BoundInv(frames[i])'
                        /\ ~CommandsInHandlers => ValidInv(frames[i])'
                        /\ EntryInv(frames[i])'
    BY DEF FramesInv
  <2>2. PICK g : g = frames'[i]
    OBVIOUS
  <2>3. /\ BoundInv(g)'
        /\ ~CommandsInHandlers => ValidInv(g)'
        /\ EntryInv(g)'
    BY <1>8, <2>2
  <2>4. BoundInv(frames[i])'
    BY ONLY <2>2, <2>3 DEF BoundInv
  <2>5. ~CommandsInHandlers => ValidInv(frames[i])'
    BY ONLY <2>2, <2>3 DEF ValidInv
  <2>6. EntryInv(frames[i])'
    BY ONLY <2>2, <2>3
    DEF EntryInv, CalledAt, CalledAtEnd, CalledAfter, CalledBefore, Due
  <2> QED
    BY <2>4, <2>5, <2>6
<1> QED
  BY <1>1, <1>7, <1>9 DEF CallInv, CallType, FiredInv

LEMMA TopFacts ==
    ASSUME CallInv, frames # <<>>
    PROVE  /\ Len(frames) \in Nat \ {0} /\ Len(frames) \in 1..Len(frames)
           /\ Top \in Frame /\ BoundInv(Top)
           /\ ~CommandsInHandlers => ValidInv(Top)
           /\ EntryInv(Top)
BY DEF CallInv, CallType, FramesInv, Top

\* The innermost call goes on to f.
LEMMA TopStep ==
    ASSUME CallInv, frames # <<>>, NEW f \in Frame, SetTop(f),
           UNCHANGED <<loopVars, fired>>, BoundInv(f),
           ~CommandsInHandlers => ValidInv(f),
           EntryInv(f)
    PROVE  CallInv'
<1>1. /\ frames' = [frames EXCEPT ![Len(frames)] = f] /\ UNCHANGED <<api, setsize, gen, fired>>
      /\ frames \in Seq(Frame) /\ fired \in Seq(Entry)
  BY DEF SetTop, loopVars, CallInv, CallType
<1>2. /\ frames' \in Seq(Frame) /\ Len(frames') = Len(frames)
      /\ \A i \in 1..Len(frames) : frames'[i] = IF i = Len(frames) THEN f ELSE frames[i]
  BY <1>1
<1>3. CallType' /\ FiredInv'
  BY <1>1, <1>2 DEF CallInv, CallType, FiredInv
<1>4. ASSUME NEW g, BoundInv(g) PROVE BoundInv(g)'
  BY <1>1, <1>4 DEF BoundInv
<1>5. ASSUME NEW g, ValidInv(g) PROVE ValidInv(g)'
  BY <1>1, <1>5 DEF ValidInv
<1>6. ASSUME NEW g, EntryInv(g) PROVE EntryInv(g)'
  <2>1. UNCHANGED <<gen, mask, rproc, wproc>>
    BY DEF loopVars
  <2> QED
    BY ONLY <1>6, <2>1
    DEF EntryInv, CalledAt, CalledAtEnd, CalledAfter, CalledBefore, Due
<1>7. ASSUME NEW i \in 1..Len(frames), NEW g, g = frames'[i]
      PROVE  /\ BoundInv(g)'
             /\ ~CommandsInHandlers => ValidInv(g)'
             /\ EntryInv(g)'
  <2>1. CASE i = Len(frames)
    BY <1>2, <1>4, <1>5, <1>6, <1>7, <2>1
  <2>2. CASE i # Len(frames)
    BY <1>2, <1>4, <1>5, <1>6, <1>7, <2>2 DEF CallInv, FramesInv
  <2> QED
    BY <2>1, <2>2
<1>8. FramesInv'
  <2>1. SUFFICES ASSUME NEW i \in 1..Len(frames')
                 PROVE  /\ BoundInv(frames[i])'
                        /\ ~CommandsInHandlers => ValidInv(frames[i])'
                        /\ EntryInv(frames[i])'
    BY DEF FramesInv
  <2>2. PICK g : g = frames'[i]
    OBVIOUS
  <2>3. /\ BoundInv(g)'
        /\ ~CommandsInHandlers => ValidInv(g)'
        /\ EntryInv(g)'
    BY <1>1, <1>2, <1>7, <2>2, Zenon
  <2>4. BoundInv(frames[i])'
    BY ONLY <2>2, <2>3 DEF BoundInv
  <2>5. ~CommandsInHandlers => ValidInv(frames[i])'
    BY ONLY <2>2, <2>3 DEF ValidInv
  <2>6. EntryInv(frames[i])'
    BY ONLY <2>2, <2>3
    DEF EntryInv, CalledAt, CalledAtEnd, CalledAfter, CalledBefore, Due
  <2> QED
    BY <2>4, <2>5, <2>6
<1> QED
  BY <1>3, <1>8 DEF CallInv

-----------------------------------------------------------------------------
(* The steps of aeProcessEvents.                                           *)

\* A load through the pointer into the events array.
LEMMA Loads ==
    ASSUME LoopType, NEW f \in Frame, NEW proc \in [Fd -> Proc \union {Wild}]
    PROVE  /\ \A p \in FeProcs(f, proc) : p \in Proc \union {Wild}
           /\ f.gen = gen => /\ \A m \in FeMasks(f) : m = mask[f.fd]
                             /\ \A p \in FeProcs(f, proc) : p = proc[f.fd]
BY DEF LoopType, Frame, FeProcs, FeMasks

LEMMA AppendStep == ASSUME CallInv, aeProcessEvents PROVE CallInv'
<1>1. /\ frames' = Append(frames, NewFrame) /\ UNCHANGED <<api, setsize, gen, fired>>
      /\ frames \in Seq(Frame) /\ fired \in Seq(Entry)
  BY DEF aeProcessEvents, loopVars, CallInv, CallType
<1>2. NewFrame \in Frame
  BY Constants DEF NewFrame, Frame, Place
<1>3. /\ frames' \in Seq(Frame) /\ Len(frames') = Len(frames) + 1
      /\ \A i \in 1..Len(frames') :
            (i \in 1..Len(frames) /\ frames'[i] = frames[i]) \/ frames'[i] = NewFrame
  BY <1>1, <1>2
<1>4. BoundInv(NewFrame)' /\ ValidInv(NewFrame)' /\ EntryInv(NewFrame)'
  BY Zenon DEF BoundInv, ValidInv, EntryInv, NewFrame, InHandler
<1>5. ASSUME NEW i \in 1..Len(frames)
      PROVE  /\ BoundInv(frames[i])'
             /\ ~CommandsInHandlers => ValidInv(frames[i])'
             /\ EntryInv(frames[i])'
  <2>1. /\ BoundInv(frames[i])
        /\ ~CommandsInHandlers => ValidInv(frames[i])
        /\ EntryInv(frames[i])
    BY DEF CallInv, FramesInv
  <2>2. frames'[i] = frames[i]
    BY <1>1
  <2>3. UNCHANGED <<api, setsize, gen, mask, rproc, wproc, fired>>
    BY <1>1 DEF aeProcessEvents, loopVars
  <2>4. BoundInv(frames[i])'
    BY ONLY <2>1, <2>2, <2>3 DEF BoundInv
  <2>5. ~CommandsInHandlers => ValidInv(frames[i])'
    BY ONLY <2>1, <2>2, <2>3 DEF ValidInv
  <2>6. EntryInv(frames[i])'
    BY ONLY <2>1, <2>2, <2>3
    DEF EntryInv, CalledAt, CalledAtEnd, CalledAfter, CalledBefore, Due
  <2> QED
    BY <2>4, <2>5, <2>6
<1>6. FramesInv'
  <2>1. SUFFICES ASSUME NEW i \in 1..Len(frames')
                 PROVE  /\ BoundInv(frames[i])'
                        /\ ~CommandsInHandlers => ValidInv(frames[i])'
                        /\ EntryInv(frames[i])'
    BY DEF FramesInv
  <2>2. CASE i \in 1..Len(frames) /\ frames'[i] = frames[i]
    BY <1>1, <1>5, <2>2
  <2>3. CASE frames'[i] = NewFrame
    <3>1. BoundInv(frames[i])'
      BY ONLY <1>4, <2>3 DEF BoundInv, NewFrame
    <3>2. ValidInv(frames[i])'
      BY ONLY <1>4, <2>3 DEF ValidInv, NewFrame
    <3>3. EntryInv(frames[i])'
      BY ONLY <1>4, <2>3, Zenon DEF EntryInv, NewFrame
    <3> QED
      BY <3>1, <3>2, <3>3
  <2> QED
    BY <1>3, <2>2, <2>3
<1> QED
  BY <1>1, <1>3, <1>6 DEF CallInv, CallType, FiredInv

LEMMA ReturnStep == ASSUME CallInv, LoopReturns PROVE CallInv'
<1>1. /\ frames' = SubSeq(frames, 1, Len(frames) - 1) /\ frames # <<>>
      /\ fired' = IF Len(frames) = 1 THEN <<>> ELSE fired
      /\ UNCHANGED <<api, setsize, gen>>
      /\ frames \in Seq(Frame) /\ fired \in Seq(Entry)
  BY DEF LoopReturns, At, loopVars, CallInv, CallType
<1>2. CASE Len(frames) = 1
  <2>1. frames' = <<>> /\ fired' = <<>>
    BY <1>1, <1>2
  <2>2. CallType'
    BY ONLY <2>1 DEF CallType
  <2>3. FiredInv' /\ FramesInv'
    BY ONLY <2>1 DEF FiredInv, FramesInv
  <2> QED
    BY <2>2, <2>3 DEF CallInv
<1>3. CASE Len(frames) # 1
  <2>1. /\ frames' \in Seq(Frame) /\ Len(frames') = Len(frames) - 1 /\ fired' = fired
        /\ \A i \in 1..Len(frames') : i \in 1..Len(frames) /\ frames'[i] = frames[i]
    <3>1. Len(frames) \in Nat /\ Len(frames) >= 2
      <4>1. Len(frames) \in Nat \ {0}
        BY <1>1, TopFacts
      <4>2. \A l \in Nat : l # 0 /\ l # 1 => l >= 2
        OBVIOUS
      <4> QED
        BY ONLY <4>1, <4>2, <1>3, Zenon
    <3>2. \A i \in 1..(Len(frames) - 1) : frames[i] \in Frame
      BY <1>1, <3>1
    <3>3. /\ frames' \in Seq(Frame) /\ Len(frames') = Len(frames) - 1
          /\ \A i \in 1..Len(frames) - 1 : frames'[i] = frames[1 + i - 1]
      BY ONLY <1>1, <3>1, <3>2
    <3> QED
      BY <1>1, <1>3, <3>1, <3>3
  <2>2. ASSUME NEW i \in 1..Len(frames')
        PROVE  /\ BoundInv(frames[i])'
               /\ ~CommandsInHandlers => ValidInv(frames[i])'
               /\ EntryInv(frames[i])'
    <3>1. /\ BoundInv(frames[i])
          /\ ~CommandsInHandlers => ValidInv(frames[i])
          /\ EntryInv(frames[i])
      BY <2>1 DEF CallInv, FramesInv
    <3>2. frames'[i] = frames[i]
      BY <2>1
    <3>3. UNCHANGED <<api, setsize, gen, mask, rproc, wproc, fired>>
      BY <1>1, <2>1 DEF LoopReturns, loopVars
    <3>4. BoundInv(frames[i])'
      BY ONLY <3>1, <3>2, <3>3 DEF BoundInv
    <3>5. ~CommandsInHandlers => ValidInv(frames[i])'
      BY ONLY <3>1, <3>2, <3>3 DEF ValidInv
    <3>6. EntryInv(frames[i])'
      BY ONLY <3>1, <3>2, <3>3
      DEF EntryInv, CalledAt, CalledAtEnd, CalledAfter, CalledBefore, Due
    <3> QED
      BY <3>4, <3>5, <3>6
  <2>3. FramesInv'
    BY <1>1, <2>1, <2>2 DEF FramesInv
  <2> QED
    BY <1>1, <2>1, <2>3 DEF CallInv, CallType, FiredInv
<1> QED
  BY <1>2, <1>3

LEMMA NextEntryStep == ASSUME LoopType, CallInv, NextEntry PROVE CallInv'
<1>1. frames # <<>> /\ Top.at = "next" /\ Top.j <= Top.n /\ UNCHANGED <<loopVars, fired>>
  BY DEF NextEntry, At
<1>2. /\ Top \in Frame /\ BoundInv(Top)
      /\ ~CommandsInHandlers => ValidInv(Top)
      /\ EntryInv(Top)
  BY <1>1, TopFacts
<1>3. Top.j \in 1..Top.n /\ Top.j \in 1..Len(fired) /\ Top.n \in Nat
  BY <1>1, <1>2 DEF Frame, BoundInv, CallInv, CallType
<1>4. PICK e : e = fired[Top.j]
  OBVIOUS
<1>5. e \in Entry /\ e.fd \in Fd /\ e.mask \in SUBSET RW /\ e.fd < setsize
  <2>1. e \in Entry /\ e.fd < setsize
    BY <1>3, <1>4 DEF CallInv, CallType, FiredInv
  <2> QED
    BY <2>1 DEF Entry
<1>6. PICK f : f = [Top EXCEPT !.at = "read", !.fd = e.fd, !.mask = e.mask,
                              !.invert = IF B \in mask[e.fd] THEN 1 ELSE 0,
                              !.fired = 0, !.gen = gen, !.proc = Wild]
  OBVIOUS
<1>7. SetTop(f)
  BY <1>4, <1>6 DEF NextEntry
<1>8. f \in Frame
  BY <1>2, <1>5, <1>6, Zenon DEF Frame, Place, LoopType
<1>9. /\ f.at = "read" /\ f.fd = e.fd /\ f.n = Top.n /\ f.j = Top.j /\ f.gen = gen
      /\ f.valid = Top.valid /\ f.called = Top.called /\ f.fired = 0
      /\ f.invert = IF B \in mask[f.fd] THEN 1 ELSE 0
  BY <1>2, <1>6 DEF Frame
<1>10. BoundInv(f)
  BY <1>1, <1>2, <1>5, <1>9 DEF BoundInv
<1>11. ~CommandsInHandlers => ValidInv(f)
  BY <1>2, <1>9 DEF ValidInv, InHandler
<1>12. EntryInv(f)
  <2>1. f.called = <<>> /\ gen \in Nat
    BY <1>1, <1>2, <1>9 DEF EntryInv, LoopType
  <2> QED
    BY <1>9, <2>1 DEF EntryInv, CalledAt
<1> QED
  BY <1>1, <1>7, <1>8, <1>10, <1>11, <1>12, TopStep

SameEntry(f, g) ==
    f.fd = g.fd /\ f.mask = g.mask /\ f.invert = g.invert /\ f.touched = g.touched

LEMMA SameCalls ==
    ASSUME NEW f, NEW g, SameEntry(f, g)
    PROVE  /\ Due(f) = Due(g) /\ CalledBefore(f) = CalledBefore(g)
           /\ CalledAfter(f) = CalledAfter(g) /\ CalledAtEnd(f) = CalledAtEnd(g)
BY DEF SameEntry, Due, CalledBefore, CalledAfter, CalledAtEnd

LEMMA Singleton ==
    ASSUME NEW p
    PROVE  Append(<<>>, p) = <<p>> /\ <<p>> # <<>>
OBVIOUS

LEMMA Pair ==
    ASSUME NEW p, NEW q
    PROVE  Append(<<p>>, q) = <<p, q>>
<1>1. <<p>> \in Seq({p, q}) /\ <<p, q>> \in Seq({p, q})
  OBVIOUS
<1>2. /\ Append(<<p>>, q) \in Seq({p, q}) /\ Len(Append(<<p>>, q)) = 2
      /\ Append(<<p>>, q)[1] = p /\ Append(<<p>>, q)[2] = q
  BY <1>1
<1>3. Len(<<p, q>>) = 2 /\ <<p, q>>[1] = p /\ <<p, q>>[2] = q
  OBVIOUS
<1>4. PICK s \in Seq({p, q}) : s = Append(<<p>>, q)
  BY <1>2
<1>5. PICK t \in Seq({p, q}) : t = <<p, q>>
  BY <1>1
<1>6. /\ s = [i \in 1..2 |-> s[i]] /\ t = [i \in 1..2 |-> t[i]]
      /\ s[1] = t[1] /\ s[2] = t[2]
  BY <1>2, <1>3, <1>4, <1>5
<1>7. \A i \in 1..2 : s[i] = t[i]
  BY <1>6
<1> QED
  BY <1>4, <1>5, <1>6, <1>7

LEMMA Appended ==
    ASSUME NEW s \in Seq(Proc \union {Wild}), NEW p \in Proc \union {Wild}
    PROVE  /\ Append(s, p) \in Seq(Proc \union {Wild}) /\ Append(s, p) # <<>>
           /\ s = <<>> => Append(s, p) = <<p>>
<1>1. Append(s, p) \in Seq(Proc \union {Wild}) /\ Len(Append(s, p)) = Len(s) + 1
  OBVIOUS
<1>2. Append(s, p) # <<>>
  <2>1. Len(<<>>) = 0 /\ Len(s) + 1 # 0
    OBVIOUS
  <2> QED
    BY <1>1, <2>1
<1>3. ASSUME s = <<>> PROVE Append(s, p) = <<p>>
  BY <1>3, Singleton
<1> QED
  BY <1>1, <1>2, <1>3

\* A handler that is called is added to those of the entry, unless it is touched.
LEMMA CallNoted ==
    ASSUME NEW f \in Frame, NEW p \in Proc \union {Wild}
    PROVE  /\ WithCall(f, p) \in Seq(Proc \union {Wild})
           /\ f.touched = 0 => /\ WithCall(f, p) = Append(f.called, p)
                               /\ WithCall(f, p) # <<>>
<1>1. f.called \in Seq(Proc \union {Wild})
  BY DEF Frame
<1>2. <<>> \in Seq(Proc \union {Wild})
  OBVIOUS
<1> QED
  BY <1>1, <1>2, Appended DEF WithCall

\* The innermost call goes on with the same entry.
LEMMA EntryStep ==
    ASSUME LoopType, CallInv, frames # <<>>, UNCHANGED <<loopVars, fired>>,
           Top.at \in {"read", "inread", "write", "inwrite", "late"},
           NEW f \in Frame, SetTop(f),
           f.at \in {"inread", "write", "inwrite", "late", "inlate"},
           f.j = Top.j, f.n = Top.n, f.gen = Top.gen, SameEntry(f, Top),
           Top.gen = gen /\ Top.touched = 0 =>
              f.called = CalledAt(f) /\ (f.fired = 0 <=> f.called = <<>>),
           ~CommandsInHandlers => f.valid = 1 /\ (f.at \in InHandler => f.proc # Wild)
    PROVE  CallInv'
<1>1. /\ Top \in Frame /\ BoundInv(Top)
      /\ ~CommandsInHandlers => ValidInv(Top)
      /\ EntryInv(Top)
  BY TopFacts
<1>2. BoundInv(f)
  BY <1>1 DEF BoundInv, SameEntry
<1>3. ~CommandsInHandlers => ValidInv(f)
  BY <1>1 DEF ValidInv
<1>4. EntryInv(f)
  BY <1>1 DEF EntryInv, SameEntry
<1> QED
  BY <1>2, <1>3, <1>4, TopStep

LEMMA AdvanceStep ==
    ASSUME LoopType, CallInv, frames # <<>>, UNCHANGED <<loopVars, fired>>,
           Top.at \in {"late", "inlate"}, SetTop(Advance(Top))
    PROVE  CallInv'
<1>1. /\ Top \in Frame /\ BoundInv(Top)
      /\ ~CommandsInHandlers => ValidInv(Top)
      /\ EntryInv(Top)
  BY TopFacts
<1>2. Top.j \in 1..Top.n /\ Top.n \in Nat /\ Top.n <= Len(fired) /\ Top.n <= setsize
  BY <1>1 DEF Frame, BoundInv
<1>4. PICK f : f = Advance(Top)
  OBVIOUS
<1>5. f = [at |-> "next", j |-> Top.j + 1, n |-> Top.n, fd |-> 0, mask |-> {},
           invert |-> 0, fired |-> 0, gen |-> 0, proc |-> Wild,
           valid |-> Top.valid, called |-> <<>>, touched |-> 0]
  BY <1>4, Zenon DEF Advance, NewFrame
<1>6. f \in Frame
  <2>1. <<>> \in Seq(Proc \union {Wild})
    OBVIOUS
  <2>2. /\ Top.j + 1 \in Nat \ {0} /\ Top.n \in Nat /\ 0 \in Fd /\ {} \in SUBSET RW
        /\ Top.valid \in {0, 1} /\ "next" \in Place
    BY <1>1, <1>2, Constants DEF Frame, Place
  <2> QED
    BY <1>5, <2>1, <2>2 DEF Frame
<1>7. BoundInv(f)
  BY <1>2, <1>5 DEF BoundInv
<1>8. ~CommandsInHandlers => ValidInv(f)
  BY <1>1, <1>5 DEF ValidInv, InHandler
<1>9. EntryInv(f)
  BY <1>5 DEF EntryInv
<1> QED
  BY <1>4, <1>6, <1>7, <1>8, <1>9, TopStep

\* A handler of the entry's event is called, or none.
LEMMA ReadableStep == ASSUME LoopInv, CallInv, FireReadable PROVE CallInv'
<1>1. frames # <<>> /\ Top.at = "read" /\ UNCHANGED <<loopVars, fired>> /\ LoopType
  BY DEF FireReadable, At, LoopInv
<1>2. /\ Top \in Frame /\ BoundInv(Top) /\ Top.fd < setsize /\ EntryInv(Top)
      /\ ~CommandsInHandlers => ValidInv(Top) /\ Top.gen = gen /\ Top.valid = 1
  BY <1>1, TopFacts DEF BoundInv, ValidInv
<1>3. PICK m \in FeMasks(Top), p \in FeProcs(Top, rproc) :
        IF Top.invert = 0 /\ R \in m \intersect Top.mask
        THEN SetTop([Top EXCEPT !.at = "inread", !.fired = 1, !.proc = p,
                                !.valid = IF R \in mask[Top.fd] THEN @ ELSE 0,
                                !.called = WithCall(Top, p)])
        ELSE SetTop([Top EXCEPT !.at = "write"])
  BY Zenon DEF FireReadable
<1> DEFINE Runs == Top.invert = 0 /\ R \in m \intersect Top.mask
<1>4. /\ p \in Proc \union {Wild}
      /\ Top.gen = gen => /\ m = mask[Top.fd] /\ p = rproc[Top.fd]
  BY <1>1, <1>2, <1>3, Loads DEF LoopType
<1>5. Top.gen = gen /\ Top.touched = 0 =>
        /\ Top.called = <<>> /\ (Top.fired = 0 <=> Top.called = <<>>)
        /\ CalledBefore(Top) = IF Runs THEN Append(Top.called, p) ELSE Top.called
  <2> SUFFICES ASSUME Top.gen = gen, Top.touched = 0
               PROVE  /\ Top.called = <<>> /\ (Top.fired = 0 <=> Top.called = <<>>)
                      /\ CalledBefore(Top) = IF Runs THEN Append(Top.called, p) ELSE Top.called
    BY Zenon
  <2>1. Top.called = <<>> /\ (Top.fired = 0 <=> Top.called = <<>>)
    BY <1>1, <1>2 DEF EntryInv, CalledAt
  <2> QED
    BY <1>4, <2>1, Appended DEF CalledBefore, Due
<1>6. CASE Runs
  <2>1. PICK f : f = [Top EXCEPT !.at = "inread", !.fired = 1, !.proc = p,
                                !.valid = IF R \in mask[Top.fd] THEN @ ELSE 0,
                                !.called = WithCall(Top, p)]
    BY Zenon
  <2>2. SetTop(f)
    BY <1>3, <1>6, <2>1
  <2>3. PICK v \in {0, 1} : v = IF R \in mask[Top.fd] THEN Top.valid ELSE 0
    BY <1>2 DEF Frame
  <2>4. /\ "inread" \in Place /\ 1 \in Nat
        /\ WithCall(Top, p) \in Seq(Proc \union {Wild})
        /\ Top.touched = 0 => /\ WithCall(Top, p) = Append(Top.called, p)
                              /\ WithCall(Top, p) # <<>>
    BY <1>2, <1>4, CallNoted DEF Place, InHandler, Frame
  <2>5. f \in Frame
    BY <1>2, <1>4, <2>1, <2>3, <2>4, Zenon DEF Frame
  <2>6. /\ f.at = "inread" /\ f.j = Top.j /\ f.n = Top.n /\ f.gen = Top.gen
        /\ SameEntry(f, Top) /\ f.fired = 1
        /\ f.called = WithCall(Top, p) /\ f.proc = p /\ f.valid = v
    BY <1>2, <2>1, <2>3 DEF Frame, SameEntry
  <2>7. ~CommandsInHandlers => f.valid = 1 /\ f.proc # Wild
    BY <1>2, <1>4, <1>6, <2>3, <2>6 DEF LoopInv, ProcInv, Frame
  <2>8. Top.gen = gen /\ Top.touched = 0 =>
            f.called = CalledAt(f) /\ (f.fired = 0 <=> f.called = <<>>)
    <3>1. CalledAt(f) = CalledBefore(Top)
      BY <2>6, SameCalls DEF CalledAt
    <3>2. f.fired # 0
      BY <1>2, <2>6 DEF Frame
    <3> QED
      BY <1>5, <1>6, <2>4, <2>6, <3>1, <3>2
  <2> QED
    BY <1>1, <2>2, <2>5, <2>6, <2>7, <2>8, EntryStep
<1>7. CASE ~Runs
  <2>1. PICK f : f = [Top EXCEPT !.at = "write"]
    BY Zenon
  <2>2. SetTop(f)
    BY <1>3, <1>7, <2>1
  <2>3. "write" \in Place /\ "write" \notin InHandler
    BY DEF Place, InHandler
  <2>4. f \in Frame
    BY <1>2, <2>1, <2>3 DEF Frame
  <2>5. /\ f.at = "write" /\ f.j = Top.j /\ f.n = Top.n /\ f.gen = Top.gen
        /\ SameEntry(f, Top) /\ f.fired = Top.fired
        /\ f.called = Top.called /\ f.valid = Top.valid
    BY <1>2, <2>1 DEF Frame, SameEntry
  <2>6. CalledAt(f) = CalledBefore(Top)
    BY <2>5, SameCalls DEF CalledAt
  <2>7. Top.gen = gen /\ Top.touched = 0 =>
            f.called = CalledAt(f) /\ (f.fired = 0 <=> f.called = <<>>)
    BY <1>5, <1>7, <2>5, <2>6
  <2> QED
    BY <1>1, <1>2, <2>2, <2>3, <2>4, <2>5, <2>7, EntryStep
<1> QED
  BY <1>6, <1>7

LEMMA WritableStep == ASSUME LoopInv, CallInv, FireWritable PROVE CallInv'
<1>1. frames # <<>> /\ Top.at = "write" /\ UNCHANGED <<loopVars, fired>> /\ LoopType
  BY DEF FireWritable, At, LoopInv
<1>2. /\ Top \in Frame /\ BoundInv(Top) /\ Top.fd < setsize /\ EntryInv(Top)
      /\ ~CommandsInHandlers => ValidInv(Top) /\ Top.gen = gen /\ Top.valid = 1
  BY <1>1, TopFacts DEF BoundInv, ValidInv
<1>3. PICK m \in FeMasks(Top), rp \in FeProcs(Top, rproc), wp \in FeProcs(Top, wproc) :
        IF W \in m \intersect Top.mask /\ (Top.fired = 0 \/ wp # rp)
        THEN SetTop([Top EXCEPT !.at = "inwrite", !.fired = @ + 1, !.proc = wp,
                                !.valid = IF W \in mask[Top.fd] THEN @ ELSE 0,
                                !.called = WithCall(Top, wp)])
        ELSE SetTop([Top EXCEPT !.at = "late"])
  BY Zenon DEF FireWritable
<1> DEFINE Runs == W \in m \intersect Top.mask /\ (Top.fired = 0 \/ wp # rp)
<1>4. /\ wp \in Proc \union {Wild}
      /\ Top.gen = gen => /\ m = mask[Top.fd] /\ wp = wproc[Top.fd]
                          /\ rp = rproc[Top.fd]
  BY <1>1, <1>2, <1>3, Loads DEF LoopType
<1>5. Top.gen = gen /\ Top.touched = 0 =>
        /\ Top.called = CalledBefore(Top) /\ (Top.fired = 0 <=> Top.called = <<>>)
        /\ CalledAfter(Top) = IF Runs THEN Append(Top.called, wp) ELSE Top.called
  <2> SUFFICES ASSUME Top.gen = gen, Top.touched = 0
               PROVE  /\ Top.called = CalledBefore(Top) /\ (Top.fired = 0 <=> Top.called = <<>>)
                      /\ CalledAfter(Top) = IF Runs THEN Append(Top.called, wp) ELSE Top.called
    BY Zenon
  <2>1. Top.called = CalledBefore(Top) /\ (Top.fired = 0 <=> Top.called = <<>>)
    BY <1>1, <1>2 DEF EntryInv, CalledAt
  <2> QED
    BY <1>4, <2>1 DEF CalledAfter, Due
<1>6. CASE Runs
  <2>1. PICK f : f = [Top EXCEPT !.at = "inwrite", !.fired = @ + 1, !.proc = wp,
                                !.valid = IF W \in mask[Top.fd] THEN @ ELSE 0,
                                !.called = WithCall(Top, wp)]
    BY Zenon
  <2>2. SetTop(f)
    BY <1>3, <1>6, <2>1
  <2>3. PICK v \in {0, 1} : v = IF W \in mask[Top.fd] THEN Top.valid ELSE 0
    BY <1>2 DEF Frame
  <2>4. /\ "inwrite" \in Place /\ Top.fired + 1 \in Nat
        /\ WithCall(Top, wp) \in Seq(Proc \union {Wild})
        /\ Top.touched = 0 => /\ WithCall(Top, wp) = Append(Top.called, wp)
                              /\ WithCall(Top, wp) # <<>>
    BY <1>2, <1>4, CallNoted DEF Place, InHandler, Frame
  <2>5. f \in Frame
    BY <1>2, <1>4, <2>1, <2>3, <2>4, Zenon DEF Frame
  <2>6. /\ f.at = "inwrite" /\ f.j = Top.j /\ f.n = Top.n /\ f.gen = Top.gen
        /\ SameEntry(f, Top) /\ f.fired = Top.fired + 1
        /\ f.called = WithCall(Top, wp) /\ f.proc = wp /\ f.valid = v
    BY <1>2, <2>1, <2>3 DEF Frame, SameEntry
  <2>7. ~CommandsInHandlers => f.valid = 1 /\ f.proc # Wild
    BY <1>2, <1>4, <1>6, <2>3, <2>6 DEF LoopInv, ProcInv, Frame
  <2>8. Top.gen = gen /\ Top.touched = 0 =>
            f.called = CalledAt(f) /\ (f.fired = 0 <=> f.called = <<>>)
    <3>1. CalledAt(f) = CalledAfter(Top)
      BY <2>6, SameCalls DEF CalledAt
    <3>2. f.fired # 0
      BY <1>2, <2>6 DEF Frame
    <3> QED
      BY <1>5, <1>6, <2>4, <2>6, <3>1, <3>2
  <2> QED
    BY <1>1, <2>2, <2>5, <2>6, <2>7, <2>8, EntryStep
<1>7. CASE ~Runs
  <2>1. PICK f : f = [Top EXCEPT !.at = "late"]
    BY Zenon
  <2>2. SetTop(f)
    BY <1>3, <1>7, <2>1
  <2>3. "late" \in Place /\ "late" \notin InHandler
    BY DEF Place, InHandler
  <2>4. f \in Frame
    BY <1>2, <2>1, <2>3 DEF Frame
  <2>5. /\ f.at = "late" /\ f.j = Top.j /\ f.n = Top.n /\ f.gen = Top.gen
        /\ SameEntry(f, Top) /\ f.fired = Top.fired
        /\ f.called = Top.called /\ f.valid = Top.valid
    BY <1>2, <2>1 DEF Frame, SameEntry
  <2>6. CalledAt(f) = CalledAfter(Top)
    BY <2>5, SameCalls DEF CalledAt
  <2>7. Top.gen = gen /\ Top.touched = 0 =>
            f.called = CalledAt(f) /\ (f.fired = 0 <=> f.called = <<>>)
    BY <1>5, <1>7, <2>5, <2>6
  <2> QED
    BY <1>1, <1>2, <2>2, <2>3, <2>4, <2>5, <2>7, EntryStep
<1> QED
  BY <1>6, <1>7

LEMMA ReadableLateStep == ASSUME LoopInv, CallInv, FireReadableLate PROVE CallInv'
<1>1. frames # <<>> /\ Top.at = "late" /\ UNCHANGED <<loopVars, fired>> /\ LoopType
  BY DEF FireReadableLate, At, LoopInv
<1>2. /\ Top \in Frame /\ BoundInv(Top) /\ Top.fd < setsize /\ EntryInv(Top)
      /\ ~CommandsInHandlers => ValidInv(Top) /\ Top.gen = gen /\ Top.valid = 1
  BY <1>1, TopFacts DEF BoundInv, ValidInv
<1>3. PICK m \in FeMasks(Top), rp \in FeProcs(Top, rproc), wp \in FeProcs(Top, wproc) :
        IF Top.invert = 1 /\ R \in m \intersect Top.mask /\ (Top.fired = 0 \/ wp # rp)
        THEN SetTop([Top EXCEPT !.at = "inlate", !.fired = @ + 1, !.proc = rp,
                                !.valid = IF R \in mask[Top.fd] THEN @ ELSE 0,
                                !.called = WithCall(Top, rp)])
        ELSE SetTop(Advance(Top))
  BY Zenon DEF FireReadableLate
<1> DEFINE Runs == Top.invert = 1 /\ R \in m \intersect Top.mask /\ (Top.fired = 0 \/ wp # rp)
<1>4. /\ rp \in Proc \union {Wild}
      /\ Top.gen = gen => /\ m = mask[Top.fd] /\ rp = rproc[Top.fd]
                          /\ wp = wproc[Top.fd]
  BY <1>1, <1>2, <1>3, Loads DEF LoopType
<1>5. Top.gen = gen /\ Top.touched = 0 =>
        /\ Top.called = CalledAfter(Top) /\ (Top.fired = 0 <=> Top.called = <<>>)
        /\ CalledAtEnd(Top) = IF Runs THEN Append(Top.called, rp) ELSE Top.called
  <2> SUFFICES ASSUME Top.gen = gen, Top.touched = 0
               PROVE  /\ Top.called = CalledAfter(Top) /\ (Top.fired = 0 <=> Top.called = <<>>)
                      /\ CalledAtEnd(Top) = IF Runs THEN Append(Top.called, rp) ELSE Top.called
    BY Zenon
  <2>1. Top.called = CalledAfter(Top) /\ (Top.fired = 0 <=> Top.called = <<>>)
    BY <1>1, <1>2 DEF EntryInv, CalledAt
  <2> QED
    BY <1>4, <2>1 DEF CalledAtEnd, Due
<1>6. CASE Runs
  <2>1. PICK f : f = [Top EXCEPT !.at = "inlate", !.fired = @ + 1, !.proc = rp,
                                !.valid = IF R \in mask[Top.fd] THEN @ ELSE 0,
                                !.called = WithCall(Top, rp)]
    BY Zenon
  <2>2. SetTop(f)
    BY <1>3, <1>6, <2>1
  <2>3. PICK v \in {0, 1} : v = IF R \in mask[Top.fd] THEN Top.valid ELSE 0
    BY <1>2 DEF Frame
  <2>4. /\ "inlate" \in Place /\ Top.fired + 1 \in Nat
        /\ WithCall(Top, rp) \in Seq(Proc \union {Wild})
        /\ Top.touched = 0 => /\ WithCall(Top, rp) = Append(Top.called, rp)
                              /\ WithCall(Top, rp) # <<>>
    BY <1>2, <1>4, CallNoted DEF Place, InHandler, Frame
  <2>5. f \in Frame
    BY <1>2, <1>4, <2>1, <2>3, <2>4, Zenon DEF Frame
  <2>6. /\ f.at = "inlate" /\ f.j = Top.j /\ f.n = Top.n /\ f.gen = Top.gen
        /\ SameEntry(f, Top) /\ f.fired = Top.fired + 1
        /\ f.called = WithCall(Top, rp) /\ f.proc = rp /\ f.valid = v
    BY <1>2, <2>1, <2>3 DEF Frame, SameEntry
  <2>7. ~CommandsInHandlers => f.valid = 1 /\ f.proc # Wild
    BY <1>2, <1>4, <1>6, <2>3, <2>6 DEF LoopInv, ProcInv, Frame
  <2>8. Top.gen = gen /\ Top.touched = 0 =>
            f.called = CalledAt(f) /\ (f.fired = 0 <=> f.called = <<>>)
    <3>1. CalledAt(f) = CalledAtEnd(Top)
      BY <2>6, SameCalls DEF CalledAt
    <3>2. f.fired # 0
      BY <1>2, <2>6 DEF Frame
    <3> QED
      BY <1>5, <1>6, <2>4, <2>6, <3>1, <3>2
  <2> QED
    BY <1>1, <2>2, <2>5, <2>6, <2>7, <2>8, EntryStep
<1>7. CASE ~Runs
  BY <1>1, <1>3, <1>7, AdvanceStep
<1> QED
  BY <1>6, <1>7

LEMMA HandlerStep == ASSUME LoopType, CallInv, HandlerReturns PROVE CallInv'
<1>1. frames # <<>> /\ UNCHANGED <<loopVars, fired>>
  BY DEF HandlerReturns
<1>3. ASSUME NEW where \in {"write", "late"},
             Top.at = IF where = "write" THEN "inread" ELSE "inwrite",
             SetTop([Top EXCEPT !.at = where, !.proc = Wild])
      PROVE  CallInv'
  <2>1. PICK f : f = [Top EXCEPT !.at = where, !.proc = Wild]
    OBVIOUS
  <2>2. Top \in Frame /\ EntryInv(Top) /\ (~CommandsInHandlers => Top.valid = 1)
    BY <1>1, TopFacts DEF ValidInv
  <2>3. where \in Place /\ where \notin InHandler
    BY DEF Place, InHandler
  <2>4. f \in Frame
    BY <2>1, <2>2, <2>3, Zenon DEF Frame
  <2>5. /\ f.at = where /\ f.j = Top.j /\ f.n = Top.n /\ f.gen = Top.gen
        /\ SameEntry(f, Top) /\ f.fired = Top.fired
        /\ f.called = Top.called /\ f.valid = Top.valid
    BY <2>1, <2>2 DEF Frame, SameEntry
  <2>7. CalledAt(f) = CalledAt(Top)
    BY <1>3, <2>5, SameCalls DEF CalledAt
  <2>8. Top.gen = gen /\ Top.touched = 0 =>
            f.called = CalledAt(f) /\ (f.fired = 0 <=> f.called = <<>>)
    BY <1>3, <2>2, <2>5, <2>7 DEF EntryInv
  <2>6. SetTop(f)
    BY <1>3, <2>1
  <2> QED
    BY <1>1, <1>3, <2>2, <2>3, <2>4, <2>5, <2>6, <2>8, EntryStep
<1>4. \/ Top.at = "inread" /\ SetTop([Top EXCEPT !.at = "write", !.proc = Wild])
      \/ Top.at = "inwrite" /\ SetTop([Top EXCEPT !.at = "late", !.proc = Wild])
      \/ Top.at = "inlate" /\ SetTop(Advance(Top))
  BY DEF HandlerReturns, At
<1> QED
  BY <1>1, <1>3, <1>4, AdvanceStep

-----------------------------------------------------------------------------
(* The poll.                                                               *)

LEMMA EntriesFinite == IsFiniteSet(Entry)
<1>1. IsFiniteSet(Fd)
  BY Constants, FS_Interval
<1>2. IsFiniteSet(RW)
  <2>1. RW = ({} \union {R}) \union {W}
    BY DEF RW
  <2> QED
    BY <2>1, FS_EmptySet, FS_AddElement, Zenon
<1>3. IsFiniteSet(Fd \X SUBSET RW)
  BY <1>1, <1>2, FS_SUBSET, FS_Product, Zenon
<1>4. PICK pair : pair = [x \in Fd \X SUBSET RW |-> [fd |-> x[1], mask |-> x[2]]]
  BY Zenon
<1>5. pair \in [Fd \X SUBSET RW -> Entry]
  BY <1>4 DEF Entry
<1>6. ASSUME NEW e \in Entry PROVE \E x \in Fd \X SUBSET RW : pair[x] = e
  <2>1. <<e.fd, e.mask>> \in Fd \X SUBSET RW /\ e = [fd |-> e.fd, mask |-> e.mask]
    BY DEF Entry
  <2> QED
    BY <1>4, <2>1, Zenon
<1>7. pair \in Surjection(Fd \X SUBSET RW, Entry)
  BY <1>5, <1>6 DEF Surjection
<1> QED
  BY <1>3, <1>7, FS_Surjection

Watched == [fd \in Fd |-> IF pending[fd] = {} THEN kernel[fd] ELSE pending[fd] \intersect RW]
Ready == IF api = "select" THEN {{}, {fd \in 0..maxfd : mask[fd] # {}}}
         ELSE SUBSET {fd \in Fd : Watched[fd] # {}}

\* A poll reports descriptors of the set only.
LEMMA ReadyInSet ==
    ASSUME LoopInv
    PROVE  /\ Watched \in [Fd -> SUBSET RW]
           /\ \A fd \in Fd : setsize <= fd => Watched[fd] = {}
           /\ \A fds \in Ready : fds \in SUBSET {fd \in Fd : fd < setsize}
<1>1. Watched \in [Fd -> SUBSET RW]
  BY DEF Watched, LoopInv, ApiType
<1>2. \A fd \in Fd : setsize <= fd => Watched[fd] = {}
  BY DEF Watched, LoopInv, ApiInv
<1>3. ASSUME NEW fds \in Ready, NEW fd \in fds PROVE fd \in Fd /\ fd < setsize
  <2>1. setsize \in Int /\ maxfd \in Int /\ maxfd <= MaxFd /\ maxfd < setsize
    BY Constants DEF LoopInv, LoopType, MaxfdIsHighest
  <2>2. CASE api = "select"
    <3>1. fd \in 0..maxfd
      BY <2>2 DEF Ready
    <3> QED
      BY <3>1, <2>1, Constants
  <2>3. CASE api # "select"
    <3>1. fd \in Fd /\ Watched[fd] # {}
      BY <2>3 DEF Ready
    <3> QED
      BY <3>1, <1>2, <2>1, Constants
  <2> QED
    BY <2>2, <2>3
<1> QED
  BY <1>1, <1>2, <1>3

LEMMA ReportFacts ==
    ASSUME LoopInv, NEW fds \in SUBSET {fd \in Fd : fd < setsize},
           NEW k \in [Fd -> SUBSET RW], NEW S \in Reports(fds, k)
    PROVE  /\ S \in SUBSET Entry /\ IsFiniteSet(S)
           /\ \A e \in S : e.fd < setsize
<1>1. PICK ch \in [fds -> SUBSET (SUBSET RW)] :
        S = UNION {{[fd |-> fd, mask |-> m] : m \in ch[fd]} : fd \in fds}
  BY DEF Reports
<1>2. ASSUME NEW e \in S
      PROVE  \E fd \in fds : \E m \in ch[fd] : e = [fd |-> fd, mask |-> m]
  BY <1>1
<1>3. ASSUME NEW e \in S PROVE e \in Entry /\ e.fd < setsize
  <2>1. PICK fd \in fds : \E m \in ch[fd] : e = [fd |-> fd, mask |-> m]
    BY <1>2
  <2>2. PICK m \in ch[fd] : e = [fd |-> fd, mask |-> m]
    BY <2>1
  <2>3. fd \in Fd /\ fd < setsize /\ m \in SUBSET RW
    BY <1>1
  <2> QED
    BY <2>2, <2>3 DEF Entry
<1>4. IsFiniteSet(S)
  BY <1>3, EntriesFinite, FS_Subset
<1> QED
  BY <1>3, <1>4

LEMMA OrderFacts ==
    ASSUME NEW S \in SUBSET Entry, IsFiniteSet(S), NEW s \in Orders(S)
    PROVE  /\ s \in Seq(Entry) /\ Len(s) = Cardinality(S)
           /\ \A i \in 1..Len(s) : s[i] \in S
           /\ \A i, j \in 1..Len(s) : s[i] = s[j] => i = j
<1>1. Cardinality(S) \in Nat
  BY FS_CardinalityType
<1>2. /\ s \in [1..Cardinality(S) -> S]
      /\ \A i, j \in 1..Cardinality(S) : s[i] = s[j] => i = j
  BY DEF Orders
<1>3. s \in Seq(S)
  BY <1>1, <1>2
<1>4. Len(s) = Cardinality(S)
  BY <1>1, <1>2, <1>3
<1> QED
  BY <1>2, <1>3, <1>4

\* The array never shrinks while calls run.
LEMMA OverwriteFacts ==
    ASSUME NEW s \in Seq(Entry), fired \in Seq(Entry)
    PROVE  /\ Overwrite(s) \in Seq(Entry)
           /\ Len(s) <= Len(Overwrite(s)) /\ Len(fired) <= Len(Overwrite(s))
           /\ \A i \in 1..Len(s) : Overwrite(s)[i] = s[i]
           /\ \A i \in 1..Len(Overwrite(s)) :
                \/ i \in 1..Len(s) /\ Overwrite(s)[i] = s[i]
                \/ i \in 1..Len(fired) /\ Overwrite(s)[i] = fired[i]
<1>1. PICK n : n = IF Len(s) > Len(fired) THEN Len(s) ELSE Len(fired)
  OBVIOUS
<1>2. n \in Nat /\ Len(s) \in Nat /\ Len(fired) \in Nat /\ Len(s) <= n /\ Len(fired) <= n
      /\ (n = Len(s) \/ n = Len(fired))
  BY <1>1
<1>3. Overwrite(s) = [i \in 1..n |-> IF i <= Len(s) THEN s[i] ELSE fired[i]]
  BY <1>1 DEF Overwrite
<1>4. ASSUME NEW i \in 1..n
      PROVE  /\ IF i <= Len(s) THEN i \in 1..Len(s) ELSE i \in 1..Len(fired)
             /\ (IF i <= Len(s) THEN s[i] ELSE fired[i]) \in Entry
  BY <1>2
<1>5. Overwrite(s) \in [1..n -> Entry]
  BY <1>3, <1>4
<1>6. Overwrite(s) \in Seq(Entry) /\ Len(Overwrite(s)) = n
  BY <1>2, <1>5
<1> QED
  BY <1>2, <1>3, <1>4, <1>6

LEMMA PollPicks ==
    ASSUME Poll
    PROVE  \E fds \in Ready : \E S \in Reports(fds, Watched) :
             /\ Cardinality(S) <= setsize
             /\ \E s \in Orders(S) :
                  /\ fired' = Overwrite(s)
                  /\ SetTop([Top EXCEPT !.at = "next", !.j = 1, !.n = Len(s)])
             /\ IF api = "evport"
                THEN /\ kernel' = [fd \in Fd |-> IF fd \in fds THEN {} ELSE Watched[fd]]
                     /\ pending' = [fd \in Fd |-> IF fd \in fds THEN Watched[fd] ELSE {}]
                ELSE UNCHANGED apiVars
BY Zenon DEF Poll, aeApiPoll, Watched, Ready

LEMMA PollApi ==
    ASSUME LoopInv, Poll
    PROVE  LoopInv'
<1>1. UNCHANGED <<api, setsize, gen, maxfd, mask, rproc, wproc>>
  BY DEF Poll, loopVars
<1>2. PICK fds \in Ready :
        IF api = "evport"
        THEN /\ kernel' = [fd \in Fd |-> IF fd \in fds THEN {} ELSE Watched[fd]]
             /\ pending' = [fd \in Fd |-> IF fd \in fds THEN Watched[fd] ELSE {}]
        ELSE UNCHANGED apiVars
  BY PollPicks, Zenon
<1>3. LoopType' /\ MaxfdIsHighest' /\ ProcInv'
  BY <1>1 DEF LoopInv, LoopType, MaxfdIsHighest, ProcInv
<1>4. CASE api = "evport"
  <2>1. /\ Watched \in [Fd -> SUBSET RW]
        /\ \A fd \in Fd : setsize <= fd => Watched[fd] = {}
    BY ReadyInSet
  <2>2. ApiType'
    BY <1>2, <1>4, <2>1 DEF ApiType, RW, Flags
  <2>3. ApiInv'
    BY <1>1, <1>2, <1>4, <2>1 DEF ApiInv
  <2> QED
    BY <1>1, <1>3, <1>4, <2>2, <2>3 DEF LoopInv, KernelMatchesMask
<1>5. CASE api # "evport"
  <2>1. UNCHANGED <<kernel, pending>>
    BY <1>2, <1>5 DEF apiVars
  <2> QED
    BY <1>1, <1>3, <2>1 DEF LoopInv, ApiType, ApiInv, KernelMatchesMask, WatchedAsRegistered
<1> QED
  BY <1>4, <1>5

LEMMA PollCalls ==
    ASSUME LoopInv, CallInv, Poll
    PROVE  CallInv'
<1>1. /\ UNCHANGED <<api, setsize, gen, mask, rproc, wproc>>
      /\ frames # <<>> /\ Top.at = "poll"
  BY DEF Poll, loopVars, At
<1>2. PICK fds \in Ready : \E S \in Reports(fds, Watched) :
             /\ Cardinality(S) <= setsize
             /\ \E s \in Orders(S) :
                  /\ fired' = Overwrite(s)
                  /\ SetTop([Top EXCEPT !.at = "next", !.j = 1, !.n = Len(s)])
  BY PollPicks, Zenon
<1>3. PICK S \in Reports(fds, Watched) :
             /\ Cardinality(S) <= setsize
             /\ \E s \in Orders(S) :
                  /\ fired' = Overwrite(s)
                  /\ SetTop([Top EXCEPT !.at = "next", !.j = 1, !.n = Len(s)])
  BY <1>2, Zenon
<1>4. PICK s \in Orders(S) :
                  /\ fired' = Overwrite(s)
                  /\ SetTop([Top EXCEPT !.at = "next", !.j = 1, !.n = Len(s)])
  BY <1>3, Zenon
<1>5. /\ S \in SUBSET Entry /\ IsFiniteSet(S)
      /\ \A e \in S : e.fd < setsize
  BY ReadyInSet, ReportFacts
<1>6. s \in Seq(Entry) /\ Len(s) <= setsize /\ \A i \in 1..Len(s) : s[i] \in S
  BY <1>3, <1>5, OrderFacts, Zenon
<1>7. fired \in Seq(Entry) /\ frames \in Seq(Frame)
  BY DEF CallInv, CallType
<1>8. /\ fired' \in Seq(Entry)
      /\ Len(s) <= Len(fired') /\ Len(fired) <= Len(fired')
      /\ \A i \in 1..Len(fired') :
            \/ i \in 1..Len(s) /\ fired'[i] = s[i]
            \/ i \in 1..Len(fired) /\ fired'[i] = fired[i]
  BY <1>4, <1>6, <1>7, OverwriteFacts, Zenon
<1>9. FiredInv'
  BY <1>1, <1>5, <1>6, <1>8, Zenon DEF CallInv, FiredInv
<1>10. Len(s) \in Nat /\ Len(fired) \in Nat /\ Len(fired') \in Nat /\ setsize \in Nat
  <2>1. \A q \in Seq(Entry) : Len(q) \in Nat
    OBVIOUS
  <2>2. setsize \in 1..(MaxFd + 1) /\ MaxFd \in Nat
    BY Constants, Zenon DEF LoopInv, LoopType
  <2>3. setsize \in Nat
    BY ONLY <2>2
  <2> QED
    BY <1>6, <1>7, <1>8, <2>1, <2>3, Zenon
<1>11. PICK f : f = [Top EXCEPT !.at = "next", !.j = 1, !.n = Len(s)]
  OBVIOUS
<1>12. /\ f \in Frame /\ BoundInv(f)'
       /\ ~CommandsInHandlers => ValidInv(f)'
       /\ EntryInv(f)'
  <2>1. Top \in Frame /\ (~CommandsInHandlers => ValidInv(Top)) /\ EntryInv(Top)
    BY <1>1, TopFacts
  <2>2. "next" \in Place /\ 1 \in Nat \ {0} /\ Len(s) \in Nat
    BY <1>10 DEF Place
  <2>3. f \in Frame
    BY <1>11, <2>1, <2>2, Zenon DEF Frame
  <2>4. f.at = "next" /\ f.n = Len(s) /\ f.valid = Top.valid /\ f.called = Top.called
    BY <1>11, <2>1 DEF Frame
  <2>5. BoundInv(f)'
    BY <1>1, <1>6, <1>8, <2>4 DEF BoundInv
  <2>6. ~CommandsInHandlers => ValidInv(f)'
    BY <2>1, <2>4 DEF ValidInv, InHandler
  <2>7. EntryInv(f)'
    BY <1>1, <2>1, <2>4 DEF EntryInv
  <2> QED
    BY <2>3, <2>5, <2>6, <2>7
<1>13. ASSUME NEW i \in 1..Len(frames), NEW g, g = frames[i]
       PROVE  /\ BoundInv(g)'
              /\ ~CommandsInHandlers => ValidInv(g)'
              /\ EntryInv(g)'
  <2>1. /\ g \in Frame /\ BoundInv(g)
        /\ ~CommandsInHandlers => ValidInv(g)
        /\ EntryInv(g)
    BY <1>7, <1>13 DEF CallInv, FramesInv
  <2>2. g.n \in Nat
    BY <2>1 DEF Frame
  <2>3. BoundInv(g)'
    BY <1>1, <1>8, <1>10, <2>1, <2>2 DEF BoundInv
  <2>4. ~CommandsInHandlers => ValidInv(g)'
    BY <1>1, <2>1 DEF ValidInv
  <2>5. EntryInv(g)'
    BY ONLY <1>1, <2>1
    DEF EntryInv, CalledAt, CalledAtEnd, CalledAfter, CalledBefore, Due
  <2> QED
    BY <2>3, <2>4, <2>5
<1>14. /\ frames' \in Seq(Frame) /\ Len(frames') = Len(frames)
       /\ \A i \in 1..Len(frames) : frames'[i] = IF i = Len(frames) THEN f ELSE frames[i]
  <2>1. frames' = [frames EXCEPT ![Len(frames)] = f]
    BY <1>4, <1>11 DEF SetTop
  <2> QED
    BY <1>1, <1>7, <1>12, <2>1
<1>15. FramesInv'
  <2>1. SUFFICES ASSUME NEW i \in 1..Len(frames')
                 PROVE  /\ BoundInv(frames[i])'
                        /\ ~CommandsInHandlers => ValidInv(frames[i])'
                        /\ EntryInv(frames[i])'
    BY DEF FramesInv
  <2>2. PICK g : g = frames'[i]
    OBVIOUS
  <2>3. /\ BoundInv(g)'
        /\ ~CommandsInHandlers => ValidInv(g)'
        /\ EntryInv(g)'
    BY <1>12, <1>13, <1>14, <2>2, Zenon
  <2>4. BoundInv(frames[i])'
    BY ONLY <2>2, <2>3 DEF BoundInv
  <2>5. ~CommandsInHandlers => ValidInv(frames[i])'
    BY ONLY <2>2, <2>3 DEF ValidInv
  <2>6. EntryInv(frames[i])'
    BY ONLY <2>2, <2>3
    DEF EntryInv, CalledAt, CalledAtEnd, CalledAfter, CalledBefore, Due
  <2> QED
    BY <2>4, <2>5, <2>6
<1> QED
  BY <1>8, <1>9, <1>14, <1>15, Zenon DEF CallInv, CallType

-----------------------------------------------------------------------------
(* The theorems.                                                           *)

LEMMA InitHolds == Init => LoopInv /\ CallInv
<1> SUFFICES ASSUME Init PROVE LoopInv /\ CallInv
  OBVIOUS
<1>1. LoopType /\ ApiType
  BY Constants DEF Init, LoopType, ApiType, R, W, Flags
<1>2. MaxfdIsHighest /\ KernelMatchesMask
  BY <1>1, Constants DEF Init, LoopType, MaxfdIsHighest, KernelMatchesMask, WatchedAsRegistered
<1>3. ApiInv /\ ProcInv
  BY DEF Init, ApiInv, ProcInv
<1>4. CallInv
  BY DEF Init, CallInv, CallType, FiredInv, FramesInv
<1> QED
  BY <1>1, <1>2, <1>3, <1>4 DEF LoopInv

\* A step inside a call changes no registration.
LEMMA LoopKept ==
    ASSUME LoopInv, UNCHANGED <<loopVars, apiVars>>
    PROVE  LoopInv'
BY DEF loopVars, apiVars, LoopInv, LoopType, ApiType, MaxfdIsHighest, KernelMatchesMask,
       WatchedAsRegistered, ApiInv, ProcInv

LEMMA StepHolds == LoopInv /\ CallInv /\ [Next]_vars => LoopInv' /\ CallInv'
<1> SUFFICES ASSUME LoopInv, CallInv, [Next]_vars PROVE LoopInv' /\ CallInv'
  OBVIOUS
<1>0. LoopType /\ setsize \in Nat
  BY Constants DEF LoopInv, LoopType
<1>1. ASSUME NEW fd \in Fd, NEW m \in {{R}, {W}, {W, B}}, NEW p \in Proc, aeCreateFileEvent(fd, m, p)
      PROVE  LoopInv' /\ CallInv'
  <2>1. NoteChange(fd) /\ UNCHANGED <<api, setsize, gen, fired>>
    BY <1>1 DEF aeCreateFileEvent
  <2>3. \A d \in Fd \ {fd} : /\ mask'[d] = mask[d]
                              /\ rproc'[d] = rproc[d] /\ wproc'[d] = wproc[d]
    BY <1>0, <1>1 DEF aeCreateFileEvent, LoopType
  <2>2. LoopInv'
    BY <1>1, CreateStep, Zenon
  <2> QED
    BY <1>0, <2>1, <2>2, <2>3, ChangeNoted
<1>2. ASSUME NEW fd \in Fd, NEW m \in DeleteMasks, aeDeleteFileEvent(fd, m)
      PROVE  LoopInv' /\ CallInv'
  <2>1. NoteChange(fd) /\ UNCHANGED <<api, setsize, gen, fired>>
    BY <1>2 DEF aeDeleteFileEvent
  <2>2. LoopInv'
    BY <1>2, DeleteStep, Zenon
  <2>3. \A d \in Fd \ {fd} : /\ mask'[d] = mask[d]
                              /\ rproc'[d] = rproc[d] /\ wproc'[d] = wproc[d]
    BY <1>0, <1>2 DEF aeDeleteFileEvent, LoopType
  <2> QED
    BY <1>0, <2>1, <2>2, <2>3, ChangeNoted
<1>3. ASSUME NEW n \in Sizes, aeResizeSetSize(n)
      PROVE  LoopInv' /\ CallInv'
  <2>1. /\ UNCHANGED <<api, fired, frames>> /\ setsize' \in Nat /\ setsize <= setsize'
        /\ gen' = gen + 1 /\ (CommandsInHandlers \/ frames = <<>>)
    BY <1>0, <1>3, Constants DEF aeResizeSetSize
  <2> QED
    BY <1>0, <1>3, <2>1, ResizeStep, CallsKept
<1>4. CASE aeProcessEvents
  BY <1>4, AppendStep, LoopKept DEF aeProcessEvents
<1>5. CASE Poll
  BY <1>5, PollApi, PollCalls
<1>6. CASE NextEntry
  BY <1>0, <1>6, NextEntryStep, LoopKept DEF NextEntry
<1>7. CASE FireReadable
  BY <1>7, ReadableStep, LoopKept, Zenon DEF FireReadable
<1>8. CASE FireWritable
  BY <1>8, WritableStep, LoopKept, Zenon DEF FireWritable
<1>9. CASE FireReadableLate
  BY <1>9, ReadableLateStep, LoopKept, Zenon DEF FireReadableLate
<1>10. CASE HandlerReturns
  BY <1>0, <1>10, HandlerStep, LoopKept DEF HandlerReturns
<1>11. CASE LoopReturns
  BY <1>11, ReturnStep, LoopKept DEF LoopReturns
<1>12. CASE UNCHANGED vars
  <2>1. /\ UNCHANGED <<loopVars, apiVars>>
        /\ UNCHANGED <<fired, frames, api, setsize, gen, mask, rproc, wproc>>
    BY <1>12 DEF vars, loopVars
  <2> QED
    BY <1>0, <2>1, LoopKept, CallsKept
<1>13. CASE \E fd \in Fd, p \in RProc : aeCreateFileEvent(fd, {R}, p)
  BY <1>1, <1>13, Zenon DEF Proc
<1>14. CASE \E fd \in Fd, m \in WriteMasks, p \in WProc : aeCreateFileEvent(fd, m, p)
  <2>1. PICK fd \in Fd, m \in WriteMasks, p \in WProc : aeCreateFileEvent(fd, m, p)
    BY <1>14
  <2>2. m \in {{R}, {W}, {W, B}} /\ p \in Proc
    BY AeAssumption DEF Proc
  <2> QED
    BY <1>1, <2>1, <2>2, Zenon
<1> QED
  BY <1>2, <1>3, <1>4, <1>5, <1>6, <1>7, <1>8, <1>9, <1>10, <1>11, <1>12, <1>13, <1>14 DEF Next

LEMMA InductiveInvariant == Spec => []IInv
<1>1. Init => IInv
  BY InitHolds DEF IInv
<1>2. IInv /\ [Next]_vars => IInv'
  BY StepHolds DEF IInv
<1> QED
  BY <1>1, <1>2, PTL DEF Spec

\* For any number of descriptors, any order of aeCreateFileEvent,
\* aeDeleteFileEvent and aeResizeSetSize, in handlers or between calls, keeps
\* maxfd the highest descriptor with an event.
THEOREM MaxfdStaysHighest == Spec => []MaxfdIsHighest
<1>1. IInv => MaxfdIsHighest
  BY DEF IInv, LoopInv
<1> QED
  BY <1>1, InductiveInvariant, PTL

\* With epoll, select and kqueue what aeApiAddEvent and aeApiDelEvent tell the
\* kernel is at all times what the events array says.
THEOREM KernelFollowsMask == Spec => []KernelMatchesMask
<1>1. IInv => KernelMatchesMask
  BY DEF IInv, LoopInv
<1> QED
  BY <1>1, InductiveInvariant, PTL

\* aeProcessEvents indexes fired and events inside their bounds, however deep
\* processEventsWhileBlocked nests calls that poll into the same array.
THEOREM WalkInBounds == Spec => []FiredInBounds
<1>1. IInv => FiredInBounds
  <2> SUFFICES ASSUME IInv, NEW i \in 1..Len(frames), frames[i].at # "poll"
               PROVE  /\ frames[i].n <= setsize /\ frames[i].n <= Len(fired)
                      /\ \A j \in frames[i].j..frames[i].n : fired[j].fd < setsize
    BY DEF FiredInBounds
  <2>1. frames[i] \in Frame /\ BoundInv(frames[i]) /\ fired \in Seq(Entry)
    BY DEF IInv, CallInv, CallType, FramesInv
  <2>2. frames[i].n <= setsize /\ frames[i].n <= Len(fired)
    BY <2>1 DEF BoundInv
  <2>3. ASSUME NEW j \in frames[i].j..frames[i].n PROVE j \in 1..Len(fired)
    BY <2>1, <2>2 DEF Frame
  <2> QED
    BY <2>2, <2>3 DEF IInv, CallInv, FiredInv
<1> QED
  BY <1>1, InductiveInvariant, PTL

\* What an entry has called in the end is what CalledInOrder asks for.
LEMMA InOrderAtEnd ==
    ASSUME LoopType, NEW f \in Frame, f.called = CalledAtEnd(f),
           f.invert = IF B \in mask[f.fd] THEN 1 ELSE 0
    PROVE  CalledInOrder(f)
<1> DEFINE r == rproc[f.fd]
           w == wproc[f.fd]
<1>1. R # W /\ Due(f) \subseteq {R, W}
  BY DEF Due, Frame, R, W, RW
<1>2. /\ r \in Proc \union {Wild} /\ w \in Proc \union {Wild}
      /\ Handler(f.fd, R) = r /\ Handler(f.fd, W) = w
  BY <1>1 DEF LoopType, Frame, Handler
<1>3. {Handler(f.fd, e) : e \in Due(f)} =
        (IF R \in Due(f) THEN {r} ELSE {}) \union (IF W \in Due(f) THEN {w} ELSE {})
  BY <1>1, <1>2
<1>4. /\ R \notin Due(f) /\ W \notin Due(f) => f.called = <<>>
      /\ R \in Due(f) /\ (W \notin Due(f) \/ r = w) => f.called = <<r>>
      /\ W \in Due(f) /\ (R \notin Due(f) \/ r = w) => f.called = <<w>>
      /\ R \in Due(f) /\ W \in Due(f) /\ r # w =>
            f.called = IF B \in mask[f.fd] THEN <<w, r>> ELSE <<r, w>>
  <2>1. /\ Append(<<>>, r) = <<r>> /\ <<r>> # <<>>
        /\ Append(<<>>, w) = <<w>> /\ <<w>> # <<>>
        /\ Append(<<r>>, w) = <<r, w>> /\ Append(<<w>>, r) = <<w, r>>
    BY Singleton, Pair, Zenon
  <2> QED
    <3>1. /\ f.called = CalledAtEnd(f)
          /\ f.invert = IF B \in mask[f.fd] THEN 1 ELSE 0
      OBVIOUS
    <3>2. CASE B \in mask[f.fd]
      <4>1. f.invert = 1 /\ CalledBefore(f) = <<>>
        BY <3>1, <3>2 DEF CalledBefore
      <4>2. CalledAfter(f) = IF W \in Due(f) THEN <<w>> ELSE <<>>
        BY <2>1, <4>1 DEF CalledAfter
      <4>3. f.called = IF R \in Due(f) /\ (CalledAfter(f) = <<>> \/ w # r)
                       THEN Append(CalledAfter(f), r) ELSE CalledAfter(f)
        BY <3>1, <4>1 DEF CalledAtEnd
      <4> HIDE DEF r, w
      <4> QED
        BY ONLY <2>1, <3>2, <4>2, <4>3, Zenon
    <3>3. CASE B \notin mask[f.fd]
      <4>1. f.invert = 0 /\ CalledBefore(f) = IF R \in Due(f) THEN <<r>> ELSE <<>>
        BY <3>1, <3>3 DEF CalledBefore
      <4>2. CalledAfter(f) = IF W \in Due(f) /\ (CalledBefore(f) = <<>> \/ w # r)
                             THEN Append(CalledBefore(f), w) ELSE CalledBefore(f)
        BY DEF CalledAfter
      <4>3. f.called = CalledAfter(f)
        BY <3>1, <4>1 DEF CalledAtEnd
      <4> HIDE DEF r, w
      <4> QED
        BY ONLY <2>1, <3>3, <4>1, <4>2, <4>3, Zenon
    <3> QED
      BY <3>2, <3>3
<1>5. CASE R \notin Due(f) /\ W \notin Due(f)
  <2>1. f.called = <<>>
    BY <1>4, <1>5
  <2> QED
    BY <1>3, <1>5, <2>1 DEF CalledInOrder, Due
<1>6. CASE \E x \in {r, w} : f.called = <<x>> /\ {Handler(f.fd, e) : e \in Due(f)} = {x}
  <2>1. PICK x \in {r, w} : f.called = <<x>> /\ {Handler(f.fd, e) : e \in Due(f)} = {x}
    BY <1>6
  <2>2. /\ Len(f.called) = 1 /\ f.called[1] = x
        /\ {f.called[k] : k \in 1..Len(f.called)} = {x}
    BY <2>1
  <2>3. \A e \in Due(f) : Handler(f.fd, e) = x
    BY <2>1
  <2> QED
    BY <2>1, <2>2, <2>3 DEF CalledInOrder, Due
<1>7. CASE R \in Due(f) /\ W \in Due(f) /\ r # w
  <2>1. PICK x \in {r, w}, y \in {r, w} :
            /\ f.called = <<x, y>> /\ x # y
            /\ x = IF B \in mask[f.fd] THEN w ELSE r
    BY <1>4, <1>7
  <2>2. /\ Len(f.called) = 2 /\ f.called[1] = x /\ f.called[2] = y
    BY <2>1
  <2>3. {f.called[k] : k \in 1..Len(f.called)} = {x, y}
    BY <2>2
  <2>4. \A k, l \in 1..Len(f.called) : f.called[k] = f.called[l] => k = l
    BY <2>1, <2>2
  <2>5. {Handler(f.fd, e) : e \in Due(f)} = {x, y}
    BY <1>3, <1>7, <2>1
  <2>6. f.called[1] = Handler(f.fd, IF B \in mask[f.fd] THEN W ELSE R)
    BY <1>2, <2>1, <2>2
  <2> QED
    BY <2>3, <2>4, <2>5, <2>6 DEF CalledInOrder, Due
<1> QED
  BY <1>3, <1>4, <1>5, <1>6, <1>7

\* When the innermost call leaves an entry, nothing that is due is left to call.
LEMMA LeftWhenServed ==
    ASSUME IInv, Next, NEW i \in DOMAIN frames,
           frames[i].at \in {"late", "inlate"}, i \in DOMAIN frames', frames'[i].at = "next",
           frames[i].touched = 0, frames[i].gen = gen
    PROVE  CalledInOrder(frames[i])
<1>1. frames \in Seq(Frame) /\ DOMAIN frames = 1..Len(frames) /\ LoopType
  BY DEF IInv, CallInv, CallType, LoopInv
<1>2. frames[i] \in Frame /\ EntryInv(frames[i]) /\ Len(frames) \in Nat /\ frames # <<>>
  BY <1>1 DEF IInv, CallInv, FramesInv
<1>3. SUFFICES frames[i].called = CalledAtEnd(frames[i])
  BY <1>1, <1>2, InOrderAtEnd DEF EntryInv
<1>4. CASE frames[i].at = "inlate"
  BY <1>2, <1>4 DEF EntryInv, CalledAt
<1>5. CASE frames[i].at = "late"
  <2>1. \/ FireReadableLate /\ i = Len(frames)
        \/ frames'[i].at = frames[i].at
    <3>1. ASSUME NEW f, SetTop(f) PROVE i = Len(frames) \/ frames'[i] = frames[i]
      BY <1>1, <3>1 DEF SetTop
    <3>2. ASSUME NEW fd \in Fd, NoteChange(fd) PROVE frames'[i].at = frames[i].at
      <4>1. \/ frames'[i] = frames[i]
            \/ frames'[i] = [frames[i] EXCEPT !.touched = 1, !.called = <<>>]
        BY <3>2 DEF NoteChange
      <4> QED
        BY <1>2, <4>1 DEF Frame
    <3>3. CASE \E fd \in Fd : NoteChange(fd)
      BY <3>2, <3>3
    <3>4. CASE aeProcessEvents
      BY <1>1, <3>4 DEF aeProcessEvents
    <3>5. CASE LoopReturns
      <4>1. frames' = SubSeq(frames, 1, Len(frames) - 1)
        BY <3>5 DEF LoopReturns
      <4> QED
        BY <1>1, <1>2, <4>1
    <3>6. CASE UNCHANGED frames
      BY <3>6
    <3>7. CASE /\ Top.at # "late"
               /\ \E f : SetTop(f)
      BY <1>5, <3>1, <3>7 DEF Top
    <3>8. CASE FireReadableLate
      BY <3>1, <3>8, Zenon DEF FireReadableLate
    <3>9. ASSUME Poll \/ NextEntry \/ FireReadable \/ FireWritable \/ HandlerReturns
          PROVE  Top.at # "late" /\ \E f : SetTop(f)
      <4>1. CASE Poll
        BY <4>1, PollPicks, Zenon DEF Poll, At
      <4>2. CASE NextEntry
        BY <4>2 DEF NextEntry, At
      <4>3. CASE FireReadable
        BY <4>3 DEF FireReadable, At
      <4>4. CASE FireWritable
        BY <4>4 DEF FireWritable, At
      <4>5. CASE HandlerReturns
        BY <4>5 DEF HandlerReturns, At
      <4> QED
        BY <3>9, <4>1, <4>2, <4>3, <4>4, <4>5
    <3>10. ASSUME NEW fd \in Fd, NEW m, NEW p, aeCreateFileEvent(fd, m, p) PROVE NoteChange(fd)
      BY <3>10 DEF aeCreateFileEvent
    <3>11. ASSUME NEW fd \in Fd, NEW m, aeDeleteFileEvent(fd, m) PROVE NoteChange(fd)
      BY <3>11 DEF aeDeleteFileEvent
    <3>12. ASSUME NEW n, aeResizeSetSize(n) PROVE UNCHANGED frames
      BY <3>12 DEF aeResizeSetSize
    <3> QED
      BY <3>3, <3>4, <3>5, <3>6, <3>7, <3>8, <3>9, <3>10, <3>11, <3>12, Zenon DEF Next
  <2>2. FireReadableLate /\ i = Len(frames) /\ frames[i] = Top
    BY <1>5, <2>1 DEF Top
  <2>3. PICK m \in FeMasks(Top), rp \in FeProcs(Top, rproc), wp \in FeProcs(Top, wproc) :
          IF Top.invert = 1 /\ R \in m \intersect Top.mask /\ (Top.fired = 0 \/ wp # rp)
          THEN SetTop([Top EXCEPT !.at = "inlate", !.fired = @ + 1, !.proc = rp,
                                  !.valid = IF R \in mask[Top.fd] THEN @ ELSE 0,
                                  !.called = WithCall(Top, rp)])
          ELSE SetTop(Advance(Top))
    <3>1. FireReadableLate
      BY <2>2
    <3> QED
      BY ONLY <3>1, Zenon DEF FireReadableLate
  <2>4. m = mask[Top.fd] /\ rp = rproc[Top.fd] /\ wp = wproc[Top.fd]
    BY <1>1, <1>2, <2>2, <2>3, Loads DEF LoopType
  <2>5. ASSUME NEW f, f = [Top EXCEPT !.at = "inlate", !.fired = @ + 1, !.proc = rp,
                                  !.valid = IF R \in mask[Top.fd] THEN @ ELSE 0,
                                  !.called = WithCall(Top, rp)]
        PROVE  ~SetTop(f)
    <3>1. f.at = "inlate"
      BY <1>2, <2>2, <2>5 DEF Frame
    <3>2. SetTop(f) => frames'[i] = f
      BY <1>1, <2>2 DEF SetTop
    <3> QED
      BY <3>1, <3>2
  <2>6. ~(Top.invert = 1 /\ R \in m \intersect Top.mask /\ (Top.fired = 0 \/ wp # rp))
    BY <2>3, <2>5
  <2>7. Top.called = CalledAfter(Top) /\ (Top.fired = 0 <=> Top.called = <<>>)
    BY <1>2, <1>5, <2>2 DEF EntryInv, CalledAt
  <2> QED
    BY <2>2, <2>4, <2>6, <2>7 DEF CalledAtEnd, Due
<1> QED
  BY <1>4, <1>5

\* However deep calls are nested, on every backend and for handlers that register,
\* delete and resize, aeProcessEvents leaves no entry whose handlers are not called.
THEOREM HandlersAreServed == Spec => EntriesServed
<1>1. IInv /\ [Next]_vars =>
        [\A i \in DOMAIN frames :
           LET f == frames[i] IN
           /\ f.at \in {"late", "inlate"} /\ i \in DOMAIN frames' /\ frames'[i].at = "next"
           /\ f.touched = 0 /\ f.gen = gen
           => CalledInOrder(f)]_vars
  BY LeftWhenServed
<1> QED
  BY <1>1, InductiveInvariant, PTL DEF Spec, EntriesServed

\* When no command runs inside a handler, so that the set is resized between two
\* calls only, aeProcessEvents calls no handler of an event that an earlier
\* handler of the same iteration has deleted.
THEOREM HandlersAreRegistered ==
    ASSUME ~CommandsInHandlers
    PROVE  Spec => []EventStillValid
<1>1. IInv => EventStillValid
  <2> SUFFICES ASSUME IInv, NEW i \in 1..Len(frames)
               PROVE  /\ frames[i].valid = 1
                      /\ frames[i].at \in InHandler => frames[i].proc # Wild
    BY DEF EventStillValid
  <2>1. ValidInv(frames[i])
    BY DEF IInv, CallInv, FramesInv
  <2> QED
    BY <2>1 DEF ValidInv
<1> QED
  BY <1>1, InductiveInvariant, PTL
=============================================================================
