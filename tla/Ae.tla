--------------------------------- MODULE Ae ---------------------------------
(***************************************************************************)
(* The file events of the ae event loop (ae.c) on its four polling         *)
(* backends (ae_epoll.c, ae_select.c, ae_kqueue.c, ae_evport.c).           *)
(*                                                                         *)
(* aeProcessEvents polls, copies what the kernel reports to the fired      *)
(* array and calls one handler after the other.  A handler is arbitrary    *)
(* code of the server: while it runs it may register and delete events of  *)
(* any descriptor, grow the set, and call aeProcessEvents again            *)
(* (processEventsWhileBlocked), which overwrites the fired array the outer *)
(* call is still walking over.  Each such call is an action of its own     *)
(* that is enabled while a handler runs, so a handler is any sequence of   *)
(* them.  Time events are in AeTime.                                       *)
(***************************************************************************)
EXTENDS Integers, Sequences, FiniteSets

CONSTANTS
    MaxFd,              \* bound: descriptors are 0..MaxFd
    Sizes,              \* the set sizes maxclients can ask for
    RProc, WProc,       \* the readable and writable handlers of the server
    Wild,               \* the value of a handler pointer that was never set
    Apis,               \* the backends the build may choose
    WriteMasks,         \* the masks a writable handler is registered with:
                        \* with AE_BARRIER when the log is synced on every write
    MaxDepth,           \* bound: nested calls of aeProcessEvents
    CommandsInHandlers  \* commands run inside readable handlers, and not
                        \* (threaded reads) in beforeSleep

Fd == 0..MaxFd
R == "AE_READABLE"
W == "AE_WRITABLE"
B == "AE_BARRIER"
RW == {R, W}
Flags == {R, W, B}

Proc == RProc \union WProc

\* The masks the server passes to aeDeleteFileEvent.
DeleteMasks == {{R}, {W}}

ASSUME AeAssumption ==
    /\ MaxFd \in Nat
    /\ Sizes \subseteq 1..(MaxFd + 1) /\ Sizes # {}
    /\ Wild \notin RProc \union WProc
    /\ Apis \subseteq {"epoll", "select", "kqueue", "evport"} /\ Apis # {}
    /\ WriteMasks \subseteq {{W}, {W, B}} /\ WriteMasks # {}
    /\ MaxDepth \in Nat \ {0}
    /\ CommandsInHandlers \in BOOLEAN

VARIABLES
    api,      \* the backend of this build
    setsize,  \* eventLoop->setsize
    gen,      \* how often the events array was reallocated
    maxfd,    \* eventLoop->maxfd
    mask,     \* eventLoop->events[fd].mask
    rproc,    \* eventLoop->events[fd].rfileProc
    wproc,    \* eventLoop->events[fd].wfileProc
    kernel,   \* what the kernel reports: epoll set, fd_set, kqueue or port
    pending,  \* evport: pending_masks by pending fd, {} when not pending
    fired,    \* eventLoop->fired, the part ever written
    frames    \* the running calls of aeProcessEvents, innermost last

loopVars == <<api, setsize, gen, maxfd, mask, rproc, wproc>>
apiVars == <<kernel, pending>>
vars == <<loopVars, apiVars, fired, frames>>

-----------------------------------------------------------------------------
\* The frame of a call of aeProcessEvents: its locals and where it is.
\* "valid" is a ghost: 1 unless a handler was called whose event was not
\* registered at that moment.  So are "called", the handlers called for the entry,
\* until "touched" becomes 1 because the registration of its descriptor changes.
NewFrame == [at |-> "poll", j |-> 1, n |-> 0, fd |-> 0, mask |-> {},
             invert |-> 0, fired |-> 0, gen |-> 0, proc |-> Wild,
             valid |-> 1, called |-> <<>>, touched |-> 0]

\* The next entry; the locals of the last one are dead.
Advance(f) == [NewFrame EXCEPT !.at = "next", !.j = f.j + 1, !.n = f.n,
                               !.valid = f.valid]

InHandler == {"inread", "inwrite", "inlate"}

Top == frames[Len(frames)]
SetTop(f) == frames' = [frames EXCEPT ![Len(frames)] = f]
At(where) == frames # <<>> /\ Top.at = where

WithCall(f, p) == IF f.touched = 1 THEN <<>> ELSE Append(f.called, p)

\* The calls that handle an entry of fd take note of a change of its registration.
NoteChange(fd) ==
    frames' = IF mask'[fd] = mask[fd] /\ rproc'[fd] = rproc[fd] /\ wproc'[fd] = wproc[fd]
              THEN frames
              ELSE [i \in DOMAIN frames |->
                      IF frames[i].fd = fd /\ frames[i].at \notin {"poll", "next"}
                      THEN [frames[i] EXCEPT !.touched = 1, !.called = <<>>]
                      ELSE frames[i]]

\* Code of the server runs: a handler, or beforeSleep between two calls.
ServerRuns == frames # <<>> => Top.at \in InHandler

\* Through a pointer into an events array that was since reallocated a load
\* yields anything.
FeMasks(f) == IF f.gen = gen THEN {mask[f.fd]} ELSE SUBSET Flags
FeProcs(f, proc) == IF f.gen = gen THEN {proc[f.fd]} ELSE Proc \union {Wild}

\* Faulty variant of the next definition.
ForgetMaxfd(m, top) == top - 1

\* The highest descriptor up to top with a registered event, or -1.
Highest(m, top) ==
    CHOOSE j \in -1..top :
        /\ j = -1 \/ m[j] # {}
        /\ \A k \in (j + 1)..top : m[k] = {}

-----------------------------------------------------------------------------
\* Faulty variants of the definitions below.
WriteFromArray ==
    /\ At("write")
    /\ \E m \in FeMasks(Top), rp \in FeProcs(Top, rproc), wp \in FeProcs(Top, wproc) :
        IF W \in m \intersect fired[Top.j].mask /\ (Top.fired = 0 \/ wp # rp)
        THEN SetTop([Top EXCEPT !.at = "inwrite", !.fired = @ + 1, !.proc = wp,
                                !.valid = IF W \in mask[Top.fd] THEN @ ELSE 0,
                                !.called = WithCall(Top, wp)])
        ELSE SetTop([Top EXCEPT !.at = "late"])
    /\ UNCHANGED <<loopVars, apiVars, fired>>

WriteUnchecked ==
    /\ At("write")
    /\ \E rp \in FeProcs(Top, rproc), wp \in FeProcs(Top, wproc) :
        IF W \in Top.mask /\ (Top.fired = 0 \/ wp # rp)
        THEN SetTop([Top EXCEPT !.at = "inwrite", !.fired = @ + 1, !.proc = wp,
                                !.valid = IF W \in mask[Top.fd] THEN @ ELSE 0,
                                !.called = WithCall(Top, wp)])
        ELSE SetTop([Top EXCEPT !.at = "late"])
    /\ UNCHANGED <<loopVars, apiVars, fired>>

AddWithoutMerge(fd, m) ==
    /\ kernel' = [kernel EXCEPT ![fd] = m \intersect RW]
    /\ UNCHANGED pending

TruncateFired(s) == s

-----------------------------------------------------------------------------
(* The backends.  An add that succeeds, a delete, and what a poll reports. *)

\* epoll_ctl and port_associate replace the interest set, so the caller
\* merges; FD_SET and EV_ADD add to it.
aeApiAddEvent(fd, m) ==
    IF pending[fd] # {}
    THEN /\ pending' = [pending EXCEPT ![fd] = @ \union m \union mask[fd]]
         /\ UNCHANGED kernel
    ELSE /\ kernel' = [kernel EXCEPT ![fd] =
                           IF api \in {"epoll", "evport"}
                           THEN (m \union mask[fd]) \intersect RW
                           ELSE @ \union (m \intersect RW)]
         /\ UNCHANGED pending

\* Called before events[fd].mask is updated.  epoll computes the new mask
\* itself; evport associates the mask it finds.
aeApiDelEvent(fd, m) ==
    IF pending[fd] # {}
    THEN /\ pending' = [pending EXCEPT ![fd] = @ \ m]
         /\ UNCHANGED kernel
    ELSE /\ kernel' = [kernel EXCEPT ![fd] =
                           CASE api = "epoll"  -> (mask[fd] \ m) \intersect RW
                             [] api = "evport" -> mask[fd] \intersect RW
                             [] OTHER          -> @ \ m]
         /\ UNCHANGED pending

\* What the kernel can report for fd, given the interest set k: a set of
\* entries, each a mask.  An error or a hang-up is reported by epoll even for
\* a descriptor that waits for nothing else, and becomes AE_WRITABLE; a
\* kqueue reports each filter on its own; select reports every descriptor
\* with an event, ready or not.
Entries(fd, k) ==
    CASE api = "epoll"  -> {{m} : m \in {s \union t : s \in SUBSET k, t \in {{}, {W}}} \ {{}}}
      [] api = "kqueue" -> {{{e} : e \in s} : s \in (SUBSET k) \ {{}}}
      [] api = "select" -> {{m} : m \in SUBSET (k \intersect mask[fd])}
      [] api = "evport" -> {{m} : m \in (SUBSET k) \ {{}}}

\* The sets of fired entries a poll may return, over the descriptors in fds.
Reports(fds, k) ==
    { UNION {{[fd |-> fd, mask |-> m] : m \in ch[fd]} : fd \in fds} :
        ch \in {c \in [fds -> SUBSET (SUBSET RW)] :
                    \A fd \in fds : c[fd] \in Entries(fd, k[fd])} }

\* An array filled with the entries of S in the order the backend reports
\* them: select goes up the descriptors, the others choose.
Orders(S) ==
    {s \in [1..Cardinality(S) -> S] :
        /\ \A i, j \in 1..Cardinality(S) : s[i] = s[j] => i = j
        /\ api = "select" => \A i, j \in 1..Cardinality(S) : i < j => s[i].fd < s[j].fd}

\* At most setsize entries are returned, and a new poll overwrites the head
\* of the array and leaves the rest.
Overwrite(s) ==
    [i \in 1..(IF Len(s) > Len(fired) THEN Len(s) ELSE Len(fired)) |->
        IF i <= Len(s) THEN s[i] ELSE fired[i]]

aeApiPoll ==
    LET k == [fd \in Fd |-> IF pending[fd] = {} THEN kernel[fd]
                                                ELSE pending[fd] \intersect RW]
        selected == {fd \in 0..maxfd : mask[fd] # {}}
        ready == IF api = "select" THEN {{}, selected}
                 ELSE SUBSET {fd \in Fd : k[fd] # {}}
    IN  \E fds \in ready : \E S \in Reports(fds, k) :
          /\ Cardinality(S) <= setsize
          /\ S # {} => \E e \in S : e.mask # {}
          /\ \E s \in Orders(S) :
               /\ fired' = Overwrite(s)
               /\ SetTop([Top EXCEPT !.at = "next", !.j = 1, !.n = Len(s)])
          /\ IF api = "evport"
             THEN /\ kernel' = [fd \in Fd |-> IF fd \in fds THEN {} ELSE k[fd]]
                  /\ pending' = [fd \in Fd |-> IF fd \in fds THEN k[fd] ELSE {}]
             ELSE UNCHANGED apiVars

-----------------------------------------------------------------------------
(* What the server's code calls. *)

\* A descriptor that is out of range is refused, and so is one the kernel
\* refuses; both leave the loop as it was.
aeCreateFileEvent(fd, m, p) ==
    /\ ServerRuns
    /\ fd < setsize
    /\ aeApiAddEvent(fd, m)
    /\ mask' = [mask EXCEPT ![fd] = @ \union m]
    /\ rproc' = IF R \in m THEN [rproc EXCEPT ![fd] = p] ELSE rproc
    /\ wproc' = IF W \in m THEN [wproc EXCEPT ![fd] = p] ELSE wproc
    /\ maxfd' = IF fd > maxfd THEN fd ELSE maxfd
    /\ NoteChange(fd)
    /\ UNCHANGED <<api, setsize, gen, fired>>

\* Deleting AE_WRITABLE deletes AE_BARRIER too.
WithBarrier(m) == IF W \in m THEN m \union {B} ELSE m

aeDeleteFileEvent(fd, m0) ==
    LET m == WithBarrier(m0)
    IN  /\ ServerRuns
        /\ fd < setsize
        /\ mask[fd] # {}
        /\ aeApiDelEvent(fd, m)
        /\ mask' = [mask EXCEPT ![fd] = @ \ m]
        /\ maxfd' = IF fd = maxfd /\ mask'[fd] = {}
                    THEN Highest(mask', maxfd - 1) ELSE maxfd
        /\ UNCHANGED <<api, setsize, gen, rproc, wproc, fired>>
        /\ NoteChange(fd)

\* The slots above maxfd are set to AE_NONE.
InitialisedSlots(n) ==
    [fd \in Fd |-> IF fd > maxfd /\ fd < n THEN {} ELSE mask[fd]]

\* CONFIG SET maxclients only ever grows the set.
aeResizeSetSize(n) ==
    /\ ServerRuns
    /\ ~CommandsInHandlers => frames = <<>>
    /\ setsize < n
    /\ maxfd < n
    /\ setsize' = n
    /\ gen' = gen + 1
    /\ mask' = InitialisedSlots(n)
    /\ UNCHANGED <<api, maxfd, rproc, wproc, apiVars, fired, frames>>

\* aeMain's call, and the one processEventsWhileBlocked makes in a handler.
\* The poll is skipped when nothing is registered and the call may not wait.
aeProcessEvents ==
    /\ ServerRuns
    /\ Len(frames) < MaxDepth
    /\ frames # <<>> => maxfd # -1
    /\ frames' = Append(frames, NewFrame)
    /\ UNCHANGED <<loopVars, apiVars, fired>>

-----------------------------------------------------------------------------
(* aeProcessEvents. *)

Poll ==
    /\ At("poll")
    /\ aeApiPoll
    /\ UNCHANGED loopVars

\* The next entry: fe is computed and the barrier is read here, once.
NextEntry ==
    /\ At("next")
    /\ Top.j <= Top.n
    /\ LET e == fired[Top.j]
       IN  SetTop([Top EXCEPT !.at = "read", !.fd = e.fd, !.mask = e.mask,
                              !.invert = IF B \in mask[e.fd] THEN 1 ELSE 0,
                              !.fired = 0, !.gen = gen, !.proc = Wild])
    /\ UNCHANGED <<loopVars, apiVars, fired>>

FireReadable ==
    /\ At("read")
    /\ \E m \in FeMasks(Top), p \in FeProcs(Top, rproc) :
        IF Top.invert = 0 /\ R \in m \intersect Top.mask
        THEN SetTop([Top EXCEPT !.at = "inread", !.fired = 1, !.proc = p,
                                !.valid = IF R \in mask[Top.fd] THEN @ ELSE 0,
                                !.called = WithCall(Top, p)])
        ELSE SetTop([Top EXCEPT !.at = "write"])
    /\ UNCHANGED <<loopVars, apiVars, fired>>

FireWritable ==
    /\ At("write")
    /\ \E m \in FeMasks(Top), rp \in FeProcs(Top, rproc), wp \in FeProcs(Top, wproc) :
        IF W \in m \intersect Top.mask /\ (Top.fired = 0 \/ wp # rp)
        THEN SetTop([Top EXCEPT !.at = "inwrite", !.fired = @ + 1, !.proc = wp,
                                !.valid = IF W \in mask[Top.fd] THEN @ ELSE 0,
                                !.called = WithCall(Top, wp)])
        ELSE SetTop([Top EXCEPT !.at = "late"])
    /\ UNCHANGED <<loopVars, apiVars, fired>>

FireReadableLate ==
    /\ At("late")
    /\ \E m \in FeMasks(Top), rp \in FeProcs(Top, rproc), wp \in FeProcs(Top, wproc) :
        IF /\ Top.invert = 1
           /\ R \in m \intersect Top.mask
           /\ Top.fired = 0 \/ wp # rp
        THEN SetTop([Top EXCEPT !.at = "inlate", !.fired = @ + 1, !.proc = rp,
                                !.valid = IF R \in mask[Top.fd] THEN @ ELSE 0,
                                !.called = WithCall(Top, rp)])
        ELSE SetTop(Advance(Top))
    /\ UNCHANGED <<loopVars, apiVars, fired>>

\* A handler returns.
HandlerReturns ==
    /\ frames # <<>>
    /\ \/ At("inread") /\ SetTop([Top EXCEPT !.at = "write", !.proc = Wild])
       \/ At("inwrite") /\ SetTop([Top EXCEPT !.at = "late", !.proc = Wild])
       \/ At("inlate") /\ SetTop(Advance(Top))
    /\ UNCHANGED <<loopVars, apiVars, fired>>

\* The call of aeProcessEvents returns.  Nothing reads the fired array once
\* the outermost call is over.
LoopReturns ==
    /\ At("next")
    /\ Top.j > Top.n
    /\ frames' = SubSeq(frames, 1, Len(frames) - 1)
    /\ fired' = IF Len(frames) = 1 THEN <<>> ELSE fired
    /\ UNCHANGED <<loopVars, apiVars>>

-----------------------------------------------------------------------------
\* The slots above setsize are memory the loop does not own yet.
Init ==
    /\ api \in Apis
    /\ setsize \in Sizes
    /\ gen = 0
    /\ maxfd = -1
    /\ \E junk \in {{}, {R, W}} :
           mask = [fd \in Fd |-> IF fd < setsize THEN {} ELSE junk]
    /\ rproc = [fd \in Fd |-> Wild]
    /\ wproc = [fd \in Fd |-> Wild]
    /\ kernel = [fd \in Fd |-> {}]
    /\ pending = [fd \in Fd |-> {}]
    /\ fired = <<>>
    /\ frames = <<>>

Next ==
    \/ \E fd \in Fd, p \in RProc : aeCreateFileEvent(fd, {R}, p)
    \/ \E fd \in Fd, m \in WriteMasks, p \in WProc : aeCreateFileEvent(fd, m, p)
    \/ \E fd \in Fd, m \in DeleteMasks : aeDeleteFileEvent(fd, m)
    \/ \E n \in Sizes : aeResizeSetSize(n)
    \/ aeProcessEvents
    \/ Poll
    \/ NextEntry
    \/ FireReadable
    \/ FireWritable
    \/ FireReadableLate
    \/ HandlerReturns
    \/ LoopReturns

Spec == Init /\ [][Next]_vars

-----------------------------------------------------------------------------
\* maxfd is the highest descriptor with a registered event, whatever order
\* events are created and deleted in and however the set grows: the scan of
\* aeDeleteFileEvent, select's scan and aeResizeSetSize rely on it.
MaxfdIsHighest ==
    /\ maxfd < setsize
    /\ maxfd = -1 \/ (maxfd \in Fd /\ mask[maxfd] # {})
    /\ \A fd \in Fd : maxfd < fd /\ fd < setsize => mask[fd] = {}

WatchedAsRegistered ==
    \A fd \in Fd : fd < setsize =>
        mask[fd] \intersect RW =
            IF pending[fd] # {} THEN pending[fd] \intersect RW ELSE kernel[fd]

\* With epoll, select and kqueue the kernel waits for exactly the events the
\* loop has registered, between any two calls a handler makes: no event is
\* lost because the kernel no longer watches it, and none keeps waking the
\* loop after it was deleted.
KernelMatchesMask == api # "evport" => WatchedAsRegistered

\* The same for event ports, where an association is in the kernel or pending
\* (ae_evport.c:60-64).  aeApiDelEvent needs its caller to have updated the
\* mask (ae_evport.c:209-215); aeDeleteFileEvent updates it afterwards.
PortMatchesMask == api = "evport" => WatchedAsRegistered

\* Every entry a running call still has to visit is inside the fired array
\* and names a slot of the events array, although a nested call may have
\* overwritten it since it was polled.
FiredInBounds ==
    \A i \in 1..Len(frames) :
        frames[i].at # "poll" =>
            /\ frames[i].n <= setsize /\ frames[i].n <= Len(fired)
            /\ \A j \in frames[i].j..frames[i].n : fired[j].fd < setsize

\* A handler runs only if its event was registered when it was called: the
\* comment on the fe->mask test says an event that an earlier handler removed
\* is recognised (ae.c:444-446).
EventStillValid ==
    \A i \in 1..Len(frames) :
        frames[i].valid = 1 /\ (frames[i].at \in InHandler => frames[i].proc # Wild)

Handler(fd, e) == IF e = R THEN rproc[fd] ELSE wproc[fd]

\* The handlers of the events that were reported and are registered were called,
\* once each, and the one that AE_BARRIER puts first was the first.
CalledInOrder(f) ==
    LET due == f.mask \intersect mask[f.fd]
        first == IF B \in mask[f.fd] THEN W ELSE R
    IN  /\ {f.called[k] : k \in 1..Len(f.called)} = {Handler(f.fd, e) : e \in due}
        /\ \A k, l \in 1..Len(f.called) : f.called[k] = f.called[l] => k = l
        /\ first \in due => f.called[1] = Handler(f.fd, first)

\* An entry is left only after every handler it is due was called, whatever the
\* handlers before did to other descriptors and whatever was polled inside them: none
\* is skipped, one registered for both events is called once, and with AE_BARRIER the
\* writable one comes first (ae.c:430-470, ae.h:44-48).  This is for a descriptor whose
\* registration stays as it is while its own handlers run: the barrier is read once,
\* so that one which the readable handler itself installs comes too late.
EntriesServed ==
    [][\A i \in DOMAIN frames :
         LET f == frames[i] IN
         /\ f.at \in {"late", "inlate"} /\ i \in DOMAIN frames' /\ frames'[i].at = "next"
         /\ f.touched = 0 /\ f.gen = gen
         => CalledInOrder(f)]_vars

=============================================================================
