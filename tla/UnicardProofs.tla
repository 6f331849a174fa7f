---------------------------- MODULE UnicardProofs ----------------------------
(***************************************************************************)
(* Proofs about the Unicard and the cloud client: what core 0 may write to *)
(* is lent to it, and its exchanges never overlap, for every set of paths, *)
(* every size of buffer and file, and inside all the windows.              *)
(***************************************************************************)
EXTENDS Unicard, TLAPS

-----------------------------------------------------------------------------
(***************************************************************************)
(* The inductive invariant.  A command is in the slot only while core 0 is *)
(* at its loop, so that it is never overwritten; while core 0 works on it, *)
(* no completion is announced, and core 1 refuses everything but a reset,  *)
(* which looks at kind.                                                    *)
(***************************************************************************)
SlotShape == slot.kind \in {"dir", "file"} /\ (pending => pc0 = "loop")

HandOver ==
    Core0Works =>
        /\ ~done
        /\ pc1 = "submitted" \/ phase = "async"
        /\ kind = slot.kind
        /\ IF kind = "dir" THEN listing = "lent" ELSE buf = "lent"

ExchangeShape ==
    /\ wire \in Nat
    /\ armed => pc0 = "exchange"
    /\ OneExchange

LendInv == SlotShape /\ HandOver /\ ExchangeShape

-----------------------------------------------------------------------------
\* Whoever has passed finishAsync and is not refused knows core 0 is idle.
LEMMA FreeIsIdle ==
    ASSUME LendInv, Free
    PROVE  ~Core0Works
BY DEF LendInv, HandOver, Free, Accessed

\* Such an access that leaves core 0's variables alone keeps the invariant.
LEMMA AccessKeeps ==
    ASSUME LendInv, Free, UNCHANGED cloudVars
    PROVE  LendInv'
<1>1. ~Core0Works
  BY FreeIsIdle
<1>2. ~Core0Works'
  BY <1>1 DEF Core0Works, cloudVars, request
<1> QED
  BY <1>2 DEF LendInv, SlotShape, HandOver, ExchangeShape, OneExchange,
     cloudVars, link, request, exchange, sink

\* Handing core 0 a command lends it the buffer the command needs.
LEMMA StartKeeps ==
    ASSUME LendInv, Free, NEW k \in {"dir", "file"}, NEW n, NEW by,
           StartCloud(k, n, by)
    PROVE  LendInv'
<1>1. ~Core0Works
  BY FreeIsIdle
<1>2. SlotShape'
  BY <1>1 DEF StartCloud, Submit, SlotShape, Core0Works
<1>3. HandOver'
  BY DEF StartCloud, Submit, ClearDone, HandOver
<1>4. ExchangeShape'
  BY DEF StartCloud, LendInv, ExchangeShape, OneExchange, exchange
<1> QED
  BY <1>2, <1>3, <1>4 DEF LendInv

LEMMA HarvestKeeps ==
    ASSUME LendInv, Harvest
    PROVE  LendInv'
<1>1. ~Core0Works
  BY DEF LendInv, HandOver, Harvest, CloudDone
<1>2. UNCHANGED cloudVars
  BY DEF Harvest
<1> QED
  BY <1>1, <1>2 DEF LendInv, SlotShape, HandOver, ExchangeShape, OneExchange,
     Core0Works, cloudVars, link, request, exchange, sink

LEMMA HarvestNetKeeps ==
    ASSUME LendInv, HarvestNet
    PROVE  LendInv'
<1>1. ~Core0Works
  BY DEF LendInv, SlotShape, HandOver, HarvestNet
<1>2. UNCHANGED cloudVars
  BY DEF HarvestNet
<1> QED
  BY <1>1, <1>2 DEF LendInv, SlotShape, HandOver, ExchangeShape, OneExchange,
     Core0Works, cloudVars, link, request, exchange, sink

\* A reset leaves the buffers of a transfer alone.
LEMMA ResetKeeps ==
    ASSUME LendInv, Reset
    PROVE  LendInv'
<1>1. UNCHANGED cloudVars /\ pc1 = "idle" /\ UNCHANGED <<pc1, done>>
  BY DEF Reset
<1>2. CASE ~Core0Works
  BY <1>1, <1>2 DEF LendInv, SlotShape, HandOver, ExchangeShape, OneExchange,
     Core0Works, cloudVars, link, request, exchange, sink
<1>3. CASE Core0Works
  <2>1. phase = "async" /\ kind # "net"
    BY <1>1, <1>3 DEF LendInv, SlotShape, HandOver
  <2>2. UNCHANGED <<phase, kind, buf, listing>>
    BY <2>1 DEF Reset, Closes, fileVars, dirVars
  <2> QED
    BY <1>1, <2>2 DEF LendInv, SlotShape, HandOver, ExchangeShape, OneExchange,
       Core0Works, cloudVars, link, request, exchange, sink
<1> QED
  BY <1>2, <1>3

LEMMA RefuseAndReturnKeep ==
    ASSUME LendInv, Refuse \/ Return
    PROVE  LendInv'
<1>1. UNCHANGED <<cloudVars, done, kind, buf, listing>>
  BY DEF Refuse, Return, asyncVars, dirVars, fileVars
<1>2. phase' = "async" \/ UNCHANGED <<phase, pc1>>
  BY DEF Refuse, Return
<1> QED
  BY <1>1, <1>2 DEF LendInv, SlotShape, HandOver, ExchangeShape, OneExchange,
     Core0Works, cloudVars, link, request, exchange, sink

LEMMA CommandKeeps ==
    ASSUME LendInv, Core1Command
    PROVE  LendInv'
<1>1. CASE Reset
  BY <1>1, ResetKeeps
<1>2. CASE ~Reset
  <2>1. Free /\ UNCHANGED cloudVars
    BY <1>2 DEF Core1Command, Simple, Truncate, Output, StreamStep, Close,
       BeginParams, Command
  <2> QED
    BY <2>1, AccessKeeps
<1> QED
  BY <1>1, <1>2

LEMMA DataKeeps ==
    ASSUME LendInv, Core1Data
    PROVE  LendInv'
<1>1. Free
  BY DEF Core1Data, ParamsRefused, ExecDevice, ExecStat, ExecNames, ExecGetConfig,
     ExecSetConfig, ExecNet, ReaddirCloud, OpenCloud, CopyCloud, ReaddirLocal,
     OpenLocal, CopyLocal, ReadOutput, ReadRecord, ReadFile, PutFile, Params
<1>2. CASE UNCHANGED cloudVars
  BY <1>1, <1>2, AccessKeeps
<1>3. CASE ReaddirCloud /\ ~UNCHANGED cloudVars
  <2>1. PICK n \in CloudNames : StartCloud("dir", n, Job("readdir", n, None))
    BY <1>3 DEF ReaddirCloud, CloudRefuses
  <2> QED
    BY <1>1, <2>1, StartKeeps
<1>4. CASE OpenCloud /\ ~UNCHANGED cloudVars
  <2>1. PICK n \in CloudNames : StartCloud("file", n, Job("open", n, None))
    BY <1>4 DEF OpenCloud, CloudRefuses
  <2> QED
    BY <1>1, <2>1, StartKeeps
<1>5. CASE CopyCloud /\ ~UNCHANGED cloudVars
  <2>1. PICK n \in CloudNames, p \in Volumes : StartCloud("file", n, Job("copy", n, p))
    BY <1>5 DEF CopyCloud, CloudRefuses
  <2> QED
    BY <1>1, <2>1, StartKeeps
<1> QED
  BY <1>2, <1>3, <1>4, <1>5 DEF Core1Data, ParamsRefused, ExecDevice, ExecStat,
     ExecNames, ExecGetConfig, ExecSetConfig, ExecNet, ReaddirLocal, OpenLocal,
     CopyLocal, ReadOutput, ReadRecord, ReadFile, PutFile, StaysHere

-----------------------------------------------------------------------------
\* Core 0 works on what is in the slot until it has stored the flag, and
\* touches nothing of core 1's but the result.
LEMMA CloudKeeps ==
    ASSUME LendInv, CloudNext, UNCHANGED unicardVars
    PROVE  LendInv'
<1> USE DEF LendInv, SlotShape, HandOver, ExchangeShape, OneExchange, Core0Works
<1>0. UNCHANGED <<pc1, phase, done, kind, buf, listing>>
  BY DEF unicardVars, answerVars, asyncVars, dirVars, fileVars
<1>1. CASE WifiStep
  BY <1>0, <1>1 DEF WifiStep, WifiInit, WifiStart, WifiAttempt, WifiStatus, AtLoop,
     request, exchange, sink
<1>2. CASE Take
  <2>1. pc0 = "loop" /\ pending /\ ~pending' /\ slot' = slot /\ ~armed
    BY <1>2 DEF Take, Takeable
  <2>2. CASE UNCHANGED exchange /\ pc0' = "answer"
    BY <1>0, <2>1, <2>2 DEF exchange
  <2>3. CASE NotStarted /\ ~ExchangeActive
    BY <1>0, <2>1, <2>3 DEF NotStarted, Prepare, Answer, ExchangeActive
  <2>4. CASE Started /\ ~ExchangeActive
    <3>1. wire = 0
      BY <2>4 DEF ExchangeActive
    <3> QED
      BY <1>0, <2>1, <2>4, <3>1 DEF Started, Prepare
  <2> QED
    BY <1>2, <2>2, <2>3, <2>4 DEF Take, Answer
<1>3. CASE Collect \/ Abandon
  BY <1>0, <1>3 DEF Collect, Abandon, Disarm, Answer, request, link
<1>4. CASE Deliver
  BY <1>0, <1>4 DEF Deliver, request, exchange
<1>5. CASE WireEnds
  BY <1>0, <1>5 DEF WireEnds, SetComplete, request
<1> QED
  BY <1>1, <1>2, <1>3, <1>4, <1>5 DEF CloudNext, CloudStep

LEMMA StoreKeeps ==
    ASSUME LendInv, StoreResult \/ StoreFlag
    PROVE  LendInv'
BY DEF StoreResult, StoreFlag, FirstStore, LendInv, SlotShape, HandOver,
   ExchangeShape, OneExchange, Core0Works, request, exchange, dirVars, fileVars,
   answerVars

-----------------------------------------------------------------------------
(***************************************************************************)
(* Core 0 never works without core 1 waiting for it with the buffer lent:  *)
(* cloud_submit's own guard (g_cloud_cmd.pending) does not ensure it, since *)
(* the slot is given back before the work begins; the phase does.          *)
(***************************************************************************)
THEOREM LendInvariant == Spec => []LendInv
<1>1. Init => LendInv
  BY DEF Init, CloudInit, Request, LendInv, SlotShape, HandOver, ExchangeShape,
     OneExchange, Core0Works
<1>2. LendInv /\ [Next]_vars => LendInv'
  <2> SUFFICES ASSUME LendInv, [Next]_vars PROVE LendInv'
    OBVIOUS
  <2>1. CASE UNCHANGED vars
    BY <2>1 DEF vars, cloudVars, unicardVars, link, request, exchange, sink,
       answerVars, dirVars, fileVars, asyncVars, LendInv, SlotShape, HandOver,
       ExchangeShape, OneExchange, Core0Works
  <2>2. CASE Core0
    BY <2>2, CloudKeeps, StoreKeeps DEF Core0
  <2>3. CASE Core1
    BY <2>3, HarvestKeeps, HarvestNetKeeps, RefuseAndReturnKeep, CommandKeeps,
       DataKeeps DEF Core1
  <2> QED
    BY <2>1, <2>2, <2>3 DEF Next
<1> QED
  BY <1>1, <1>2, PTL DEF Spec

(***************************************************************************)
(* While core 0 has a command, the device waits for that very command and  *)
(* its buffer is lent (unicard.cpp:299, finishAsync, softReset).           *)
(***************************************************************************)
THEOREM LentThroughout == Spec => []BuffersLent
<1>1. LendInv => BuffersLent
  BY DEF LendInv, HandOver, BuffersLent
<1> QED
  BY <1>1, LendInvariant, PTL

(***************************************************************************)
(* No callback of lwIP, however late, writes to a buffer core 1 may have   *)
(* freed (the g_http_cb_armed gate of cloud_fs.cpp:339 and 565).           *)
(***************************************************************************)
THEOREM LateDataNeverLands == Spec => []LateDataDropped
<1>1. LendInv => LateDataDropped
  BY DEF LendInv, HandOver, ExchangeShape, LateDataDropped, Core0Works
<1> QED
  BY <1>1, LendInvariant, PTL

(***************************************************************************)
(* Two exchanges never share the request structure (cloud_fs.cpp:230, 494).*)
(***************************************************************************)
THEOREM ExchangesApart == Spec => []OneExchange
<1>1. LendInv => OneExchange
  BY DEF LendInv, ExchangeShape
<1> QED
  BY <1>1, LendInvariant, PTL

-----------------------------------------------------------------------------
(***************************************************************************)
(* The second inductive invariant, of core 1 alone: a transfer owns one    *)
(* buffer from its submission to its harvest, the parameters of OPEN find  *)
(* the file closed, and those of READDIR, like a listing under way, the    *)
(* stream.                                                                 *)
(***************************************************************************)
ParamShape ==
    /\ wants # None => phase = "param"
    /\ wants = "open" => file = Shut
    /\ wants = "readdir" => stream = None /\ listing = None

TransferShape ==
    /\ pc1 = "submitted" => phase = "done" /\ kind # "net"
    /\ Transferring => kind \in {"dir", "file", "net"}
    /\ Transferring /\ kind = "file" => buf = "lent"
    /\ Transferring /\ kind = "dir" => listing = "lent" /\ stream = None
    /\ stream = "dir" => listing = None

OwnInv == ParamShape /\ TransferShape /\ NothingLeaks

\* All that an action may change of it, and that core 0 leaves alone.
ownVars == <<pc1, phase, wants, kind, stream, listing, file, buf>>

LEMMA OwnStutters ==
    ASSUME OwnInv, UNCHANGED ownVars
    PROVE  OwnInv'
BY DEF OwnInv, ParamShape, TransferShape, NothingLeaks, Transferring, ownVars

LEMMA FreeOwnsNothing ==
    ASSUME OwnInv, Free
    PROVE  pc1 = "idle" /\ ~Transferring /\ buf # "lent" /\ listing # "lent"
BY DEF OwnInv, NothingLeaks, Transferring, Free, Accessed

\* What a record read leaves behind.
LEMMA StreamNextOwns ==
    ASSUME NEW s, NEW n, NEW d, NEW ph, StreamNext(s, n, d, ph)
    PROVE  /\ phase' \in {ph, "done"}
           /\ listing' \in {listing, "mine", None}
           /\ stream' \in {None, s}
           /\ stream' = "dir" => s = "dir" /\ listing' = listing
<1>1. CASE s = "dir"
  BY <1>1 DEF StreamNext, Fails, None
<1>2. CASE s # "dir"
  BY <1>2 DEF StreamNext, None
<1> QED
  BY <1>1, <1>2

LEMMA StartOwns ==
    ASSUME OwnInv, Free, wants' = None, NEW k \in {"dir", "file"}, NEW n, NEW by,
           StartCloud(k, n, by),
           k = "dir" => stream = None, k = "file" => file.kind # "cloud"
    PROVE  OwnInv'
<1>1. ~Transferring /\ buf # "lent" /\ listing # "lent"
  BY FreeOwnsNothing
<1>2. /\ pc1' = "submitted" /\ phase' = "done" /\ kind' = k
      /\ UNCHANGED <<stream, file>>
      /\ listing' = IF k = "dir" THEN "lent" ELSE listing
      /\ buf' = IF k = "file" THEN "lent" ELSE buf
  BY DEF StartCloud
<1> QED
  BY <1>1, <1>2 DEF OwnInv, ParamShape, TransferShape, NothingLeaks, Transferring, None

LEMMA HarvestOwns ==
    ASSUME OwnInv, Harvest
    PROVE  OwnInv'
<1> USE DEF OwnInv, ParamShape, TransferShape, NothingLeaks, Transferring
<1>1. /\ phase = "async" /\ kind \in {"dir", "file"} /\ pc1 = "idle" /\ wants = None
      /\ pc1' = "idle" /\ wants' = None /\ kind' = None
  BY DEF Harvest, CloudDone
<1>2. CASE HarvestFailure
  BY <1>1, <1>2 DEF HarvestFailure, DropBuffer, Fails, None
<1>3. CASE HarvestListing
  <2>1. /\ phase' = "done" /\ UNCHANGED <<file, buf>>
        /\ listing' \in {"mine", None} /\ stream' # "dir"
    BY <1>3 DEF HarvestListing, StreamNext, fileVars, None
  <2> QED
    BY <1>1, <1>3, <2>1 DEF HarvestListing, None
<1>4. CASE HarvestCopy
  BY <1>1, <1>4 DEF HarvestCopy, Succeeds, Fails, dirVars, None, Shut
<1>5. CASE HarvestOpen
  BY <1>1, <1>5 DEF HarvestOpen, Succeeds, dirVars, None
<1> QED
  BY <1>2, <1>3, <1>4, <1>5 DEF Harvest

LEMMA HarvestNetOwns ==
    ASSUME OwnInv, HarvestNet
    PROVE  OwnInv'
BY DEF HarvestNet, FfDone, dirVars, fileVars, OwnInv, ParamShape, TransferShape,
   NothingLeaks, Transferring

LEMMA RefuseAndReturnOwn ==
    ASSUME OwnInv, Refuse \/ Return
    PROVE  OwnInv'
BY DEF Refuse, Return, asyncVars, dirVars, fileVars, OwnInv, ParamShape,
   TransferShape, NothingLeaks, Transferring

LEMMA CommandOwns ==
    ASSUME OwnInv, Core1Command
    PROVE  OwnInv'
<1> USE DEF OwnInv, ParamShape, TransferShape, NothingLeaks, Transferring
<1>1. CASE Reset
  BY <1>1 DEF Reset, Closes, CloseFile, CloseDir, Shut, None, fileVars, dirVars
<1>2. CASE Free /\ UNCHANGED <<pc1, kind>> /\ ~Reset
  <2>1. ~Transferring /\ buf # "lent" /\ listing # "lent" /\ pc1 = "idle"
    BY <1>2, FreeOwnsNothing
  <2>2. CASE Simple \/ Truncate \/ Output
    BY <1>2, <2>1, <2>2 DEF Simple, Truncate, Output, FfDone, Succeeds, None,
       dirVars, fileVars
  <2>3. CASE Close
    BY <1>2, <2>1, <2>3 DEF Close, CloseFile, CloseDir, Succeeds, Shut, None
  <2>4. CASE StreamStep
    <3>1. /\ phase' = "done" /\ wants' = None /\ UNCHANGED <<file, buf>>
          /\ listing' \in {listing, "mine", None}
          /\ stream' = "dir" => stream = "dir" /\ listing' = listing
      BY <2>4, StreamNextOwns DEF StreamStep, Fails, dirVars, fileVars
    <3> QED
      BY <1>2, <2>1, <3>1 DEF None
  <2>5. ASSUME NEW c \in WithParams, BeginParams(c) PROVE OwnInv'
    BY <1>2, <2>1, <2>5 DEF BeginParams, CloseFile, CloseDir, WithParams, Shut, None,
       dirVars, fileVars
  <2> QED
    BY <1>2, <2>2, <2>3, <2>4, <2>5 DEF Core1Command
<1>3. Reset \/ (Free /\ UNCHANGED <<pc1, kind>>)
  BY DEF Core1Command, Simple, Truncate, Output, StreamStep, Close, BeginParams,
     Command, asyncVars
<1> QED
  BY <1>1, <1>2, <1>3

LEMMA DataOwns ==
    ASSUME OwnInv, Core1Data
    PROVE  OwnInv'
<1> USE DEF OwnInv, ParamShape, TransferShape, NothingLeaks, Transferring
<1>1. Free
  BY DEF Core1Data, ParamsRefused, ExecDevice, ExecStat, ExecNames, ExecGetConfig,
     ExecSetConfig, ExecNet, ReaddirCloud, OpenCloud, CopyCloud, ReaddirLocal,
     OpenLocal, CopyLocal, ReadOutput, ReadRecord, ReadFile, PutFile, Params
<1>2. ~Transferring /\ buf # "lent" /\ listing # "lent" /\ pc1 = "idle"
  BY <1>1, FreeOwnsNothing
<1>3. CASE ParamsRefused \/ ExecDevice \/ ExecStat \/ ExecNames \/ ExecSetConfig
           \/ CopyLocal
  BY <1>2, <1>3 DEF ParamsRefused, ExecDevice, ExecStat, ExecNames, ExecSetConfig,
     CopyLocal, Params, StaysHere, FfDone, Succeeds, Fails, asyncVars, dirVars,
     fileVars, None
<1>4. CASE ExecGetConfig
  BY <1>2, <1>4 DEF ExecGetConfig, Params, StaysHere, Succeeds, asyncVars, fileVars,
     None
<1>5. CASE ExecNet
  BY <1>2, <1>5 DEF ExecNet, Params, Fails, dirVars, fileVars, None
<1>6. CASE ReaddirLocal
  <2>1. /\ wants' = None /\ phase' = "done" /\ UNCHANGED <<pc1, kind, file, buf>>
        /\ listing' \in {listing, "mine", None}
        /\ stream' = "dir" => listing' = listing
    BY <1>6, StreamNextOwns DEF ReaddirLocal, Params, StaysHere, FfDone, asyncVars,
       dirVars, fileVars
  <2>2. listing = None
    BY <1>6 DEF ReaddirLocal, Params, None
  <2> QED
    BY <1>2, <2>1, <2>2 DEF None
<1>7. CASE OpenLocal
  <2>1. /\ wants' = None /\ phase' = "done" /\ UNCHANGED <<pc1, kind, stream, listing, buf>>
        /\ file = Shut /\ file'.kind # "cloud"
    BY <1>7 DEF OpenLocal, Params, StaysHere, Succeeds, Fails, asyncVars, dirVars,
       Shut, None
  <2> QED
    BY <1>2, <2>1 DEF Shut, None
<1>8. CASE ReadOutput \/ ReadFile \/ PutFile
  BY <1>2, <1>8 DEF ReadOutput, ReadFile, PutFile, StaysHere, asyncVars, dirVars,
     fileVars, None
<1>9. CASE ReadRecord
  <2>1. /\ phase' \in {phase, "done"} /\ UNCHANGED <<pc1, kind, file, buf>>
        /\ listing' \in {listing, "mine", None}
        /\ stream' = "dir" => stream = "dir" /\ listing' = listing
        /\ wants' \in {wants, None} /\ (phase' # "param" => wants' = None)
        /\ wants # "readdir"
    BY <1>9, StreamNextOwns DEF ReadRecord, StaysHere, asyncVars, fileVars, None
  <2> QED
    BY <1>2, <2>1 DEF None
<1>10. CASE ReaddirCloud \/ OpenCloud \/ CopyCloud
  <2>1. wants' = None
    BY <1>10 DEF ReaddirCloud, OpenCloud, CopyCloud, Params
  <2>2. CASE \E k \in {"dir", "file"} : CloudRefuses(k)
    BY <1>2, <2>1, <2>2 DEF CloudRefuses, Fails, dirVars, fileVars, None
  <2>3. CASE ReaddirCloud /\ ~CloudRefuses("dir")
    <3>1. stream = None
      BY <2>3 DEF ReaddirCloud, Params, None
    <3> QED
      BY <1>1, <2>1, <2>3, <3>1, StartOwns DEF ReaddirCloud
  <2>4. CASE OpenCloud /\ ~CloudRefuses("file")
    <3>1. file.kind # "cloud"
      BY <2>4 DEF OpenCloud, Params, Shut, None
    <3> QED
      BY <1>1, <2>1, <2>4, <3>1, StartOwns DEF OpenCloud
  <2>5. CASE CopyCloud /\ ~CloudRefuses("file")
    <3>1. file.kind # "cloud"
      BY <2>5 DEF CopyCloud, InMemory
    <3> QED
      BY <1>1, <2>1, <2>5, <3>1, StartOwns DEF CopyCloud
  <2> QED
    BY <1>10, <2>2, <2>3, <2>4, <2>5
<1> QED
  BY <1>3, <1>4, <1>5, <1>6, <1>7, <1>8, <1>9, <1>10 DEF Core1Data

THEOREM OwnInvariant == Spec => []OwnInv
<1>1. Init => OwnInv
  BY DEF Init, OwnInv, ParamShape, TransferShape, NothingLeaks, Transferring, Shut, None
<1>2. OwnInv /\ [Next]_vars => OwnInv'
  <2> SUFFICES ASSUME OwnInv, [Next]_vars PROVE OwnInv'
    OBVIOUS
  <2>1. CASE UNCHANGED vars \/ Core0
    BY <2>1, OwnStutters DEF Core0, StoreResult, StoreFlag, vars, unicardVars, ownVars,
       answerVars, dirVars, fileVars, asyncVars
  <2>2. CASE Core1
    BY <2>2, HarvestOwns, HarvestNetOwns, RefuseAndReturnOwn, CommandOwns, DataOwns
    DEF Core1
  <2> QED
    BY <2>1, <2>2 DEF Next
<1> QED
  BY <1>1, <1>2, PTL DEF Spec

(***************************************************************************)
(* The download buffer and the listing outlive no transfer and no file     *)
(* (unicard.cpp closeFile, closeDir, finishAsync).                         *)
(***************************************************************************)
THEOREM NothingIsLeaked == Spec => []NothingLeaks
<1>1. OwnInv => NothingLeaks
  BY DEF OwnInv
<1> QED
  BY <1>1, OwnInvariant, PTL

(***************************************************************************)
(* In one: core 0 and the callbacks write to nothing but what is lent to   *)
(* the one exchange there is (unicard.cpp, cloud_fs.cpp), inside every     *)
(* window too.                                                             *)
(***************************************************************************)
THEOREM BuffersAreKept == Spec => []BuffersKept
<1>1. OneExchange /\ BuffersLent /\ LateDataDropped => BuffersKept
  BY DEF BuffersKept
<1> QED
  BY <1>1, ExchangesApart, LentThroughout, LateDataNeverLands, PTL

-----------------------------------------------------------------------------
(***************************************************************************)
(* Types.  A link that is being tried has an attempt left.                 *)
(***************************************************************************)
LinkInv == LinkTypeOK /\ (linking => attempt < MaxRetries)

LEMMA Bounds == MaxRetries \in Nat /\ Room \in Nat
  BY CloudAssumption DEF CloudAssumption

LEMMA Zero == 0 \in 0 .. Room
  BY Bounds

LEMMA LinkTypes == ASSUME LinkInv, [Next]_vars PROVE LinkInv'
<1>1. CASE UNCHANGED link
  BY <1>1 DEF LinkInv, LinkTypeOK, link
<1>2. CASE WifiStep
  <2> USE DEF LinkInv, LinkTypeOK, WifiStep, WifiInit, WifiStart, WifiAttempt, WifiStatus,
      LinkDown, AtLoop
  <2>1. attempt' = 0 \/ attempt' = attempt \/ (attempt < MaxRetries /\ attempt' = attempt + 1)
    BY <1>2
  <2>2. attempt' \in 0 .. MaxRetries
    BY <2>1, Bounds
  <2>3. linking' \in BOOLEAN
        /\ wifi' \in {"init", "starting", "connecting", "connected", "error"}
    BY <1>2
  <2>4. linking' => linking \/ attempt < MaxRetries
    BY <1>2
  <2>5. linking' => attempt' = attempt
    BY <1>2
  <2> QED
    BY <2>2, <2>3, <2>4, <2>5
<1>3. CloudNext => WifiStep \/ UNCHANGED link
  BY DEF CloudNext, CloudStep, Take, Collect, Abandon, Deliver, WireEnds
<1>4. Core1 => UNCHANGED link
  BY DEF Core1, Harvest, HarvestNet, Refuse, Return, Core1Command, Core1Data, Simple,
     Truncate, Output, StreamStep, Close, Reset, BeginParams, Command, ParamsRefused,
     ExecDevice, ExecStat, ExecNames, ExecGetConfig, ExecSetConfig, ExecNet, ReaddirCloud,
     OpenCloud, CopyCloud, StartCloud, CloudRefuses, ReaddirLocal, OpenLocal, CopyLocal,
     ReadOutput, ReadRecord, ReadFile, PutFile, StaysHere, cloudVars
<1> QED
  BY <1>1, <1>2, <1>3, <1>4 DEF Next, Core0, StoreResult, StoreFlag, vars, cloudVars

\* Core 1's only touch of the exchange is to submit a command.
LEMMA ExchangeTypes == ASSUME ExchangeTypeOK, OneExchange, [Next]_vars PROVE ExchangeTypeOK'
<1> DEFINE exchangeVars == <<request, pc0, verdict, exchange, sink>>
<1>1. CASE UNCHANGED exchangeVars
  BY <1>1 DEF ExchangeTypeOK, request, exchange, sink
<1>2. CASE Take
  <2>1. ~ExchangeActive => wire = 0
    BY DEF OneExchange, ExchangeActive, ExchangeTypeOK
  <2>2. pending' = FALSE /\ slot' = slot
    BY <1>2 DEF Take
  <2>3. CASE UNCHANGED <<exchange, sink>> /\ Answer("unconnected")
    BY <2>2, <2>3 DEF ExchangeTypeOK, Answer, exchange, sink
  <2>4. CASE UNCHANGED exchange /\ landed' = 0 /\ over' = FALSE /\ Answer("timeout")
    BY <2>2, <2>4, Zero DEF ExchangeTypeOK, Answer, exchange
  <2>5. CASE NotStarted /\ landed' = 0 /\ over' = FALSE
    BY <2>2, <2>5, Zero DEF ExchangeTypeOK, NotStarted, Prepare, Answer
  <2>6. CASE Started /\ landed' = 0 /\ over' = FALSE /\ ~ExchangeActive
    <3>1. wire' \in 0 .. 1
      BY <2>1, <2>6 DEF Started
    <3> QED
      BY <2>2, <2>6, <3>1, Zero DEF ExchangeTypeOK, Started, Prepare
  <2> QED
    BY <1>2, <2>3, <2>4, <2>5, <2>6 DEF Take
<1>3. CASE Deliver
  <2>1. landed' \in 0 .. Room
    BY <1>3, Bounds DEF Deliver, ExchangeTypeOK
  <2> QED
    BY <1>3, <2>1 DEF Deliver, ExchangeTypeOK, request, exchange
<1>4. CASE WireEnds
  BY <1>4 DEF WireEnds, SetComplete, ExchangeTypeOK, request, sink
<1>5. CASE Collect \/ Abandon
  BY <1>5 DEF Collect, Abandon, Answer, Judge, Disarm, ExchangeTypeOK, request, sink
<1>6. CASE StoreResult \/ StoreFlag
  BY <1>6 DEF StoreResult, StoreFlag, ExchangeTypeOK, request, exchange, sink
<1>7. CASE WifiStep
  BY <1>1, <1>7 DEF WifiStep, WifiInit, WifiStart, WifiAttempt, WifiStatus, AtLoop
<1>8. CASE Core1
  <2>1. ASSUME NEW k \in {"dir", "file"}, NEW n \in CloudNames, NEW by, StartCloud(k, n, by)
        PROVE  ExchangeTypeOK'
    BY <2>1 DEF StartCloud, Submit, ExchangeTypeOK, Request, exchange, sink
  <2>2. CASE ReaddirCloud \/ OpenCloud \/ CopyCloud
    BY <1>1, <2>1, <2>2 DEF ReaddirCloud, OpenCloud, CopyCloud, CloudRefuses, cloudVars
  <2>3. CASE Harvest \/ HarvestNet \/ Refuse \/ Return \/ Core1Command
    BY <1>1, <2>3 DEF Harvest, HarvestNet, Refuse, Return, Core1Command, Simple, Truncate,
       Output, StreamStep, Close, Reset, BeginParams, Command, cloudVars
  <2>4. CASE Core1Data /\ ~(ReaddirCloud \/ OpenCloud \/ CopyCloud)
    BY <1>1, <2>4 DEF Core1Data, ParamsRefused, ExecDevice, ExecStat, ExecNames,
       ExecGetConfig, ExecSetConfig, ExecNet, ReaddirLocal, OpenLocal, CopyLocal,
       ReadOutput, ReadRecord, ReadFile, PutFile, StaysHere, cloudVars
  <2> QED
    BY <1>8, <2>2, <2>3, <2>4 DEF Core1
<1>9. CASE UNCHANGED vars
  BY <1>1, <1>9 DEF vars, cloudVars
<1> QED
  BY <1>2, <1>3, <1>4, <1>5, <1>6, <1>7, <1>8, <1>9 DEF Next, Core0, CloudNext, CloudStep

\* What a record read leaves of the stream, whatever it is.
LEMMA StreamNextTypes ==
    ASSUME NEW s \in {"dir", "sorted", "config"}, NEW n \in 0 .. Room, NEW d \in Nat, NEW ph,
           s = "dir" => d > 0, DirTypeOK, StreamNext(s, n, d, ph)
    PROVE  phase' \in {ph, "done"} /\ err' \in {"ok", "error"} /\ DirTypeOK'
<1>1. Room \in Nat
  BY Bounds
<1>2. CASE s = "dir"
  BY <1>1, <1>2 DEF StreamNext, CloseHandle, Fails, DirTypeOK, None
<1>3. CASE s # "dir"
  BY <1>1, <1>3 DEF StreamNext, DirTypeOK, None
<1> QED
  BY <1>2, <1>3

\* Core 0 leaves alone what core 1 keeps to itself.
LEMMA Core0Apart ==
    ASSUME Core0 \/ UNCHANGED vars
    PROVE  UNCHANGED <<pc1, answerVars, dirVars, fileVars, kind, copyDst, job, wrote>>
BY DEF Core0, StoreResult, StoreFlag, vars, unicardVars, asyncVars

LEMMA DirTypes == ASSUME DirTypeOK, ExchangeTypeOK, [Next]_vars PROVE DirTypeOK'
<1>1. CASE UNCHANGED dirVars
  BY <1>1 DEF DirTypeOK, dirVars
<1>2. ASSUME CloseDir PROVE DirTypeOK'
  <2>1. 0 \in 0 .. Room /\ left' = 0
    BY <1>2, Zero DEF CloseDir
  <2> QED
    BY <1>2, <2>1 DEF CloseDir, CloseHandle, DirTypeOK, None
<1>3. CASE HarvestFailure
  BY <1>1, <1>3, Zero DEF HarvestFailure, DirTypeOK, dirVars
<1>4. CASE HarvestListing
  BY <1>4, StreamNextTypes DEF HarvestListing, DirTypeOK, ExchangeTypeOK
<1>5. CASE StreamStep \/ ReadRecord
  BY <1>1, <1>5, StreamNextTypes DEF StreamStep, ReadRecord, DirTypeOK, None
<1>6. CASE ReaddirLocal
  <2>1. left \in 0 .. Room /\ dirs + 1 \in Nat /\ dirs + 1 > 0
    BY DEF DirTypeOK
  <2> QED
    BY <1>1, <1>6, <2>1, StreamNextTypes DEF ReaddirLocal
<1>7. CASE ExecGetConfig
  BY <1>7 DEF ExecGetConfig, DirTypeOK, None
<1>8. CASE ReaddirCloud \/ OpenCloud \/ CopyCloud
  BY <1>1, <1>8 DEF ReaddirCloud, OpenCloud, CopyCloud, StartCloud, CloudRefuses,
     DirTypeOK, dirVars
<1>9. CASE Reset \/ Close \/ \E c \in WithParams : BeginParams(c)
  BY <1>1, <1>2, <1>9 DEF Reset, Close, BeginParams
<1>10. CASE Core1Command \/ HarvestNet \/ Refuse \/ Return
  BY <1>1, <1>5, <1>9, <1>10 DEF Core1Command, HarvestNet, Refuse, Return, Simple, Truncate,
     Output
<1>11. CASE Harvest
  BY <1>1, <1>3, <1>4, <1>11 DEF Harvest, HarvestCopy, HarvestOpen
<1>12. CASE Core1Data
  BY <1>1, <1>5, <1>6, <1>7, <1>8, <1>12 DEF Core1Data, ParamsRefused, ExecDevice, ExecStat,
     ExecNames, ExecSetConfig, ExecNet, OpenLocal, CopyLocal, ReadOutput, ReadFile, PutFile
<1> QED
  BY <1>1, <1>10, <1>11, <1>12, Core0Apart DEF Next, Core1

LEMMA FileTypes == ASSUME FileTypeOK, ExchangeTypeOK, [Next]_vars PROVE FileTypeOK'
<1>1. CASE UNCHANGED file /\ buf' \in {buf, "lent", None}
  BY <1>1 DEF FileTypeOK
<1>2. CASE UNCHANGED fileVars \/ CloseFile
  BY <1>1, <1>2 DEF FileTypeOK, fileVars, CloseFile, Shut, None
<1>3. CASE Harvest
  <2>1. CASE HarvestOpen
    BY <2>1 DEF HarvestOpen, FileTypeOK, ExchangeTypeOK, Request
  <2> QED
    BY <1>1, <1>2, <1>3, <2>1 DEF Harvest, HarvestFailure, HarvestListing, HarvestCopy,
       DropBuffer
<1>4. CASE OpenLocal
  BY <1>1, <1>4 DEF OpenLocal, FileTypeOK, None
<1>5. CASE ReaddirCloud \/ OpenCloud \/ CopyCloud
  BY <1>1, <1>2, <1>5 DEF ReaddirCloud, OpenCloud, CopyCloud, StartCloud, CloudRefuses
<1>6. CASE Core1Command \/ HarvestNet \/ Refuse \/ Return
  BY <1>2, <1>6 DEF Core1Command, HarvestNet, Refuse, Return, Simple, Truncate, Output,
     StreamStep, Close, Reset, BeginParams
<1>7. CASE Core1Data
  BY <1>2, <1>4, <1>5, <1>7 DEF Core1Data, ParamsRefused, ExecDevice, ExecStat, ExecNames,
     ExecGetConfig, ExecSetConfig, ExecNet, ReaddirLocal, CopyLocal, ReadOutput, ReadRecord,
     ReadFile, PutFile
<1> QED
  BY <1>2, <1>3, <1>6, <1>7, Core0Apart DEF Next, Core1

\* What a step leaves in the history variable is on a volume.
LEMMA WroteTypes ==
    ASSUME wrote.path \in Volumes \cup {None}, FileTypeOK, TransferTypeOK, [Next]_vars
    PROVE  wrote'.path \in Volumes \cup {None}
<1>1. CASE UNCHANGED wrote \/ wrote' = NoWrite
  BY <1>1 DEF NoWrite
<1>2. ASSUME NEW p \in Volumes \cup {None}, NEW d, Wrote(p, d)
      PROVE  wrote'.path \in Volumes \cup {None}
  BY <1>2 DEF Wrote
<1>3. CASE Harvest
  BY <1>1, <1>2, <1>3 DEF Harvest, HarvestFailure, HarvestListing, HarvestCopy, HarvestOpen,
     TransferTypeOK
<1>4. CASE Core1Command
  BY <1>1, <1>2, <1>4 DEF Core1Command, Simple, Truncate, Output, StreamStep, Close, Reset,
     BeginParams, Command, FileTypeOK
<1>5. CASE ExecNames \/ ExecSetConfig \/ OpenLocal \/ CopyLocal \/ PutFile
  BY <1>1, <1>2, <1>5, UnicardAssumption DEF ExecNames, ExecSetConfig, OpenLocal, CopyLocal,
     PutFile, FileTypeOK
<1>6. CASE Core1Data
  BY <1>1, <1>5, <1>6 DEF Core1Data, ParamsRefused, ExecDevice, ExecStat, ExecGetConfig,
     ExecNet, ReaddirCloud, OpenCloud, CopyCloud, StartCloud, CloudRefuses, ReaddirLocal,
     ReadOutput, ReadRecord, ReadFile
<1>7. CASE HarvestNet \/ Refuse \/ Return
  BY <1>1, <1>7 DEF HarvestNet, Refuse, Return
<1> QED
  BY <1>1, <1>3, <1>4, <1>6, <1>7, Core0Apart DEF Next, Core1

LEMMA TransferTypes ==
    ASSUME TransferTypeOK, FileTypeOK, ExchangeTypeOK, [Next]_vars
    PROVE  TransferTypeOK'
<1>1. wrote'.path \in Volumes \cup {None}
  BY WroteTypes DEF TransferTypeOK
<1>2. ASSUME done' \in {done, FALSE}, result' = result, kind' \in {kind, None, "net"},
             copyDst' \in {copyDst, None}, job' \in {job, NoJob}
      PROVE  TransferTypeOK'
  <2>1. done' \in BOOLEAN
    BY <1>2 DEF TransferTypeOK
  <2>2. job'.cmd \in {None, "open", "readdir", "copy"}
    BY <1>2 DEF TransferTypeOK, NoJob, Job
  <2>3. kind' \in {None, "dir", "file", "net"}
    BY <1>2 DEF TransferTypeOK
  <2> QED
    BY <1>1, <1>2, <2>1, <2>2, <2>3 DEF TransferTypeOK
<1>3. CASE UNCHANGED asyncVars
  BY <1>2, <1>3 DEF asyncVars
<1>4. CASE Core0 \/ UNCHANGED vars
  <2>1. done' \in BOOLEAN /\ result' \in {"ok", "unconnected", "timeout", "failed"}
    BY <1>4 DEF Core0, StoreResult, FirstStore, StoreFlag, TransferTypeOK, ExchangeTypeOK,
       vars, unicardVars, asyncVars
  <2> QED
    BY <1>1, <1>4, <2>1, Core0Apart DEF TransferTypeOK
<1>5. CASE Harvest \/ HarvestNet \/ Refuse \/ Return
  BY <1>2, <1>3, <1>5 DEF Harvest, HarvestFailure, HarvestListing, HarvestCopy, HarvestOpen,
     HarvestNet, Refuse, Return
<1>6. CASE Core1Command
  BY <1>2, <1>3, <1>6 DEF Core1Command, Simple, Truncate, Output, StreamStep, Close, Reset,
     BeginParams, Command
<1>7. CASE ReaddirCloud \/ OpenCloud \/ CopyCloud
  <2>1. CASE \E k \in {"dir", "file"} : CloudRefuses(k) /\ copyDst' \in {copyDst, None}
    <3>1. kind' \in {kind, "dir", "file"} /\ done' \in {done, FALSE}
      BY <2>1 DEF CloudRefuses
    <3> QED
      BY <1>1, <2>1, <3>1 DEF CloudRefuses, TransferTypeOK
  <2>2. ASSUME NEW k \in {"dir", "file"}, NEW n, NEW p, NEW c \in {"open", "readdir", "copy"},
               StartCloud(k, n, Job(c, n, p)), copyDst' \in Volumes \cup {copyDst}
        PROVE  TransferTypeOK'
    BY <1>1, <2>2 DEF StartCloud, ClearDone, Job, TransferTypeOK
  <2>3. CASE ReaddirCloud \/ OpenCloud
    BY <2>1, <2>2, <2>3 DEF ReaddirCloud, OpenCloud
  <2>4. CASE CopyCloud
    BY <2>1, <2>2, <2>4 DEF CopyCloud
  <2> QED
    BY <1>7, <2>3, <2>4
<1>8. CASE Core1Data
  BY <1>2, <1>3, <1>7, <1>8 DEF Core1Data, ParamsRefused, ExecDevice, ExecStat, ExecNames,
     ExecGetConfig, ExecSetConfig, ExecNet, ReaddirLocal, OpenLocal, CopyLocal, ReadOutput,
     ReadRecord, ReadFile, PutFile, StaysHere
<1> QED
  BY <1>4, <1>5, <1>6, <1>8 DEF Next, Core1

\* The phase and the parameters are set together, and an answer has a length.
LEMMA AnswerTypes ==
    ASSUME AnswerTypeOK, OwnInv, DirTypeOK, ExchangeTypeOK, [Next]_vars
    PROVE  AnswerTypeOK'
<1>1. CASE UNCHANGED <<pc1, answerVars>>
  BY <1>1 DEF AnswerTypeOK, answerVars
<1>2. ASSUME pc1' \in {"idle", "submitted"}, err' \in {"ok", "busy", "cloud", "error"},
             out' = out,
             phase' \in {"done", "async"} /\ wants' = None
      PROVE  AnswerTypeOK'
  BY <1>2 DEF AnswerTypeOK
<1>3. ASSUME pc1' = pc1, err' \in {"ok", "busy", "cloud", "error"}, out' = out,
             phase' = phase /\ wants' = wants
      PROVE  AnswerTypeOK'
  BY <1>3 DEF AnswerTypeOK
<1>4. ASSUME pc1' = pc1, err' = "ok", out' \in OutLens, phase' = "dout" /\ wants' = None
      PROVE  AnswerTypeOK'
  BY <1>4, UnicardAssumption DEF AnswerTypeOK
<1>5. CASE Harvest \/ HarvestNet \/ Refuse \/ Return
  <2>1. CASE Harvest
    <3>1. phase = "async" /\ wants = None /\ UNCHANGED <<pc1, wants, out>>
      BY <2>1 DEF Harvest, CloudDone, AnswerTypeOK
    <3>2. phase' = "done" /\ err' \in {"ok", "cloud", "error"}
      <4>1. CASE HarvestListing
        BY <4>1, StreamNextTypes DEF HarvestListing, DirTypeOK, ExchangeTypeOK
      <4> QED
        BY <2>1, <4>1 DEF Harvest, HarvestFailure, HarvestCopy, HarvestOpen, Fails, Succeeds
    <3> QED
      BY <1>2, <3>1, <3>2 DEF AnswerTypeOK
  <2>2. CASE HarvestNet
    BY <1>2, <1>4, <2>2 DEF HarvestNet, FfDone, AnswerTypeOK
  <2>3. CASE Refuse
    BY <1>3, <2>3 DEF Refuse
  <2>4. CASE Return
    <3>1. wants = None
      BY <2>4 DEF Return, OwnInv, TransferShape, AnswerTypeOK
    <3> QED
      BY <1>2, <2>4, <3>1 DEF Return
  <2> QED
    BY <1>5, <2>1, <2>2, <2>3, <2>4
<1>6. CASE Core1Command
  <2>1. CASE Output
    BY <1>4, <2>1 DEF Output, Command
  <2>2. ASSUME NEW c \in WithParams, BeginParams(c) PROVE AnswerTypeOK'
    BY <2>2 DEF BeginParams, Command, AnswerTypeOK, WithParams, None
  <2>3. CASE StreamStep
    BY <1>2, <2>3, StreamNextTypes DEF StreamStep, Command, Fails, DirTypeOK, AnswerTypeOK
  <2>4. CASE Simple \/ Truncate \/ Close \/ Reset
    BY <1>2, <2>4 DEF Simple, Truncate, Close, Reset, Command, FfDone, Succeeds, AnswerTypeOK
  <2> QED
    BY <1>6, <2>1, <2>2, <2>3, <2>4 DEF Core1Command
<1>7. CASE Core1Data
  <2> USE DEF Params, StaysHere, Fails, Succeeds, FfDone
  <2>1. CASE ExecStat
    BY <1>4, <2>1 DEF ExecStat
  <2>2. CASE ReadOutput
    BY <2>2 DEF ReadOutput, LastByte, AnswerTypeOK
  <2>3. CASE ReadRecord
    <3>1. phase' \in {phase, "done"} /\ err' \in {"ok", "error"}
      BY <2>3, StreamNextTypes DEF ReadRecord, DirTypeOK
    <3> QED
      BY <2>3, <3>1 DEF ReadRecord, AnswerTypeOK
  <2>4. CASE ReadFile
    BY <2>4 DEF ReadFile, AnswerTypeOK, None
  <2>5. CASE PutFile
    BY <1>3, <2>5 DEF PutFile
  <2>6. CASE ReaddirCloud \/ OpenCloud \/ CopyCloud
    BY <1>2, <2>6 DEF ReaddirCloud, OpenCloud, CopyCloud, StartCloud, CloudRefuses,
       AnswerTypeOK
  <2>7. CASE ReaddirLocal
    <3>1. left \in 0 .. Room /\ dirs + 1 \in Nat /\ dirs + 1 > 0
      BY DEF DirTypeOK
    <3>2. phase' = "done" /\ err' \in {"ok", "error"}
      BY <2>7, <3>1, StreamNextTypes DEF ReaddirLocal
    <3> QED
      BY <1>2, <2>7, <3>2 DEF ReaddirLocal, AnswerTypeOK
  <2>8. CASE ParamsRefused \/ ExecDevice \/ ExecNames \/ ExecGetConfig \/ ExecSetConfig
             \/ ExecNet \/ OpenLocal \/ CopyLocal
    BY <1>2, <2>8 DEF ParamsRefused, ExecDevice, ExecNames, ExecGetConfig, ExecSetConfig,
       ExecNet, OpenLocal, CopyLocal, AnswerTypeOK
  <2> QED
    BY <1>7, <2>1, <2>2, <2>3, <2>4, <2>5, <2>6, <2>7, <2>8 DEF Core1Data
<1> QED
  BY <1>1, <1>5, <1>6, <1>7, Core0Apart DEF Next, Core1

(***************************************************************************)
(* The phases, the streams, the file and core 0's exchange never leave     *)
(* their types: an answer being read always has a byte left, a directory   *)
(* being listed is open, no second exchange is counted, for every set of   *)
(* paths and every number of retries (unicard.cpp, cloud_fs.cpp).          *)
(***************************************************************************)
THEOREM TypeCorrect == Spec => []TypeOK
<1> DEFINE Inv == LinkInv /\ TypeOK
<1>1. Init => Inv
  <2> SUFFICES ASSUME Init PROVE Inv
    OBVIOUS
  <2>1. LinkInv
    <3>1. 0 \in 0 .. MaxRetries
      BY Bounds
    <3> QED
      BY <3>1 DEF Init, CloudInit, LinkInv, LinkTypeOK
  <2>2. ExchangeTypeOK
    <3>1. 0 \in 0 .. 1
      OBVIOUS
    <3> QED
      BY Zero, <3>1 DEF Init, CloudInit, ExchangeTypeOK
  <2>3. AnswerTypeOK
    BY DEF Init, AnswerTypeOK, None
  <2>4. DirTypeOK
    BY Zero DEF Init, DirTypeOK, None
  <2>5. FileTypeOK /\ TransferTypeOK
    BY DEF Init, FileTypeOK, TransferTypeOK, Shut, NoWrite, NoJob, Job, None
  <2> QED
    BY <2>1, <2>2, <2>3, <2>4, <2>5 DEF TypeOK, LinkInv
<1>2. Inv /\ OneExchange /\ OwnInv /\ [Next]_vars => Inv'
  BY LinkTypes, ExchangeTypes, AnswerTypes, DirTypes, FileTypes, TransferTypes
  DEF TypeOK, LinkInv
<1>3. Inv => TypeOK
  OBVIOUS
<1> HIDE DEF Inv
<1> QED
  BY <1>1, <1>2, <1>3, ExchangesApart, OwnInvariant, PTL DEF Spec

-----------------------------------------------------------------------------
(***************************************************************************)
(* What GETCONFIG leaves held, and that nothing else does.                 *)
(***************************************************************************)
LEMMA StreamNextCounts ==
    ASSUME NEW s, NEW n, NEW d \in Nat, NEW ph, StreamNext(s, n, d, ph)
    PROVE  Orphans' = d - IF s = "dir" THEN 1 ELSE 0
<1>1. CASE s = "dir"
  BY <1>1 DEF StreamNext, CloseHandle, Orphans, None
<1>2. CASE s # "dir"
  BY <1>2 DEF StreamNext, Orphans, None
<1> QED
  BY <1>1, <1>2

LEMMA OrphansCounted ==
    ASSUME OwnInv, DirTypeOK, [Next]_vars
    PROVE  Orphans' = Orphans \/ (Orphans' = Orphans + 1 /\ Interrupted /\ stream = "dir")
<1>1. dirs \in Nat /\ dirs + 1 \in Nat /\ Orphans = dirs - IF stream = "dir" THEN 1 ELSE 0
  BY DEF DirTypeOK, Orphans
<1>2. CASE UNCHANGED <<stream, dirs>>
  BY <1>2 DEF Orphans
<1>3. CASE CloseDir
  BY <1>1, <1>3 DEF CloseDir, CloseHandle, Orphans, None
<1>4. CASE Reset \/ Close \/ \E c \in WithParams : BeginParams(c)
  BY <1>2, <1>3, <1>4 DEF Reset, Close, BeginParams, dirVars
<1>5. CASE StreamStep \/ ReadRecord
  BY <1>1, <1>2, <1>5, StreamNextCounts DEF StreamStep, ReadRecord, dirVars
<1>6. CASE ReaddirLocal
  <2>1. CASE StreamNext("dir", left, dirs + 1, "done")
    <3>1. Orphans' = dirs
      BY <1>1, <2>1, StreamNextCounts
    <3>2. stream = None
      BY <1>6 DEF ReaddirLocal, Params, OwnInv, ParamShape, None
    <3> QED
      BY <1>1, <3>1, <3>2 DEF None
  <2> QED
    BY <1>2, <1>6, <2>1 DEF ReaddirLocal, dirVars
<1>7. CASE Harvest
  <2>1. CASE HarvestListing
    <3>1. Orphans' = dirs
      BY <1>1, <2>1, StreamNextCounts DEF HarvestListing
    <3>2. stream = None
      BY <1>7, <2>1 DEF Harvest, HarvestListing, CloudDone, OwnInv, TransferShape, Transferring
    <3> QED
      BY <1>1, <3>1, <3>2 DEF None
  <2> QED
    BY <1>2, <1>7, <2>1 DEF Harvest, HarvestFailure, HarvestCopy, HarvestOpen, dirVars
<1>8. CASE ExecGetConfig
  <2>1. Interrupted
    BY <1>8 DEF ExecGetConfig, Params, Interrupted
  <2>2. dirs' = dirs /\ stream' # "dir"
    BY <1>8 DEF ExecGetConfig, None
  <2> QED
    BY <1>1, <2>1, <2>2 DEF Orphans
<1>9. CASE UNCHANGED vars \/ Core0 \/ HarvestNet \/ Refuse \/ Return \/ Simple \/ Truncate \/ Output
  BY <1>2, <1>9, Core0Apart DEF HarvestNet, Refuse, Return, Simple, Truncate, Output, dirVars
<1>10. CASE ParamsRefused \/ ExecDevice \/ ExecStat \/ ExecNames \/ ExecSetConfig
            \/ ExecNet \/ OpenLocal \/ CopyLocal \/ ReadOutput \/ ReadFile \/ PutFile
  BY <1>2, <1>10 DEF ParamsRefused, ExecDevice, ExecStat, ExecNames, ExecSetConfig,
     ExecNet, OpenLocal, CopyLocal, ReadOutput, ReadFile, PutFile, dirVars
<1>11. CASE ReaddirCloud \/ OpenCloud \/ CopyCloud
  BY <1>2, <1>11 DEF ReaddirCloud, OpenCloud, CopyCloud, CloudRefuses, StartCloud, dirVars
<1> QED
  BY <1>4, <1>5, <1>6, <1>7, <1>8, <1>9, <1>10, <1>11
  DEF Next, Core1, Core1Command, Core1Data

LEMMA AllocationsFreed ==
    ASSUME OwnInv, [Next]_vars
    PROVE  /\ Kept' => Kept \/ (Interrupted /\ stream = "sorted")
           /\ listing' = "lent" => listing # "mine"
           /\ buf' = "lent" => buf # "mine"
<1> DEFINE Freed == /\ Kept' => Kept \/ (Interrupted /\ stream = "sorted")
                    /\ listing' = "lent" => listing # "mine"
                    /\ buf' = "lent" => buf # "mine"
<1>1. CASE UNCHANGED <<stream, listing>> /\ buf' \in {buf, None, "mine"}
  BY <1>1 DEF Kept, None
<1>2. CASE CloseDir /\ buf' \in {buf, None}
  BY <1>2 DEF CloseDir, Kept, None
<1>3. ASSUME NEW s, NEW n, NEW d, NEW ph, StreamNext(s, n, d, ph), buf' = buf,
             s = "dir" => listing = None, s \in {"dir", "sorted", stream}
      PROVE  Freed
  BY <1>3 DEF StreamNext, Kept, None
<1>4. CASE Reset \/ Close \/ \E c \in WithParams : BeginParams(c)
  BY <1>1, <1>2, <1>4 DEF Reset, Close, BeginParams, CloseFile, dirVars, fileVars
<1>5. CASE StreamStep \/ ReadRecord
  <2>1. stream = "dir" => listing = None
    BY DEF OwnInv, TransferShape
  <2> QED
    BY <1>1, <1>3, <1>5, <2>1 DEF StreamStep, ReadRecord, dirVars, fileVars
<1>6. CASE ReaddirLocal
  <2>1. listing = None
    BY <1>6 DEF ReaddirLocal, Params, OwnInv, ParamShape, None
  <2> QED
    BY <1>1, <1>3, <1>6, <2>1 DEF ReaddirLocal, dirVars, fileVars
<1>7. CASE Harvest
  <2>1. CASE HarvestFailure
    BY <2>1 DEF HarvestFailure, DropBuffer, Kept, None
  <2> QED
    BY <1>1, <1>3, <1>7, <2>1 DEF Harvest, HarvestListing, HarvestCopy, HarvestOpen, dirVars, fileVars
<1>8. CASE ExecGetConfig
  <2>1. Interrupted /\ UNCHANGED <<listing, buf>>
    BY <1>8 DEF ExecGetConfig, Params, Interrupted, fileVars
  <2> QED
    BY <2>1 DEF Kept
<1>9. CASE UNCHANGED vars \/ Core0 \/ HarvestNet \/ Refuse \/ Return \/ Simple \/ Truncate \/ Output
  BY <1>1, <1>9, Core0Apart DEF HarvestNet, Refuse, Return, Simple, Truncate, Output, dirVars, fileVars
<1>10. CASE ParamsRefused \/ ExecDevice \/ ExecStat \/ ExecNames \/ ExecSetConfig
            \/ ExecNet \/ OpenLocal \/ CopyLocal \/ ReadOutput \/ ReadFile \/ PutFile
  BY <1>1, <1>10 DEF ParamsRefused, ExecDevice, ExecStat, ExecNames, ExecSetConfig,
     ExecNet, OpenLocal, CopyLocal, ReadOutput, ReadFile, PutFile, dirVars, fileVars
<1>11. CASE ReaddirCloud
  <2>1. listing = None
    BY <1>11 DEF ReaddirCloud, Params, OwnInv, ParamShape, None
  <2> QED
    BY <1>1, <1>11, <2>1 DEF ReaddirCloud, StartCloud, CloudRefuses, Kept, dirVars, fileVars, None
<1>12. CASE OpenCloud \/ CopyCloud
  <2>1. buf # "mine"
    BY <1>12 DEF OpenCloud, CopyCloud, Params, InMemory, Shut, OwnInv, ParamShape, NothingLeaks, None
  <2> QED
    BY <1>1, <1>12, <2>1 DEF OpenCloud, CopyCloud, StartCloud, CloudRefuses, Kept, dirVars, fileVars
<1> QED
  BY <1>4, <1>5, <1>6, <1>7, <1>8, <1>9, <1>10, <1>11, <1>12
  DEF Next, Core1, Core1Command, Core1Data

(***************************************************************************)
(* Whatever is allocated or opened is given back by what ends its use, and *)
(* never overwritten, but for a listing that GETCONFIG takes the stream    *)
(* from (unicard.cpp closeFile, closeDir, finishAsync, cmdGetConfig).      *)
(***************************************************************************)
THEOREM NothingElseIsHeld == Spec => OnlyGetConfigHolds
<1>1. Init => Orphans = 0
  BY DEF Init, Orphans, None
<1>2. OwnInv /\ OwnInv' /\ TypeOK /\ [Next]_vars => [HeldByGetConfig]_vars
  BY OrphansCounted, AllocationsFreed DEF HeldByGetConfig, OwnInv, TypeOK
<1> QED
  BY <1>1, <1>2, OwnInvariant, TypeCorrect, PTL DEF Spec, OnlyGetConfigHolds

(***************************************************************************)
(* The client refuses a request as busy only while callbacks of lwIP may   *)
(* still come, which end it: the flag they clear is not set without them   *)
(* (cloud_fs.cpp:229 and 494).                                             *)
(***************************************************************************)
THEOREM BusyEnds ==
    ASSUME "restart" \notin Windows
    PROVE  Spec => []BusyIsBounded
<1>1. Init => BusyIsBounded
  BY DEF Init, CloudInit, BusyIsBounded, ExchangeActive
<1>2. LendInv /\ BusyIsBounded /\ [Next]_vars => BusyIsBounded'
  <2> SUFFICES ASSUME LendInv, BusyIsBounded, [Next]_vars PROVE BusyIsBounded'
    OBVIOUS
  <2> USE DEF BusyIsBounded, ExchangeActive
  <2>1. CASE UNCHANGED exchange
    BY <2>1 DEF exchange
  <2>2. CASE Take
    <3>1. CASE NotStarted
      BY <3>1 DEF NotStarted
    <3>2. CASE Started
      BY <3>2 DEF Started, LendInv, ExchangeShape
    <3> QED
      BY <2>1, <2>2, <3>1, <3>2 DEF Take
  <2>3. CASE Collect \/ Abandon \/ WireEnds
    BY <2>3 DEF Collect, Abandon, Disarm, WireEnds, SetComplete
  <2>4. CASE UNCHANGED vars
    BY <2>1, <2>4 DEF vars, cloudVars
  <2>5. CASE WifiStep \/ Deliver \/ StoreResult \/ StoreFlag
    BY <2>1, <2>5 DEF WifiStep, WifiInit, WifiStart, WifiAttempt, WifiStatus, AtLoop,
       Deliver, StoreResult, StoreFlag
  <2>6. CASE Core1
    <3>1. CASE ReaddirCloud \/ OpenCloud \/ CopyCloud
      BY <2>1, <3>1 DEF ReaddirCloud, OpenCloud, CopyCloud, CloudRefuses, StartCloud, cloudVars
    <3>2. CASE Harvest \/ HarvestNet \/ Refuse \/ Return \/ Core1Command
      BY <2>1, <3>2 DEF Harvest, HarvestNet, Refuse, Return, Core1Command, Simple, Truncate,
         Output, StreamStep, Close, Reset, BeginParams, Command, cloudVars
    <3>3. CASE Core1Data /\ ~(ReaddirCloud \/ OpenCloud \/ CopyCloud)
      BY <2>1, <3>3 DEF Core1Data, ParamsRefused, ExecDevice, ExecStat, ExecNames,
         ExecGetConfig, ExecSetConfig, ExecNet, ReaddirLocal, OpenLocal, CopyLocal,
         ReadOutput, ReadRecord, ReadFile, PutFile, StaysHere, cloudVars
    <3> QED
      BY <2>6, <3>1, <3>2, <3>3 DEF Core1
  <2> QED
    BY <2>2, <2>3, <2>4, <2>5, <2>6 DEF Next, Core0, CloudNext, CloudStep
<1> QED
  BY <1>1, <1>2, LendInvariant, PTL DEF Spec

-----------------------------------------------------------------------------
(***************************************************************************)
(* The third inductive invariant.  What is in the slot is what the command *)
(* that waits asked for, from its submission to its harvest, and the       *)
(* destination of a COPY is kept aside for that one alone, with fil_ free; *)
(* what core 0 has reported is its verdict.  And the last thing written    *)
(* beside an open file was written to it.                                  *)
(***************************************************************************)
JobShape ==
    Transferring /\ kind # "net" =>
        /\ slot.name = job.src
        /\ kind = "dir" => job.cmd = "readdir"
        /\ kind = "file" =>
              \/ job.cmd = "open" /\ copyDst = None
              \/ job.cmd = "copy" /\ copyDst = job.dst /\ copyDst # None /\ ~Local
        /\ done \/ pc0 = "stored" => result = verdict

WrittenHere == Local /\ wrote.data \notin {None, "name"} => wrote.path = file.name

LEMMA FreeFromJobs ==
    ASSUME OwnInv, Free, pc1' = "idle", phase' # "async" \/ kind' = "net"
    PROVE  JobShape'
BY DEF JobShape, Transferring

LEMMA StartShapes ==
    ASSUME LendInv, OwnInv, Free, NEW k \in {"dir", "file"}, NEW n, NEW by,
           StartCloud(k, n, by), by.src = n,
           k = "dir" => by.cmd = "readdir",
           k = "file" => \/ by.cmd = "open" /\ copyDst' = None
                         \/ by.cmd = "copy" /\ copyDst' = by.dst /\ copyDst' # None /\ ~Local
    PROVE  JobShape'
<1>1. ~Core0Works
  BY FreeIsIdle
<1>2. /\ kind' = k /\ slot'.name = n /\ job' = by /\ done' = FALSE /\ pc0' = pc0 /\ file' = file
  BY DEF StartCloud, ClearDone, Submit
<1>3. Local' = Local
  BY <1>2 DEF Local
<1> QED
  BY <1>1, <1>2, <1>3 DEF JobShape, Core0Works

\* Core 0 reports nothing but its verdict, and looks for no new work before.
LEMMA Core0Shapes ==
    ASSUME LendInv, JobShape, Core0
    PROVE  JobShape'
<1>1. UNCHANGED <<pc1, phase, kind, copyDst, job, file>>
  BY DEF Core0, StoreResult, StoreFlag, unicardVars, answerVars, asyncVars, fileVars
<1>2. slot' = slot
  BY DEF Core0, StoreResult, StoreFlag, CloudNext, WifiStep, WifiInit, WifiStart, WifiAttempt,
     WifiStatus, AtLoop, CloudStep, Take, Collect, Abandon, Deliver, WireEnds, request
<1>3. Transferring' = Transferring /\ Local' = Local
  BY <1>1 DEF Transferring, Local
<1>4. (done' \/ pc0' = "stored") /\ (done \/ pc0 = "stored" => result = verdict) => result' = verdict'
  <2>1. CASE StoreResult \/ StoreFlag
    BY <2>1 DEF StoreResult, StoreFlag, FirstStore
  <2>2. CASE CloudNext /\ UNCHANGED unicardVars
    <3>1. UNCHANGED <<done, result>>
      BY <2>2 DEF unicardVars, asyncVars
    <3>2. CASE Take \/ Collect \/ Abandon
      <4>1. ~done /\ pc0' \in {"answer", "exchange"}
        BY <3>2 DEF Take, Takeable, NotStarted, Started, Collect, Abandon, Answer, LendInv,
           HandOver, Core0Works
      <4> QED
        BY <3>1, <4>1
    <3>3. CASE ~(Take \/ Collect \/ Abandon)
      <4>1. UNCHANGED <<pc0, verdict>>
        BY <2>2, <3>3 DEF CloudNext, WifiStep, WifiInit, WifiStart, WifiAttempt, WifiStatus,
           AtLoop, CloudStep, Deliver, WireEnds
      <4> QED
        BY <3>1, <4>1
    <3> QED
      BY <3>2, <3>3
  <2> QED
    BY <2>1, <2>2 DEF Core0
<1> QED
  BY <1>1, <1>2, <1>3, <1>4 DEF JobShape

LEMMA JobsKept ==
    ASSUME "stalecopy" \notin Windows, LendInv, OwnInv, JobShape, [Next]_vars
    PROVE  JobShape'
<1>1. CASE UNCHANGED vars
  BY <1>1 DEF vars, cloudVars, request, unicardVars, answerVars, asyncVars, fileVars, JobShape,
     Transferring, Local
<1>2. CASE Core0
  BY <1>2, Core0Shapes
<1>3. CASE Harvest
  <2>1. pc1' = "idle" /\ phase' # "async"
    BY <1>3 DEF Harvest, HarvestFailure, HarvestListing, HarvestCopy, HarvestOpen, StreamNext,
       Fails, Succeeds
  <2> QED
    BY <2>1 DEF JobShape, Transferring
<1>4. CASE HarvestNet
  <2>1. pc1' = "idle" /\ phase' # "async"
    BY <1>4 DEF HarvestNet, FfDone
  <2> QED
    BY <2>1 DEF JobShape, Transferring
<1>5. CASE Refuse \/ Return
  <2>1. UNCHANGED <<cloudVars, kind, done, result, copyDst, job, file>> /\ Transferring
    BY <1>5 DEF Refuse, Return, asyncVars, fileVars, Transferring
  <2> QED
    BY <2>1 DEF JobShape, Local, cloudVars, request
<1>6. CASE Reset
  <2>1. CASE phase = "async" /\ kind # "net"
    <3>1. UNCHANGED <<cloudVars, kind, done, result, copyDst, job, file>> /\ Transferring
      BY <1>6, <2>1 DEF Reset, Closes, fileVars, Transferring
    <3> QED
      BY <3>1 DEF JobShape, Local, cloudVars, request
  <2>2. CASE ~(phase = "async" /\ kind # "net")
    BY <1>6, <2>2 DEF Reset, JobShape, Transferring
  <2> QED
    BY <2>1, <2>2
<1>7. CASE Core1Command /\ ~Reset
  <2>1. Free /\ pc1' = "idle" /\ phase' # "async"
    BY <1>7, StreamNextOwns DEF Core1Command, Simple, Truncate, Output, StreamStep, Close,
       BeginParams, Command, Free, Accessed, FfDone, Fails, Succeeds
  <2> QED
    BY <2>1, FreeFromJobs
<1>8. CASE Core1Data
  <2>1. Free
    BY <1>8 DEF Core1Data, ParamsRefused, ExecDevice, ExecStat, ExecNames, ExecGetConfig,
       ExecSetConfig, ExecNet, ReaddirCloud, OpenCloud, CopyCloud, ReaddirLocal,
       OpenLocal, CopyLocal, ReadOutput, ReadRecord, ReadFile, PutFile, Params
  <2>2. pc1 = "idle" /\ phase # "async"
    BY <2>1 DEF Free, Accessed
  <2>3. CASE ReaddirLocal \/ ReadRecord
    <3>1. pc1' = "idle" /\ phase' # "async"
      BY <2>2, <2>3, StreamNextOwns DEF ReaddirLocal, ReadRecord, StaysHere, FfDone
    <3> QED
      BY <2>1, <3>1, FreeFromJobs
  <2>4. CASE ParamsRefused \/ ExecDevice \/ ExecStat \/ ExecNames \/ ExecGetConfig \/ ExecSetConfig
             \/ ExecNet \/ OpenLocal \/ CopyLocal \/ ReadOutput \/ ReadFile \/ PutFile
    <3>1. pc1' = "idle" /\ (phase' # "async" \/ kind' = "net")
      BY <2>2, <2>4 DEF ParamsRefused, ExecDevice, ExecStat, ExecNames, ExecGetConfig,
         ExecSetConfig, ExecNet, OpenLocal, CopyLocal, ReadOutput, ReadFile, PutFile,
         StaysHere, FfDone, Fails, Succeeds
    <3> QED
      BY <2>1, <3>1, FreeFromJobs
  <2>5. ASSUME NEW k, CloudRefuses(k) PROVE JobShape'
    BY <2>1, <2>2, <2>5, FreeFromJobs DEF CloudRefuses, Fails
  <2>6. CASE ReaddirCloud
    BY <2>1, <2>5, <2>6, StartShapes DEF ReaddirCloud, Job
  <2>7. CASE OpenCloud
    BY <2>1, <2>5, <2>7, StartShapes DEF OpenCloud, Job
  <2>8. CASE CopyCloud
    BY <2>1, <2>5, <2>8, StartShapes, UnicardAssumption DEF CopyCloud, Job, FilFree, None
  <2> QED
    BY <1>8, <2>3, <2>4, <2>6, <2>7, <2>8 DEF Core1Data
<1> QED
  BY <1>1, <1>2, <1>3, <1>4, <1>5, <1>6, <1>7, <1>8 DEF Next, Core1

LEMMA OneFileWritten ==
    ASSUME OwnInv, JobShape, WrittenHere, [Next]_vars
    PROVE  WrittenHere' /\ OneFile
<1>1. CASE UNCHANGED <<wrote, file>>
  BY <1>1 DEF WrittenHere, OneFile, Local
<1>2. CASE wrote' = NoWrite
  BY <1>2 DEF WrittenHere, OneFile, NoWrite
<1>3. CASE ~Local /\ file' = file
  BY <1>3 DEF WrittenHere, OneFile, Local
<1>4. CASE wrote'.data = "name" \/ wrote'.path = file'.name
  BY <1>4 DEF WrittenHere, OneFile
<1>5. CASE UNCHANGED vars \/ Core0 \/ Return
  BY <1>1, <1>5 DEF Core0, StoreResult, StoreFlag, Return, vars, unicardVars, fileVars
<1>6. CASE Harvest
  <2>1. CASE HarvestCopy
    <3>1. ~Local
      BY <1>6, <2>1 DEF Harvest, CloudDone, HarvestCopy, JobShape, Transferring
    <3> QED
      BY <1>3, <2>1, <3>1 DEF HarvestCopy
  <2> QED
    BY <1>2, <1>6, <2>1 DEF Harvest, HarvestFailure, HarvestListing, HarvestOpen
<1>7. CASE HarvestNet \/ Refuse \/ Reset \/ (Core1Command /\ ~Truncate)
  BY <1>2, <1>7 DEF HarvestNet, Refuse, Reset, Core1Command, Simple, Output, StreamStep, Close,
     BeginParams, Command
<1>8. CASE Truncate \/ PutFile
  BY <1>2, <1>4, <1>8 DEF Truncate, PutFile, Wrote, fileVars
<1>9. CASE ExecNames
  BY <1>4, <1>9 DEF ExecNames, Wrote
<1>10. CASE ExecSetConfig \/ CopyLocal
  BY <1>2, <1>3, <1>10 DEF ExecSetConfig, CopyLocal, FilFree, fileVars
<1>11. CASE OpenLocal
  BY <1>2, <1>4, <1>11 DEF OpenLocal, Wrote
<1>12. CASE ReaddirCloud \/ OpenCloud \/ CopyCloud
  BY <1>2, <1>12 DEF ReaddirCloud, OpenCloud, CopyCloud, CloudRefuses, StartCloud
<1>13. CASE ParamsRefused \/ ExecDevice \/ ExecStat \/ ExecGetConfig \/ ExecNet \/ ReaddirLocal
            \/ ReadOutput \/ ReadRecord \/ ReadFile
  BY <1>2, <1>13 DEF ParamsRefused, ExecDevice, ExecStat, ExecGetConfig, ExecNet, ReaddirLocal,
     ReadOutput, ReadRecord, ReadFile
<1> QED
  BY <1>5, <1>6, <1>7, <1>8, <1>9, <1>10, <1>11, <1>12, <1>13
  DEF Next, Core1, Core1Command, Core1Data

\* A transfer ends in its harvest.
LEMMA LandsAsAsked ==
    ASSUME LendInv, OwnInv, JobShape, [Next]_vars, Landing
    PROVE  Landed
<1>1. Harvest
  <2>1. ~(UNCHANGED vars \/ Core0)
    BY DEF Landing, vars, Core0, StoreResult, StoreFlag, unicardVars, answerVars
  <2>2. ~(HarvestNet \/ Refuse \/ Return \/ Reset)
    BY DEF Landing, HarvestNet, Refuse, Return, Reset
  <2>3. ~Free
    BY DEF Landing, Free
  <2>4. ~(Core1Command /\ ~Reset) /\ ~Core1Data
    BY <2>3 DEF Core1Command, Simple, Truncate, Output, StreamStep, Close, BeginParams, Command,
       Core1Data, ParamsRefused, ExecDevice, ExecStat, ExecNames, ExecGetConfig,
       ExecSetConfig, ExecNet, ReaddirCloud, OpenCloud, CopyCloud, ReaddirLocal,
       OpenLocal, CopyLocal, ReadOutput, ReadRecord, ReadFile, PutFile, Params
  <2> QED
    BY <2>1, <2>2, <2>4 DEF Next, Core1
<1>2. /\ phase = "async" /\ done /\ kind \in {"dir", "file"} /\ kind # "net"
  BY <1>1 DEF Harvest, CloudDone, OwnInv, TransferShape, Transferring
<1>3. /\ result = verdict /\ slot.name = job.src
      /\ kind = "dir" => job.cmd = "readdir"
      /\ kind = "file" => \/ job.cmd = "open" /\ copyDst = None
                          \/ job.cmd = "copy" /\ copyDst = job.dst /\ copyDst # None
  BY <1>2 DEF JobShape, Transferring
<1>4. CASE HarvestFailure
  BY <1>4 DEF HarvestFailure, Fails, NoWrite, Landed
<1>5. CASE HarvestListing
  <2>1. wrote' = NoWrite /\ stream' \in {None, "sorted"}
    BY <1>5, StreamNextOwns DEF HarvestListing
  <2>2. job.cmd = "readdir" /\ verdict = "ok" /\ wrote'.path = None
    BY <1>3, <1>5, <2>1 DEF HarvestListing, NoWrite
  <2> QED
    BY <2>1, <2>2 DEF Landed
<1>6. CASE HarvestCopy
  <2>1. job.cmd = "copy" /\ verdict = "ok" /\ copyDst = job.dst /\ slot.name = job.src
    BY <1>3, <1>6 DEF HarvestCopy
  <2>2. \/ wrote' = [path |-> job.dst, data |-> job.src] /\ err' = "ok"
        \/ wrote' = [path |-> job.dst, data |-> "torn"] /\ err' = "error"
        \/ wrote' = NoWrite /\ err' = "error"
    BY <1>6, <2>1 DEF HarvestCopy, Wrote, Succeeds, Fails
  <2>3. wrote'.path \in {None, job.dst}
    BY <2>2 DEF NoWrite
  <2> QED
    BY <2>1, <2>2, <2>3 DEF Landed
<1>7. CASE HarvestOpen
  BY <1>3, <1>7 DEF HarvestOpen, NoWrite, Landed
<1> QED
  BY <1>1, <1>4, <1>5, <1>6, <1>7 DEF Harvest

(***************************************************************************)
(* A transfer leaves exactly what its command asked for, and success means *)
(* that core 0 reported it; nothing is written beside a file that is open  *)
(* (unicard.cpp:963 finishAsync, cmdCOPY, rewrite_ini).                    *)
(***************************************************************************)
THEOREM TransfersLand ==
    ASSUME "stalecopy" \notin Windows
    PROVE  Spec => TransferLands
<1>1. Init => JobShape /\ WrittenHere
  BY DEF Init, JobShape, WrittenHere, Transferring, Local, Shut, None
<1>2. LendInv /\ OwnInv /\ JobShape /\ WrittenHere /\ [Next]_vars => JobShape' /\ WrittenHere'
  BY JobsKept, OneFileWritten
<1>3. LendInv /\ OwnInv /\ JobShape /\ WrittenHere /\ [Next]_vars =>
          [(Landing => Landed) /\ OneFile]_vars
  BY OneFileWritten, LandsAsAsked
<1> QED
  BY <1>1, <1>2, <1>3, LendInvariant, OwnInvariant, PTL DEF Spec, TransferLands

=============================================================================
