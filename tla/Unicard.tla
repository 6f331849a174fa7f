------------------------------- MODULE Unicard -------------------------------
(***************************************************************************)
(* The Unicard command device, core 1, composed with the cloud client of   *)
(* core 0 (CloudFS).  One step is one port access of the Z80 or one Z80    *)
(* reset; submitting to core 0 and coming back are two steps, and so are   *)
(* the two words cloudDone stores.  Every port handler first calls         *)
(* finishAsync; that call is the step Harvest, and no handler goes on      *)
(* before it: an access made when there is something to harvest is Harvest *)
(* followed by the access itself.                                          *)
(***************************************************************************)
EXTENDS CloudFS

CONSTANTS
    Volumes,  \* paths on the FatFs volumes
    Ini,      \* picoConfigPath, one of them
    OutLens,  \* lengths of the answers a command may have
    MaxOrphans \* bound on the directories that are never closed

ASSUME UnicardAssumption ==
    /\ Ini \in Volumes
    /\ "none" \notin Volumes   \* no path: see None
    /\ OutLens \subseteq Nat \ {0}
    /\ MaxOrphans \in Nat

-----------------------------------------------------------------------------
VARIABLES
    pc1,      \* core 1: between accesses, or back from cloud_submit
    phase,    \* phase_
    wants,    \* cmd_ in the parameter phase: the command they are for
    err,      \* sts_err_ and err_code_
    out,      \* buf_count_ in the output phase
    stream,   \* stream_
    left,     \* sorted_n_ - sorted_i_
    dirs,     \* directories f_opendir opened and f_closedir has not closed
    listing,  \* who owns sorted_: nobody, core 0, core 1
    file,     \* file_open_, mem_ and file_mode_, and what is open
    buf,      \* who owns cloud_buf_
    kind,     \* async_kind_
    done, result,   \* async_done_, async_result_
    copyDst,  \* copy_dst_ (HarvestFailure leaves it: the window "stalecopy")
    wrote,    \* history: what this access changed on the volumes
    job       \* history: the command that waits for core 0

answerVars == <<phase, wants, err, out>>
dirVars == <<stream, left, dirs, listing>>
fileVars == <<file, buf>>
asyncVars == <<kind, done, result, copyDst, job>>
unicardVars == <<pc1, answerVars, dirVars, fileVars, asyncVars, wrote>>
vars == <<cloudVars, unicardVars>>

None == "none"
NoWrite == [path |-> None, data |-> None]
Wrote(p, d) == wrote' = [path |-> p, data |-> d]
Shut == [kind |-> None, name |-> None]
Job(c, name, p) == [cmd |-> c, src |-> name, dst |-> p]
NoJob == Job(None, None, None)

\* The commands with parameters; "path" stands for those that only use the
\* volumes, and "getc" is what cmd_ becomes when the file is read meanwhile.
WithParams == {"open", "readdir", "getconfig", "setconfig", "copy", "path", "join"}

AnswerTypeOK ==
    /\ pc1 \in {"idle", "submitted"}
    /\ phase \in {"done", "param", "dout", "async"}
    /\ wants \in WithParams \cup {"getc", None}
    /\ wants # None <=> phase = "param"
    /\ err \in {"ok", "busy", "cloud", "error"}
    /\ out \in Nat /\ (phase = "dout" => out > 0)

DirTypeOK ==
    /\ stream \in {None, "dir", "sorted", "config"}
    /\ left \in 0 .. Room /\ dirs \in Nat /\ (stream = "dir" => dirs > 0)
    /\ listing \in {None, "lent", "mine"}

FileTypeOK ==
    /\ file.kind \in {None, "read", "write", "embedded", "cloud"}
    /\ file.name \in Volumes \cup CloudNames \cup {None}
    /\ file.kind = "write" => file.name \in Volumes
    /\ buf \in {None, "lent", "mine"}

TransferTypeOK ==
    /\ kind \in {None, "dir", "file", "net"}
    /\ done \in BOOLEAN /\ result \in {"ok", "unconnected", "timeout", "failed"}
    /\ copyDst \in Volumes \cup {None}
    /\ wrote.path \in Volumes \cup {None}
    /\ job.cmd \in {None, "open", "readdir", "copy"}

TypeOK ==
    /\ LinkTypeOK /\ ExchangeTypeOK
    /\ AnswerTypeOK /\ DirTypeOK /\ FileTypeOK /\ TransferTypeOK

Init ==
    /\ CloudInit
    /\ pc1 = "idle"
    /\ phase = "done" /\ wants = None /\ err = "ok" /\ out = 0
    /\ stream = None /\ left = 0 /\ dirs = 0 /\ listing = None
    /\ file = Shut /\ buf = None
    /\ kind = None /\ done = FALSE /\ result = "ok" /\ copyDst = None
    /\ wrote = NoWrite
    /\ job = NoJob

-----------------------------------------------------------------------------
\* Helpers.

Local == file.kind \in {"read", "write"}    \* file_open_: fil_ is in use
InMemory == file.kind \in {"embedded", "cloud"}

CloseFile == file' = Shut /\ buf' = None

CloseHandle(d) == dirs' = d - 1

CloseDir ==
    /\ IF stream = "dir" THEN CloseHandle(dirs) ELSE UNCHANGED dirs
    /\ stream' = None /\ left' = 0 /\ listing' = None

\* setError, setOk: the phase and the error word
Fails(code) == phase' = "done" /\ err' = code
Succeeds == phase' = "done" /\ err' = "ok"
FfDone == phase' = "done" /\ err' \in {"ok", "error"}

\* streamNext, called in phase ph on the stream s with n sorted entries left
\* and d directories open: a record is ready, or the stream is over (and
\* closed), or reading the directory failed.
StreamNext(s, n, d, ph) ==
    \/ /\ s = "dir"
       /\ \/ stream' = "dir" /\ dirs' = d /\ UNCHANGED <<left, listing>>
             /\ phase' = ph /\ err' = "ok"
          \/ stream' = None /\ left' = 0 /\ listing' = None
             /\ CloseHandle(d)
             /\ \/ phase' = ph /\ err' = "ok"
                \/ Fails("error")
    \/ /\ s # "dir" /\ dirs' = d
       /\ CASE s = "config" -> stream' \in {None, s} /\ UNCHANGED <<left, listing>>
            [] s = "sorted" /\ n > 0 ->
                 stream' = s /\ left' = n - 1 /\ listing' = "mine"
            [] OTHER ->
                 stream' = None /\ left' = 0 /\ listing' = None
       /\ phase' = ph /\ err' = "ok"

-----------------------------------------------------------------------------
\* finishAsync: the first call of every port handler.

CloudDone == phase = "async" /\ kind # "net" /\ done

\* Mutant: a failed download keeps its buffer.
KeepBuffer == UNCHANGED buf

DropBuffer == buf' = None

HarvestFailure ==
    /\ result # "ok"
    /\ IF kind = "dir" THEN listing' = None /\ left' = 0 /\ UNCHANGED buf
                       ELSE DropBuffer /\ UNCHANGED <<listing, left>>
    /\ Fails("cloud")
    /\ wrote' = NoWrite
    /\ UNCHANGED <<stream, dirs, file, copyDst>>

HarvestListing ==
    /\ result = "ok" /\ kind = "dir"
    /\ StreamNext("sorted", landed, dirs, "done")
    /\ wrote' = NoWrite
    /\ UNCHANGED <<fileVars, copyDst>>

\* COPY: the download is written out (or what fits of it)
HarvestCopy ==
    /\ result = "ok" /\ kind = "file" /\ copyDst # None
    /\ \/ Wrote(copyDst, slot.name) /\ Succeeds
       \/ Wrote(copyDst, "torn") /\ Fails("error")
       \/ wrote' = NoWrite /\ Fails("error")
    /\ buf' = None
    /\ copyDst' = None
    /\ UNCHANGED <<dirVars, file>>

HarvestOpen ==
    /\ result = "ok" /\ kind = "file" /\ copyDst = None
    /\ file' = [kind |-> "cloud", name |-> slot.name]
    /\ buf' = "mine"
    /\ Succeeds /\ wrote' = NoWrite
    /\ UNCHANGED <<dirVars, copyDst>>

Harvest ==
    /\ pc1 = "idle" /\ CloudDone
    /\ HarvestFailure \/ HarvestListing \/ HarvestCopy \/ HarvestOpen
    /\ kind' = None
    /\ job' = NoJob
    /\ UNCHANGED <<cloudVars, pc1, wants, out, done, result>>

\* asyncPoll has an answer for CREATE or JOIN (module NetRelay)
HarvestNet ==
    /\ pc1 = "idle" /\ phase = "async" /\ kind = "net"
    /\ \/ FfDone /\ UNCHANGED out
       \/ phase' = "dout" /\ out' \in OutLens /\ err' = "ok"
    /\ kind' = None /\ wrote' = NoWrite
    /\ UNCHANGED <<cloudVars, pc1, wants, dirVars, fileVars, done, result, copyDst, job>>

\* The rest of a handler: core 0 owns the buffers, or there is nothing async.
Accessed == pc1 = "idle" /\ ~CloudDone
Free == Accessed /\ phase # "async"

Refuse ==
    /\ Accessed /\ phase = "async"
    /\ err' = "busy" /\ wrote' = NoWrite
    /\ UNCHANGED <<cloudVars, pc1, phase, wants, out, dirVars, fileVars, asyncVars>>

-----------------------------------------------------------------------------
\* writeCmd: doCommand.

Command ==
    /\ Free /\ wrote' = NoWrite
    /\ UNCHANGED <<cloudVars, pc1, asyncVars>>

\* ASCII, STORNO, SYNC, ...: what they set is not in the model
Simple ==
    /\ Command /\ FfDone /\ wants' = None
    /\ UNCHANGED <<out, dirVars, fileVars>>

Truncate ==
    /\ Free /\ file.kind = "write"
    /\ Wrote(file.name, "put") /\ Succeeds /\ wants' = None
    /\ UNCHANGED <<cloudVars, pc1, asyncVars, out, dirVars, fileVars>>

\* REV, GETFREE, GETCWD, TELL, LISTVOL, MOUNTS, ...
Output ==
    /\ Command /\ wants' = None
    /\ phase' = "dout" /\ err' = "ok" /\ out' \in OutLens
    /\ UNCHANGED <<dirVars, fileVars>>

BeginParams(c) ==
    /\ Command
    /\ phase' = "param" /\ wants' = c /\ err' = "ok"
    /\ IF c \in {"open", "readdir"} THEN CloseFile /\ CloseDir
                                    ELSE UNCHANGED <<fileVars, dirVars>>
    /\ UNCHANGED out

StreamStep ==
    /\ Command /\ wants' = None
    /\ \/ stream = None /\ Fails("error") /\ UNCHANGED dirVars
       \/ stream # None /\ StreamNext(stream, left, dirs, "done")
    /\ UNCHANGED <<out, fileVars>>

Close ==
    /\ Command /\ wants' = None
    /\ CloseFile /\ CloseDir
    /\ Succeeds
    /\ UNCHANGED out

\* Mutant: the reset closes everything, a transfer's buffers included.
ClosesAlways == TRUE

Closes == phase # "async" \/ kind = "net"

\* softReset, from the bus loop or as cmdRESET: a transfer keeps its buffers
Reset ==
    /\ pc1 = "idle"
    /\ IF Closes THEN CloseFile /\ CloseDir ELSE UNCHANGED <<fileVars, dirVars>>
    /\ phase' = IF phase = "async" /\ kind # "net" THEN "async" ELSE "done"
    /\ kind' = IF kind = "net" THEN None ELSE kind
    /\ wants' = None /\ err' = "ok" /\ wrote' = NoWrite
    /\ UNCHANGED <<cloudVars, pc1, out, done, result, copyDst, job>>

-----------------------------------------------------------------------------
\* writeData in the parameter phase: the last byte of the parameters of c.
\* (A byte that leaves the format unfinished changes nothing modelled.)

Params(c) ==
    /\ Free /\ phase = "param" /\ wants = c /\ wants' = None
    /\ UNCHANGED out

StaysHere == UNCHANGED <<cloudVars, pc1, asyncVars>>

\* A parameter too long, or parameters that belong to no command: reading
\* the open file between two of them made cmd_ INTGETC.
ParamsRefused ==
    /\ \E c \in WithParams \cup {"getc"} : Params(c)
    /\ Fails("error") /\ wrote' = NoWrite
    /\ StaysHere /\ UNCHANGED <<dirVars, fileVars>>

\* SEEK, FDDMOUNT, RTCSETD, SETSORT, ...: nothing modelled changes.
ExecDevice ==
    /\ Params("path")
    /\ FfDone /\ wrote' = NoWrite
    /\ StaysHere /\ UNCHANGED <<dirVars, fileVars>>

\* STAT, which has an answer.
ExecStat ==
    /\ Free /\ phase = "param" /\ wants = "path" /\ wants' = None
    /\ phase' = "dout" /\ err' = "ok" /\ out' \in OutLens
    /\ wrote' = NoWrite
    /\ StaysHere /\ UNCHANGED <<dirVars, fileVars>>

\* MKDIR, UNLINK, RENAME: a name made, removed or moved; FatFs refuses that
\* of an open file.
ExecNames ==
    /\ Params("path")
    /\ \E p \in Volumes \ {file.name} : Wrote(p, "name") /\ Succeeds
    /\ StaysHere /\ UNCHANGED <<dirVars, fileVars>>

\* The directories that are open without being listed: no one closes them.
Orphans == dirs - IF stream = "dir" THEN 1 ELSE 0

\* GETCONFIG takes the stream over; what was being listed is not closed.
ExecGetConfig ==
    /\ Params("getconfig")
    /\ stream = "dir" => Orphans < MaxOrphans
    /\ stream' \in {None, "config"} /\ UNCHANGED <<left, dirs, listing>>
    /\ Succeeds /\ wrote' = NoWrite
    /\ StaysHere /\ UNCHANGED fileVars

FilFree == ~Local

\* rewrite_ini: the new file is written aside, the old one unlinked, the new
\* one renamed; the last step may fail.
ExecSetConfig ==
    /\ Params("setconfig")
    /\ \/ ~FilFree /\ Fails("busy") /\ wrote' = NoWrite
       \/ Fails("error") /\ wrote' = NoWrite
       \/ FilFree /\ Wrote(Ini, "set") /\ Succeeds
       \/ FilFree /\ Wrote(Ini, "name") /\ Fails("error")
    /\ StaysHere /\ UNCHANGED <<dirVars, fileVars>>

\* CREATE, JOIN: the relay answers on core 0
ExecNet ==
    /\ Params("join")
    /\ wrote' = NoWrite
    /\ \/ phase' = "async" /\ kind' = "net" /\ err' = "ok"
       \/ Fails("error") /\ kind' = None
    /\ UNCHANGED <<cloudVars, pc1, done, result, copyDst, job, dirVars, fileVars>>

-----------------------------------------------------------------------------
\* Work for core 0.  What is submitted is visible to core 0 before the
\* handler has set the asynchronous phase (Return).

ClearDone == done' = FALSE

StartCloud(k, name, by) ==
    /\ ClearDone /\ kind' = k
    /\ MaySubmit /\ Submit([kind |-> k, name |-> name])
    /\ job' = by
    /\ listing' = IF k = "dir" THEN "lent" ELSE listing
    /\ buf' = IF k = "file" THEN "lent" ELSE buf
    /\ pc1' = "submitted" /\ phase' = "done"
    /\ wrote' = NoWrite
    /\ UNCHANGED <<link, pc0, verdict, exchange, sink, err, stream, left, dirs, file, result>>

\* No memory for the buffer, or the client is busy (and the buffer freed).
CloudRefuses(k) ==
    /\ \/ UNCHANGED <<done, kind>>
       \/ ~MaySubmit /\ done' = FALSE /\ kind' = k
    /\ Fails("cloud") /\ wrote' = NoWrite
    /\ UNCHANGED <<cloudVars, pc1, dirVars, fileVars, result, job>>

Return ==
    /\ pc1 = "submitted"
    /\ pc1' = "idle" /\ phase' = "async" /\ err' = "ok"
    /\ UNCHANGED <<cloudVars, wants, out, dirVars, fileVars, asyncVars, wrote>>

ReaddirCloud ==
    /\ Params("readdir")
    /\ \/ \E n \in CloudNames : StartCloud("dir", n, Job("readdir", n, None))
       \/ CloudRefuses("dir")
    /\ UNCHANGED copyDst

OpenCloud ==
    /\ Params("open")
    /\ copyDst # None => "stalecopy" \in Windows
    /\ \/ \E n \in CloudNames : StartCloud("file", n, Job("open", n, None))
       \/ CloudRefuses("file")
    /\ UNCHANGED copyDst

CopyCloud ==
    /\ Params("copy") /\ FilFree /\ ~InMemory
    /\ \/ \E n \in CloudNames, p \in Volumes :
            StartCloud("file", n, Job("copy", n, p)) /\ copyDst' = p
       \/ CloudRefuses("file") /\ copyDst' = None

-----------------------------------------------------------------------------
\* The same commands on the volumes.

ReaddirLocal ==
    /\ Params("readdir")
    /\ \/ /\ \/ StreamNext("dir", left, dirs + 1, "done")
             \/ FfDone /\ UNCHANGED dirVars
    /\ wrote' = NoWrite
    /\ StaysHere /\ UNCHANGED fileVars

\* READ, or WRITE (which may create or truncate), or an embedded program.
OpenLocal ==
    /\ Params("open")
    /\ \/ /\ \E p \in Volumes :
             \/ file' = [kind |-> "read", name |-> p] /\ wrote' = NoWrite
             \/ /\ file' = [kind |-> "write", name |-> p]
                /\ wrote' = NoWrite \/ Wrote(p, "put")
          /\ Succeeds
       \/ file' = [kind |-> "embedded", name |-> None] /\ wrote' = NoWrite /\ Succeeds
       \/ Fails("error") /\ wrote' = NoWrite /\ UNCHANGED file
    /\ StaysHere /\ UNCHANGED <<dirVars, buf>>

CopyLocal ==
    /\ Params("copy")
    /\ \/ ~(FilFree /\ ~InMemory) /\ Fails("busy") /\ wrote' = NoWrite
       \/ Fails("error") /\ wrote' = NoWrite
       \/ /\ FilFree /\ ~InMemory
          /\ \E p \in Volumes : \/ Wrote(p, "copied") /\ Succeeds
                                \/ Wrote(p, "torn") /\ Fails("error")
    /\ StaysHere /\ UNCHANGED <<dirVars, fileVars>>

-----------------------------------------------------------------------------
\* The data port outside the parameter phase.

LastByte == out = 1

ReadOutput ==
    /\ Free /\ phase = "dout"
    /\ out' = out - 1 /\ err' = "ok" /\ wrote' = NoWrite
    /\ phase' = IF LastByte THEN "done" ELSE "dout"
    /\ StaysHere /\ UNCHANGED wants /\ UNCHANGED <<dirVars, fileVars>>

\* The last byte of the record at hand.
ReadRecord ==
    /\ Free /\ phase # "dout" /\ stream # None
    /\ StreamNext(stream, left, dirs, phase)
    /\ wants' = IF phase' = "param" THEN wants ELSE None
    /\ wrote' = NoWrite
    /\ StaysHere /\ UNCHANGED <<out, fileVars>>

ReadFile ==
    /\ Free /\ phase # "dout" /\ stream = None
    /\ err' \in IF InMemory THEN {"ok"} ELSE IF Local THEN {"ok", "error"} ELSE {"error"}
    /\ wants' = IF phase = "param" /\ file # Shut THEN "getc" ELSE wants
    /\ wrote' = NoWrite
    /\ UNCHANGED <<cloudVars, pc1, phase, out, dirVars, fileVars, asyncVars>>

PutFile ==
    /\ Free /\ phase # "param"
    /\ \/ /\ file.kind = "write"
          /\ \/ Wrote(file.name, "put") /\ err' = "ok"
             \/ wrote' = NoWrite /\ err' = "error"
       \/ file.kind # "write" /\ err' = "error" /\ wrote' = NoWrite
    /\ UNCHANGED <<cloudVars, pc1, phase, wants, out, dirVars, fileVars, asyncVars>>

-----------------------------------------------------------------------------
\* cloudDone, on core 0.

\* Mutant: the flag is stored before the result it announces.
FlagFirst == done' = TRUE /\ UNCHANGED result

FirstStore == result' = verdict /\ UNCHANGED done

StoreResult ==
    /\ pc0 = "answer" /\ pc0' = "stored"
    /\ FirstStore
    /\ UNCHANGED <<link, request, verdict, exchange, sink>>
    /\ UNCHANGED <<pc1, answerVars, dirVars, fileVars, kind, copyDst, job, wrote>>

StoreFlag ==
    /\ pc0 = "stored" /\ pc0' = "loop"
    /\ done' = TRUE /\ result' = verdict
    /\ UNCHANGED <<link, request, verdict, exchange, sink>>
    /\ UNCHANGED <<pc1, answerVars, dirVars, fileVars, kind, copyDst, job, wrote>>

-----------------------------------------------------------------------------
Core1Command ==
    \/ Simple \/ Truncate \/ Output \/ StreamStep \/ Close \/ Reset
    \/ \E c \in WithParams : BeginParams(c)

Core1Data ==
    \/ ParamsRefused \/ ExecDevice \/ ExecStat \/ ExecNames
    \/ ExecGetConfig \/ ExecSetConfig \/ ExecNet
    \/ ReaddirCloud \/ OpenCloud \/ CopyCloud
    \/ ReaddirLocal \/ OpenLocal \/ CopyLocal
    \/ ReadOutput \/ ReadRecord \/ ReadFile \/ PutFile

Core1 == Harvest \/ HarvestNet \/ Refuse \/ Return \/ Core1Command \/ Core1Data
Core0 == (CloudNext /\ UNCHANGED unicardVars) \/ StoreResult \/ StoreFlag

Next == Core1 \/ Core0
Spec == Init /\ [][Next]_vars

\* CloudFairness, for the composition; the loop of core 0 also ends what it
\* began, core 1 comes back from its handlers, and the Z80 polls the status
\* while it sees bit 6.  Nothing is asked of the relay (see NetRelay).
FairSpec ==
    /\ Spec
    /\ CloudFairness
    /\ WF_vars(StoreResult) /\ WF_vars(StoreFlag)
    /\ WF_vars(Return) /\ WF_vars(Harvest)

-----------------------------------------------------------------------------
(***************************************************************************)
(* While core 0 has a command, or has not reported on it, the device is in *)
(* the asynchronous phase (or about to be), waits for that very command,   *)
(* and the buffer core 0 may write to is still allocated and lent to it:   *)
(* no command, reset or early harvest takes it away.                       *)
(***************************************************************************)
Core0Works == pending \/ pc0 # "loop"

BuffersLent == Core0Works =>
    /\ pc1 = "submitted" \/ (phase = "async" /\ ~done)
    /\ kind = slot.kind
    /\ IF kind = "dir" THEN listing = "lent" ELSE buf = "lent"

(***************************************************************************)
(* lwIP's callbacks may write to the download buffer only while it is lent:*)
(* the data of an abandoned request is dropped once its buffer has gone    *)
(* back to core 1, which frees it or gives it to the next one.             *)
(***************************************************************************)
LateDataDropped == armed /\ wire > 0 /\ slot.kind = "file" => buf = "lent"

(***************************************************************************)
(* No buffer outlives its use: it is lent during the transfer it was       *)
(* allocated for, and owned by the open cloud file or the listing after it.*)
(* The device has some 48 KB for one of them.                              *)
(***************************************************************************)
Transferring == pc1 = "submitted" \/ phase = "async"

NothingLeaks ==
    /\ buf = "lent" => Transferring /\ kind = "file"
    /\ listing = "lent" => Transferring /\ kind = "dir"
    /\ buf = "mine" <=> file.kind = "cloud"

(***************************************************************************)
(* Core 0 and lwIP write only to what is lent to the one exchange there is.*)
(***************************************************************************)
BuffersKept == OneExchange /\ BuffersLent /\ LateDataDropped

(***************************************************************************)
(* Nothing taken is kept after its use, and no allocation is overwritten,  *)
(* with one exception, GETCONFIG (unicard.cpp:779), which takes the stream *)
(* over and stops no listing.  The sorted listing it interrupts is not     *)
(* freed when the new stream ends, as unicard.hpp:155 says it would be, but *)
(* by the next command that closes the directory.  The directory object it *)
(* interrupts is not even closed by a reset, which "closes everything"     *)
(* (unicard.hpp:68): one of FatFs's 16 lock entries is gone.               *)
(***************************************************************************)
Kept == listing = "mine" /\ stream # "sorted"

Interrupted == wants = "getconfig" /\ wants' = None /\ stream' \in {None, "config"}

HeldByGetConfig ==
    /\ NothingLeaks'
    /\ Orphans' = Orphans
         \/ (Orphans' = Orphans + 1 /\ Interrupted /\ stream = "dir")
    /\ Kept' => Kept \/ (Interrupted /\ stream = "sorted")
    /\ listing' = "lent" => listing # "mine"
    /\ buf' = "lent" => buf # "mine"

OnlyGetConfigHolds == Orphans = 0 /\ [][HeldByGetConfig]_vars

(***************************************************************************)
(* A transfer that ends leaves exactly what its command asked for: OPEN    *)
(* the file it named, COPY that file at the destination it named, READDIR  *)
(* a listing; success only if core 0 reported success, and no volume is    *)
(* touched but by COPY, at its destination.                                *)
(***************************************************************************)
Landing == phase = "async" /\ kind # "net" /\ phase' # "async"

Landed ==
    /\ err' = "ok" => verdict = "ok"
    /\ wrote'.path \in {None, IF job.cmd = "copy" THEN job.dst ELSE None}
    /\ err' = "ok" =>
        CASE job.cmd = "open" -> file' = [kind |-> "cloud", name |-> job.src]
          [] job.cmd = "copy" -> wrote' = [path |-> job.dst, data |-> job.src]
          [] job.cmd = "readdir" -> stream' \in {None, "sorted"}

(* fil_ is one file object: while a file is open in it, nothing is written *)
(* to any other path, neither by COPY nor SETCONFIG nor a landing transfer.*)
OneFile == Local /\ wrote'.data \notin {None, "name"} => wrote'.path = file'.name

TransferLands == [][(Landing => Landed) /\ OneFile]_vars

(***************************************************************************)
(* The Z80 polls bit 6 of the status after a cloud command: it goes down in *)
(* the end, whatever WiFi and server do.  (After CREATE and JOIN it need   *)
(* not: nothing limits the wait for the relay, net_relay.cpp:284.)         *)
(***************************************************************************)
EveryJobAnswered == (phase = "async" /\ kind # "net") ~> phase # "async"
=============================================================================
