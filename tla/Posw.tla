-------------------------------- MODULE Posw --------------------------------
(***************************************************************************)
(* Proof of sequential work (chronos-vdf/src/posw.rs): a blocking thread   *)
(* iterates SHA-256 and sends every Interval-th value through a bounded    *)
(* channel to a task that writes them to a file.                           *)
(*                                                                         *)
(* The value after k hashes is the number k.  tokio's File does each write *)
(* on another thread: write_all returns once the write is handed over and  *)
(* the next one reports how it ended.                                      *)
(***************************************************************************)
EXTENDS Integers, Sequences

CONSTANTS
    Lengths,            \* values of t
    Interval,           \* 1000 in the code
    Capacity            \* slots of the channel, 32 in the code

ASSUME PoswAssumption ==
    /\ Lengths \subseteq Nat
    /\ Interval \in Nat \ {0} /\ Capacity \in Nat \ {0}

VARIABLES
    length,             \* t, which does not change
    hasher,             \* "hash", "send" (parked on the channel), "ended", "aborted"
    step,               \* i of the hasher's loop
    queue,              \* the channel
    writer,             \* "create", "receive", "write", "failed" or "closed"
    inHand,             \* the checkpoint the writer has received
    inFlight,           \* the write handed to the file's thread
    fileError,          \* a write has failed and nobody has been told
    disk,               \* the checkpoints in the file
    cancelled,          \* abort_signal
    outcome             \* of the call: "pending", "ok" or "error"
poswVars == << length, hasher, step, queue, writer, inHand, inFlight, fileError,
               disk, cancelled, outcome >>

ReceiverGone == writer \in {"failed", "closed"}
SenderGone == hasher \in {"ended", "aborted"}

PoswInit ==
    /\ length \in Lengths
    /\ hasher = "hash" /\ step = 0
    /\ queue = << >>
    /\ writer = "create" /\ inHand = << >> /\ inFlight = << >>
    /\ fileError = FALSE /\ disk = << >>
    /\ cancelled = FALSE
    /\ outcome = "pending"

Cancel ==
    /\ ~cancelled /\ ~SenderGone
    /\ cancelled' = TRUE
    /\ UNCHANGED << length, hasher, step, queue, writer, inHand, inFlight, fileError,
                    disk, outcome >>

---------------------------------------------------------------------------
(* The hasher's thread.                                                    *)

\* One turn of the loop, up to the send if this value is a checkpoint.
Hash ==
    /\ hasher = "hash" /\ step < length
    /\ \/ /\ cancelled
          /\ hasher' = "aborted"
          /\ UNCHANGED step
       \/ /\ ~cancelled
          /\ IF step % Interval = 0
             THEN hasher' = "send" /\ UNCHANGED step
             ELSE step' = step + 1 /\ UNCHANGED hasher
    /\ UNCHANGED << length, queue, writer, inHand, inFlight, fileError, disk,
                    cancelled, outcome >>

\* Mutant: a writer that failed keeps its end of the channel.
SendToTheDead ==
    /\ hasher = "send"
    /\ Len(queue) < Capacity
    /\ queue' = Append(queue, step + 1)
    /\ hasher' = "hash"
    /\ step' = step + 1
    /\ UNCHANGED << length, writer, inHand, inFlight, fileError, disk, cancelled, outcome >>

\* blocking_send parks the thread while the channel is full; a send to a receiver
\* that is gone fails at once, which the code ignores.
Send ==
    /\ hasher = "send"
    /\ \/ ReceiverGone /\ UNCHANGED queue
       \/ ~ReceiverGone /\ Len(queue) < Capacity /\ queue' = Append(queue, step + 1)
    /\ hasher' = "hash"
    /\ step' = step + 1
    /\ UNCHANGED << length, writer, inHand, inFlight, fileError, disk, cancelled, outcome >>

EndOfChain ==
    /\ hasher = "hash" /\ step = length
    /\ hasher' = "ended"
    /\ UNCHANGED << length, step, queue, writer, inHand, inFlight, fileError, disk,
                    cancelled, outcome >>

---------------------------------------------------------------------------
(* The writer's task.                                                      *)

CreateFile ==
    /\ writer = "create"
    /\ \/ writer' = "receive" /\ UNCHANGED queue
       \/ writer' = "failed" /\ queue' = << >>
    /\ UNCHANGED << length, hasher, step, inHand, inFlight, fileError, disk, cancelled,
                    outcome >>

Receive ==
    /\ writer = "receive" /\ queue # << >>
    /\ inHand' = << Head(queue) >>
    /\ queue' = Tail(queue)
    /\ writer' = "write"
    /\ UNCHANGED << length, hasher, step, inFlight, fileError, disk, cancelled, outcome >>

\* write_all: waits for the write before it, fails if that one failed, and else
\* hands its own over.
WriteAll ==
    /\ writer = "write" /\ inFlight = << >>
    /\ inHand' = << >>
    /\ \/ /\ fileError
          /\ writer' = "failed" /\ queue' = << >> /\ fileError' = FALSE
          /\ UNCHANGED inFlight
       \/ /\ ~fileError
          /\ inFlight' = inHand /\ writer' = "receive"
          /\ UNCHANGED << queue, fileError >>
    /\ UNCHANGED << length, hasher, step, disk, cancelled, outcome >>

\* recv returns None once the sender is gone and the channel is empty.
CloseFile ==
    /\ writer = "receive" /\ queue = << >> /\ SenderGone
    /\ writer' = "closed"
    /\ UNCHANGED << length, hasher, step, queue, inHand, inFlight, fileError, disk,
                    cancelled, outcome >>

\* The file's thread, which goes on after the file is dropped.
DiskWrite ==
    /\ inFlight # << >>
    /\ inFlight' = << >>
    /\ \/ disk' = disk \o inFlight /\ UNCHANGED fileError
       \/ fileError' = TRUE /\ UNCHANGED disk
    /\ UNCHANGED << length, hasher, step, queue, writer, inHand, cancelled, outcome >>

---------------------------------------------------------------------------
\* Mutant: the hasher's result is the call's, and the writer is left alone.
ReturnUnjoined ==
    /\ outcome = "pending" /\ SenderGone
    /\ outcome' = IF hasher = "ended" THEN "ok" ELSE "error"
    /\ UNCHANGED << length, hasher, step, queue, writer, inHand, inFlight, fileError,
                    disk, cancelled >>

\* evaluate_async returns an aborted hasher's error at once and leaves the writer to
\* itself; otherwise it waits for the writer, whose failure is the call's.
Return ==
    /\ outcome = "pending"
    /\ \/ hasher = "aborted" /\ outcome' = "error"
       \/ hasher = "ended" /\ writer = "failed" /\ outcome' = "error"
       \/ hasher = "ended" /\ writer = "closed" /\ outcome' = "ok"
    /\ UNCHANGED << length, hasher, step, queue, writer, inHand, inFlight, fileError,
                    disk, cancelled >>

HasherNext == Hash \/ Send \/ EndOfChain
WriterNext == CreateFile \/ Receive \/ WriteAll \/ CloseFile
PoswNext == Cancel \/ HasherNext \/ WriterNext \/ DiskWrite \/ Return

\* Threads and tasks that can go on do; the disk answers, well or badly.
PoswFairness ==
    /\ WF_poswVars(HasherNext)
    /\ WF_poswVars(WriterNext)
    /\ WF_poswVars(DiskWrite)
    /\ WF_poswVars(Return)

PoswSpec == PoswInit /\ [][PoswNext]_poswVars /\ PoswFairness

---------------------------------------------------------------------------
(* Properties.                                                             *)

\* The values that the hasher's first k turns send.
CheckpointsWithin(k) ==
    [j \in 1 .. (k + Interval - 1) \div Interval |-> (j - 1) * Interval + 1]
Checkpoints == CheckpointsWithin(length)

\* The file is the chain's checkpoints in order without a gap, whatever failed and
\* however far the writer lags, and a call that succeeds has recorded them all but
\* for the last, whose write nobody waits for.
WorkIsRecorded ==
    /\ \E k \in 0 .. Len(Checkpoints) : disk = SubSeq(Checkpoints, 1, k)
    /\ outcome = "ok" => Len(disk) >= Len(Checkpoints) - 1

\* A call always ends: a full channel parks the hasher only until the writer takes
\* a checkpoint or dies.
EvaluationEnds == (outcome = "pending") ~> (outcome # "pending")
=============================================================================
