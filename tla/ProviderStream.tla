--------------------------- MODULE ProviderStream ---------------------------
(***************************************************************************)
(* One background request to a provider (core/client.py): the daemon       *)
(* thread that blocks in the network (ProviderWorker around _stream_once), *)
(* the reader that polls its bounded queue (stream_chat_background), and   *)
(* the handle through which Esc reaches the thread (CancellationHandle).   *)
(*                                                                         *)
(* A thread blocked in the network wakes up when something arrives or its  *)
(* socket is shut down.  Cancelling is two steps: mark and look under the  *)
(* lock, shut down outside of it.  What the network does is external and   *)
(* owes nothing, timeouts included; an attempt that fails may be repeated  *)
(* (its health and budget are in ModelRoute).                              *)
(* A route that speaks the Responses protocol (_stream_once_responses)     *)
(* takes the same steps over other lines.                                  *)
(***************************************************************************)
EXTENDS Naturals, Sequences

CONSTANTS
    MaxItems,       \* bound: items of one stream
    QueueSize,
    Connections     \* bound: attempts

VARIABLES
    thread,     \* [pc, conn: the attempt and its socket, item: what it puts]
    handle,     \* CancellationHandle: [set, sock, todo: sockets to shut down]
    down,       \* sockets that were shut down
    queue, stop,
    reader,      \* "polls", "closing" or how it ended
    came, got   \* items the thread read, items the turn was given

streamVars == <<thread, handle, down, queue, stop, reader, came, got>>

StreamInit ==
    /\ thread = [pc |-> "start", conn |-> 0, item |-> "none"]
    /\ handle = [set |-> FALSE, sock |-> 0, todo |-> {}]
    /\ down = {} /\ queue = <<>> /\ stop = FALSE
    /\ reader = "polls" /\ came = <<>> /\ got = <<>>

Goes(pc) == thread' = [thread EXCEPT !.pc = pc]
Puts(item) == thread' = [thread EXCEPT !.pc = "put", !.item = item]

\* The stream is over and released from the handle.
Released(item) == Puts(item) /\ handle' = [handle EXCEPT !.sock = 0]

-----------------------------------------------------------------------------
(* The network. *)

Connects ==
    /\ thread.pc = "connect"
    /\ Goes("connected")
    /\ UNCHANGED <<handle, down, queue, stop, reader, came, got>>

Answers ==
    /\ thread.pc \in {"headers", "read"} /\ thread.conn \notin down
    /\ \/ thread.pc = "headers" /\ Goes("bind") /\ UNCHANGED <<handle, came>>
       \/ /\ thread.pc = "read" /\ Len(came) < MaxItems
          /\ came' = Append(came, Len(came) + 1) /\ Goes("line") /\ UNCHANGED handle
       \/ thread.pc = "read" /\ Released("done") /\ UNCHANGED came
    /\ UNCHANGED <<down, queue, stop, reader, got>>

\* Only an attempt that has shown nothing is repeated.
Fails ==
    /\ thread.pc \in {"connect", "headers", "read"}
    /\ \/ thread.conn < Connections /\ came = <<>> /\ Goes("start")
       \/ Puts("error")
    /\ handle' = IF thread.pc = "read" THEN [handle EXCEPT !.sock = 0] ELSE handle
    /\ UNCHANGED <<down, queue, stop, reader, came, got>>

Network == Connects \/ Answers \/ Fails
-----------------------------------------------------------------------------
(* The thread. *)

Begins ==
    /\ thread.pc = "start"
    /\ IF handle.set THEN Puts("error")
       ELSE thread' = [thread EXCEPT !.pc = "connect", !.conn = @ + 1]
    /\ UNCHANGED <<handle, down, queue, stop, reader, came, got>>

\* bind_socket: if Esc was earlier, the thread shuts its own socket down.
BindSocketFaulty ==
    /\ thread.pc = "connected"
    /\ handle' = [handle EXCEPT !.sock = thread.conn]
    /\ Goes("headers")
    /\ UNCHANGED <<down, queue, stop, reader, came, got>>
BindSocket ==
    /\ thread.pc = "connected"
    /\ handle' = [handle EXCEPT !.sock = thread.conn]
    /\ down' = IF handle.set THEN down \cup {thread.conn} ELSE down
    /\ Goes("headers")
    /\ UNCHANGED <<queue, stop, reader, came, got>>

\* The response is bound to the handle and Esc looked at once more.
BindResponse ==
    /\ thread.pc = "bind"
    /\ IF handle.set THEN Released("error") /\ down' = down \cup {thread.conn}
       ELSE Goes("read") /\ UNCHANGED <<handle, down>>
    /\ UNCHANGED <<queue, stop, reader, came, got>>

\* A read that a shutdown woke up.
Woken ==
    /\ thread.pc \in {"headers", "read"} /\ thread.conn \in down
    /\ IF thread.pc = "read" THEN Released("error") ELSE Puts("error") /\ UNCHANGED handle
    /\ UNCHANGED <<down, queue, stop, reader, came, got>>

GotLine ==
    /\ thread.pc = "line"
    /\ IF handle.set THEN Released("error") ELSE Puts("item") /\ UNCHANGED handle
    /\ UNCHANGED <<down, queue, stop, reader, came, got>>

\* _put: waits while the queue is full, gives up when the reader has closed it.
\* After an error or the end the thread is over.
PutFaulty ==
    /\ thread.pc = "put"
    /\ queue' = IF Len(queue) < QueueSize
                THEN Append(queue, <<thread.item, Len(came)>>) ELSE queue
    /\ Goes(IF thread.item = "item" THEN "read" ELSE "ended")
    /\ UNCHANGED <<handle, down, stop, reader, came, got>>
Put ==
    /\ thread.pc = "put"
    /\ \/ /\ stop /\ Goes("ended") /\ UNCHANGED queue
       \/ /\ ~stop /\ Len(queue) < QueueSize
          /\ queue' = Append(queue, <<thread.item, Len(came)>>)
          /\ Goes(IF thread.item = "item" THEN "read" ELSE "ended")
    /\ UNCHANGED <<handle, down, stop, reader, came, got>>

ThreadStep == Begins \/ BindSocket \/ BindResponse \/ Woken \/ GotLine \/ Put
-----------------------------------------------------------------------------
(* Esc, and the reader. *)

\* cancel(): whoever is first marks the handle and takes the socket it finds.
CancelHandle ==
    /\ ~handle.set
    /\ handle' = [handle EXCEPT !.set = TRUE, !.todo = {handle.sock} \ {0}]

EscPressed ==
    /\ CancelHandle /\ reader = "polls"
    /\ UNCHANGED <<thread, down, queue, stop, reader, came, got>>

ShutDown ==
    /\ handle.todo # {}
    /\ down' = down \cup handle.todo
    /\ handle' = [handle EXCEPT !.todo = {}]
    /\ UNCHANGED <<thread, queue, stop, reader, came, got>>

\* One turn of the loop: Esc ends it at once, whatever is in the queue.
PollQueue ==
    /\ reader = "polls"
    /\ \/ handle.set /\ reader' = "closing" /\ UNCHANGED <<queue, got>>
       \/ /\ ~handle.set /\ queue # <<>>
          /\ queue' = Tail(queue)
          /\ LET kind == Head(queue)[1]
             IN  /\ got' = IF kind = "item" THEN Append(got, Head(queue)[2]) ELSE got
                 /\ reader' = CASE kind = "item" -> "polls"
                               [] kind = "done" -> "completed"
                               [] OTHER -> "closing"
    /\ UNCHANGED <<thread, handle, down, stop, came>>

\* The turn drops the stream without reading it to its end.
Drop ==
    /\ reader = "polls" /\ reader' = "closing"
    /\ UNCHANGED <<thread, handle, down, queue, stop, came, got>>

\* finally: cancel unless complete, and stop the thread.
CloseStream ==
    /\ (reader = "closing" /\ handle.set) \/ reader = "completed"
    /\ handle.todo = {} /\ ~stop
    /\ stop' = TRUE /\ reader' = IF reader = "closing" THEN "raised" ELSE reader
    /\ UNCHANGED <<thread, handle, down, queue, came, got>>

CancelOnClose ==
    /\ reader = "closing" /\ CancelHandle
    /\ UNCHANGED <<thread, down, queue, stop, reader, came, got>>

OwnerStep == PollQueue \/ CloseStream \/ CancelOnClose \/ ShutDown

StreamNext == Network \/ ThreadStep \/ EscPressed \/ Drop \/ OwnerStep

StreamSpec == StreamInit /\ [][StreamNext]_streamVars

\* Both threads run, and nothing is asked of the network or the user.
StreamFairness == WF_streamVars(ThreadStep) /\ WF_streamVars(OwnerStep)
-----------------------------------------------------------------------------
\* Esc needs no help from the network: wherever it finds the thread, between
\* any two of its steps, the thread ends.  Only a connection that is still
\* being made has no socket to shut down.
EscEndsWorker == handle.set /\ thread.pc # "connect" ~> thread.pc \in {"ended", "connect"}

\* An answer that is complete was given to the turn whole and in order, however
\* often the queue was full; one that is not is never taken for complete.
CompleteIsWhole ==
    /\ reader = "completed" => got = came
    /\ Len(got) <= Len(came) /\ \A i \in 1..Len(got) : got[i] = i
=============================================================================
