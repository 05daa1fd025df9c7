---------------------------- MODULE AlazarBoard ----------------------------
(***************************************************************************)
(* The digitizer board behind the ATS driver library, as libAlazar uses    *)
(* it: a FIFO of posted DMA buffers that the board fills one after the     *)
(* other once capture is started, and hands back in posting order.  The    *)
(* driver is not part of the repository; what is said about it here is     *)
(* what rx, rxThreadRun, rxThreadStop and postBuffer rely on, and what     *)
(* the repository's stand-in (src/lib/alazarSim.cpp) does.  The module     *)
(* has no specification of its own: Acquisition composes its actions.      *)
(*                                                                         *)
(* One captured buffer is abstracted to its capture number: the k-th       *)
(* buffer filled since AlazarBeforeAsyncRead contains k (from 0).          *)
(***************************************************************************)
EXTENDS Integers, Sequences

CONSTANT Buffers          \* the DMA buffers that can be allocated

VARIABLES
  posted,    \* buffers the board owns, in posting order
  nFilled,   \* how many buffers at the head of posted hold captured data
  armed,     \* capture is started: the board writes into posted buffers
  captured,  \* buffers captured since AlazarBeforeAsyncRead
  quota,     \* buffers the board was told to capture
  content,   \* content[b]: the capture number held by b's memory
  length     \* length[b]: how far into b's memory the board may write

boardVars == <<posted, nFilled, armed, captured, quota, content, length>>

NoData == -1

Blank == [b \in Buffers |-> NoData]
NoRoom == [b \in Buffers |-> 0]

BoardTypeOK ==
  /\ posted \in Seq(Buffers)
  /\ nFilled \in 0..Len(posted)
  /\ armed \in BOOLEAN
  /\ captured \in Nat
  /\ quota \in Nat
  /\ content \in [Buffers -> Nat \cup {NoData}]
  /\ length \in [Buffers -> Nat]

BoardInit ==
  /\ posted = <<>>
  /\ nFilled = 0
  /\ armed = FALSE
  /\ captured = 0
  /\ quota = 0
  /\ content = Blank
  /\ length = NoRoom

(* AlazarBeforeAsyncRead: sets up an acquisition of n buffers; refused (an *)
(* error code, nothing changes) while a transfer is still in progress.     *)
BeforeAsyncRead(n) ==
  /\ posted = <<>>
  /\ quota' = n
  /\ captured' = 0
  /\ UNCHANGED <<posted, nFilled, armed, content, length>>

(* AlazarPostAsyncBuffer: b joins the end of the board's FIFO; its memory  *)
(* is as long as the caller says.                                          *)
PostAsyncBuffer(b, bufferLen) ==
  /\ posted' = Append(posted, b)
  /\ length' = [length EXCEPT ![b] = bufferLen]
  /\ UNCHANGED <<nFilled, armed, captured, quota, content>>

(* AlazarStartCapture: from here on the board may write. *)
StartCapture ==
  /\ armed' = TRUE
  /\ UNCHANGED <<posted, nFilled, captured, quota, content, length>>

(* Enough triggers arrived to fill the next posted buffer. *)
DMA ==
  /\ armed
  /\ nFilled < Len(posted)
  /\ captured < quota
  /\ content' = [content EXCEPT ![posted[nFilled + 1]] = captured]
  /\ nFilled' = nFilled + 1
  /\ captured' = captured + 1
  /\ UNCHANGED <<posted, armed, quota, length>>

(* AlazarWaitAsyncBufferComplete on b gives ApiSuccess: b is the oldest    *)
(* posted buffer and it is full; it leaves the board.                      *)
WaitComplete(b) ==
  /\ nFilled > 0
  /\ Head(posted) = b
  /\ posted' = Tail(posted)
  /\ nFilled' = nFilled - 1
  /\ UNCHANGED <<armed, captured, quota, content, length>>

(* ... gives ApiWaitTimeout: nothing came back in time. *)
WaitTimeout(b) ==
  /\ posted # <<>> => Head(posted) = b
  /\ nFilled = 0
  /\ UNCHANGED boardVars

(* ... gives ApiInvalidBuffer: another buffer was due (and is dropped). *)
WaitInvalid(b) ==
  /\ posted # <<>>
  /\ Head(posted) # b
  /\ posted' = Tail(posted)
  /\ nFilled' = IF nFilled > 0 THEN nFilled - 1 ELSE 0
  /\ UNCHANGED <<armed, captured, quota, content, length>>

(* AlazarAbortAsyncRead: the board gives up every posted buffer. *)
AbortAsyncRead ==
  /\ posted' = <<>>
  /\ nFilled' = 0
  /\ armed' = FALSE
  /\ length' = NoRoom
  /\ UNCHANGED <<captured, quota, content>>
=============================================================================
