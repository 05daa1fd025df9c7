------------------------------ MODULE AlazarSim ------------------------------
(***************************************************************************)
(* The driver stand-in (src/lib/alazarSim.cpp) that the unit tests and the *)
(* example link instead of the ATS library, under the acquisition engine.  *)
(* It has one queue of posted buffers and no board behind it: data appears *)
(* inside AlazarWaitAsyncBufferComplete, which spins while the queue is    *)
(* empty, never times out, and writes its records one after the other.     *)
(* Nothing it does fails, except that a wait on the wrong buffer reports   *)
(* ApiInvalidBuffer.                                                       *)
(*                                                                         *)
(* Acquisition's "posted" is the stand-in's bufferQ here; nFilled has no   *)
(* counterpart and stays 0, captured counts the buffers it wrote.  A       *)
(* record's value is left out: a buffer holds its capture number, as in    *)
(* AlazarBoard, once its last record is written.                           *)
(***************************************************************************)
EXTENDS Acquisition

VARIABLES
  filling,            \* bufp: the buffer being written inside the wait
  written,            \* how many records of it
  recordCounter,      \* records since AlazarBeforeAsyncRead
  samplesPerRecord    \* what AlazarBeforeAsyncRead was given

simVars == <<filling, written, recordCounter, samplesPerRecord>>

SimInit ==
  filling = NoBuffer /\ written = 0 /\ recordCounter = 0 /\ samplesPerRecord = 0

(* The stand-in keeps one length for all buffers, the one of the last      *)
(* post.                                                                   *)
LastPosted == IF posted = <<>> THEN filling ELSE posted[Len(posted)]
bufferLenBytes == length[LastPosted]
(* The bound of its loop, read again for every record. *)
RecordsPerBuffer == bufferLenBytes \div samplesPerRecord

BugRecordsGoOn ==
  /\ apc = "idle"
  /\ ~threadRunning
  /\ samplesPerRecord' = geometry.recordLength
  /\ quota' = geometry.nbrBuffers /\ captured' = 0
  /\ apc' = "posting"
  /\ apiCount' = 0
  /\ UNCHANGED <<posted, nFilled, armed, content, length, filling, written, recordCounter,
                 flagVars, queueVars, bufferCounter, setupVars, rxVars, apiBuf, apiFull,
                 outVars>>
(* acquire: AlazarBeforeAsyncRead resets recordCounter and refuses nothing, *)
(* whatever is still posted.                                               *)
SimAcquire ==
  /\ apc = "idle"
  /\ ~threadRunning
  /\ recordCounter' = 0
  /\ samplesPerRecord' = geometry.recordLength
  /\ quota' = geometry.nbrBuffers /\ captured' = 0
  /\ apc' = "posting"
  /\ apiCount' = 0
  /\ UNCHANGED <<posted, nFilled, armed, content, length, filling, written, flagVars,
                 queueVars, bufferCounter, setupVars, rxVars, apiBuf, apiFull, outVars>>

(* AlazarWaitAsyncBufferComplete takes the oldest posted buffer... *)
SimDequeue ==
  /\ rxpc = "wait" /\ filling = NoBuffer
  /\ posted # <<>>
  /\ posted' = Tail(posted)
  /\ IF Head(posted) = rxBuf
     THEN filling' = rxBuf /\ written' = 0 /\ UNCHANGED rxVars
     ELSE RxReturn("failed") /\ UNCHANGED <<filling, written>>
  /\ UNCHANGED <<nFilled, armed, captured, quota, content, length, recordCounter,
                 samplesPerRecord, flagVars, queueVars, bufferCounter, setupVars, apiVars,
                 outVars>>

(* ... writes the records...  (Bound: an acquisition begun before the      *)
(* first setAll waits only if the client configures while it is on; the    *)
(* division by samplesPerRecord, 0 then, ends the program.)                *)
SimRecord ==
  /\ filling # NoBuffer /\ samplesPerRecord # 0
  /\ written < RecordsPerBuffer
  /\ written' = written + 1
  /\ recordCounter' = recordCounter + 1
  /\ IF written' < RecordsPerBuffer
     THEN UNCHANGED <<content, captured>>
     ELSE /\ content' = [content EXCEPT ![filling] = recordCounter \div RecordsPerBuffer]
          /\ captured' = captured + 1
  /\ UNCHANGED <<posted, nFilled, armed, quota, length, filling, samplesPerRecord, flagVars,
                 queueVars, bufferCounter, setupVars, rxVars, apiVars, outVars>>

(* ... and returns ApiSuccess. *)
SimSuccess ==
  /\ filling # NoBuffer /\ samplesPerRecord # 0
  /\ written >= RecordsPerBuffer
  /\ filling' = NoBuffer /\ written' = 0
  /\ RxGoto("route")
  /\ UNCHANGED <<boardVars, recordCounter, samplesPerRecord, flagVars, queueVars,
                 bufferCounter, setupVars, apiVars, outVars>>

SimWait == SimDequeue \/ SimRecord \/ SimSuccess
==============================================================================
