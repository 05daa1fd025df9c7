-------------------------- MODULE SocketTransmission --------------------------
(***************************************************************************)
(* How rx sends a result through the registered sockets (rx in             *)
(* src/lib/libAlazar.cpp): the two work buffers go out in chunks of at     *)
(* most one float less than a socket buffer, channel 1's chunk before      *)
(* channel 2's, each behind a message with its size; a send blocks while   *)
(* the socket is full, and sockets[] is read again for every send.  The    *)
(* listeners are outside the repository: each takes what its socket holds, *)
(* a size first and then as many floats.  Below rx is the driver stand-in  *)
(* (AlazarSim), beside it the client that polls, stops or unregisters.     *)
(*                                                                         *)
(* A float is its number in the channel's stream: the k-th float of result *)
(* r is r * WorkLen + k.  A socket holds items: sizes and floats.          *)
(***************************************************************************)
EXTENDS AlazarSim

CONSTANTS
  WorkLen,        \* ch1WorkBuff.size(), ch2WorkBuff.size()
  SocketFloats,   \* SO_RCVBUF in floats, as ConfigureBoard asks for it
  WireCapacity    \* items a socket holds before send blocks

ASSUME WireAssumption ==
  /\ WorkLen \in Nat \ {0}
  /\ SocketFloats \in Nat \ {0, 1}
  /\ WireCapacity \in Nat \ {0}

VARIABLES
  step,           \* where rx is in the loop over the chunks, "none" outside
  rem, chunk,     \* buf_size_rem, sock_send_size
  moved,          \* floats of the current send() the socket has taken
  wire,           \* what is in each channel's socket
  expecting,      \* floats the listener still expects of its chunk
  received,       \* number of the last float it took
  kept            \* channels registered when the acquisition began

sendVars == <<step, rem, chunk, moved>>
listenVars == <<wire, expecting, received, kept>>
engineVars == <<boardVars, flagVars, queueVars, bufferCounter, setupVars, rxVars,
                apiVars, outVars>>
allVars == <<engineVars, simVars, sendVars, listenVars>>

SizeItem(n) == [kind |-> "size", value |-> n]
FloatItem(k) == [kind |-> "float", value |-> k]

SocketBuffSize == SocketFloats - 1
BugWholeRest(left) == left
NextChunk(left) == IF left < SocketBuffSize THEN left ELSE SocketBuffSize

SocketInit ==
  /\ Init /\ SimInit
  /\ step = "none" /\ rem = 0 /\ chunk = 0 /\ moved = 0
  /\ wire = [ch \in Channels |-> <<>>]
  /\ expecting = [ch \in Channels |-> 0]
  /\ received = [ch \in Channels |-> NoData]
  /\ kept = {}
-----------------------------------------------------------------------------
(* rx's loop over the chunks of a full work buffer. *)

(* The loop begins: everything is still to send. *)
BeginSend ==
  /\ rxpc = "send1" /\ step = "none"
  /\ rem' = WorkLen /\ chunk' = NextChunk(WorkLen) /\ moved' = 0
  /\ step' = "look1"
  /\ UNCHANGED <<engineVars, simVars, listenVars>>

(* After channel 1's part channel 2's; after that the next chunk, or the   *)
(* end of the loop.                                                        *)
LastChunk == rem = chunk
ChannelDone(ch) ==
  /\ moved' = 0
  /\ IF ch = "ch1"
     THEN /\ step' = "look2"
          /\ UNCHANGED <<rem, chunk>>
          /\ RxGoto(IF LastChunk THEN "send2" ELSE rxpc)
     ELSE /\ rem' = rem - chunk
          /\ chunk' = NextChunk(rem')
          /\ step' = IF LastChunk THEN "none" ELSE "look1"
          /\ RxGoto(IF LastChunk THEN "repost" ELSE rxpc)

(* send() on a descriptor that has become -1 fails and ends rx. *)
SendFails ==
  /\ RxReturn("failed")
  /\ step' = "none" /\ rem' = 0 /\ chunk' = 0 /\ moved' = 0
  /\ UNCHANGED <<wire, sentRound>>

Look(ch, here, size) ==
  /\ step = here
  /\ IF ch \in sockets
     THEN step' = size /\ UNCHANGED <<rem, chunk, moved, rxVars>>
     ELSE ChannelDone(ch)
  /\ UNCHANGED <<wire, sentRound>>

BugSizeOfRest(ch, here, data) ==
  /\ step = here
  /\ \/ ch \notin sockets /\ SendFails
     \/ /\ ch \in sockets
        /\ Len(wire[ch]) < WireCapacity
        /\ wire' = [wire EXCEPT ![ch] = Append(@, SizeItem(rem))]
        /\ step' = data /\ moved' = 0
        /\ UNCHANGED <<rem, chunk, rxVars, sentRound>>
SendSize(ch, here, data) ==
  /\ step = here
  /\ \/ ch \notin sockets /\ SendFails
     \/ /\ ch \in sockets
        /\ Len(wire[ch]) < WireCapacity
        /\ wire' = [wire EXCEPT ![ch] = Append(@, SizeItem(chunk))]
        /\ step' = data /\ moved' = 0
        /\ UNCHANGED <<rem, chunk, rxVars, sentRound>>

BugFromStart(ch, here) ==
  /\ step = here
  /\ \/ moved = 0 /\ ch \notin sockets /\ SendFails
     \/ /\ moved > 0 \/ ch \in sockets
        /\ Len(wire[ch]) < WireCapacity
        /\ wire' = [wire EXCEPT ![ch] = Append(@, FloatItem(RoundOf(workSlots) * WorkLen + moved))]
        /\ IF moved + 1 < chunk
           THEN moved' = moved + 1 /\ UNCHANGED <<step, rem, chunk, rxVars, sentRound>>
           ELSE /\ ChannelDone(ch)
                /\ sentRound' = IF LastChunk /\ ch \in sockets
                                THEN [sentRound EXCEPT ![ch] = RoundOf(workSlots)]
                                ELSE sentRound
(* One float of the chunk goes into the socket, from where buf_size_sent   *)
(* points: what the earlier chunks did not take.  The call has its         *)
(* descriptor from its start on.                                           *)
SendFloat(ch, here) ==
  /\ step = here
  /\ \/ moved = 0 /\ ch \notin sockets /\ SendFails
     \/ /\ moved > 0 \/ ch \in sockets
        /\ Len(wire[ch]) < WireCapacity
        /\ LET k == RoundOf(workSlots) * WorkLen + (WorkLen - rem) + moved
           IN wire' = [wire EXCEPT ![ch] = Append(@, FloatItem(k))]
        /\ IF moved + 1 < chunk
           THEN moved' = moved + 1 /\ UNCHANGED <<step, rem, chunk, rxVars, sentRound>>
           ELSE /\ ChannelDone(ch)
                /\ sentRound' = IF LastChunk /\ ch \in sockets
                                THEN [sentRound EXCEPT ![ch] = RoundOf(workSlots)]
                                ELSE sentRound

SendStep ==
  /\ \/ Look("ch1", "look1", "size1") \/ Look("ch2", "look2", "size2")
     \/ SendSize("ch1", "size1", "data1") \/ SendSize("ch2", "size2", "data2")
     \/ SendFloat("ch1", "data1") \/ SendFloat("ch2", "data2")
  /\ UNCHANGED <<boardVars, simVars, flagVars, queueVars, bufferCounter, setupVars,
                 apiVars, workSlots, appSlots, appRound, expecting, received, kept>>

Quiet == UNCHANGED <<simVars, sendVars, listenVars>>

SocketRx ==
  \/ BeginSend \/ SendStep
  \/ SimWait /\ UNCHANGED <<sendVars, listenVars>>
  \/ /\ \/ RxReady \/ RxLoop \/ RxPop \/ RxPopEmpty \/ RxCheckStop \/ RxRoute \/ RxQueue
        \/ RxProcess \/ RxRepost \/ RxPost \/ RxCount \/ RxAbort
     /\ Quiet
-----------------------------------------------------------------------------
(* The listeners and the client. *)

Listen(ch) ==
  /\ wire[ch] # <<>>
  /\ LET item == Head(wire[ch])
     IN IF expecting[ch] = 0
        THEN expecting' = [expecting EXCEPT ![ch] = item.value] /\ UNCHANGED received
        ELSE /\ expecting' = [expecting EXCEPT ![ch] = @ - 1]
             /\ received' = [received EXCEPT ![ch] = item.value]
  /\ wire' = [wire EXCEPT ![ch] = Tail(@)]
  /\ UNCHANGED <<engineVars, simVars, sendVars, kept>>

(* A new socket is empty, and so is its listener.  (Bound: only between    *)
(* acquisitions; Acquisition registers at any time.)                       *)
Register(ch) ==
  /\ ~threadRunning
  /\ RegisterSocket(ch)
  /\ wire' = [wire EXCEPT ![ch] = <<>>]
  /\ expecting' = [expecting EXCEPT ![ch] = 0]
  /\ received' = [received EXCEPT ![ch] = NoData]
  /\ UNCHANGED <<simVars, sendVars, kept>>

(* Sockets nobody sends to any more are closed at their other end too. *)
ListenersGone ==
  /\ wire' = [ch \in Channels |-> <<>>]
  /\ expecting' = [ch \in Channels |-> 0]
  /\ received' = [ch \in Channels |-> NoData]

Unregister ==
  /\ UnregisterSockets
  /\ IF threadRunning THEN UNCHANGED <<wire, expecting, received>> ELSE ListenersGone
  /\ UNCHANGED <<simVars, sendVars, kept>>

(* One acquisition per socket: its stream is the acquisition's.  (Bound:   *)
(* stop leaves what a listener has not taken in the socket, and the next   *)
(* acquisition would follow on that.)                                      *)
Unused(ch) == wire[ch] = <<>> /\ expecting[ch] = 0 /\ received[ch] = NoData
Begin ==
  /\ \A ch \in sockets : Unused(ch)
  /\ SimAcquire
  /\ kept' = sockets
  /\ UNCHANGED <<sendVars, wire, expecting, received>>

End ==
  /\ ClearQueues
  /\ kept' = {}
  /\ IF sockets = {} THEN ListenersGone ELSE UNCHANGED <<wire, expecting, received>>
  /\ UNCHANGED <<simVars, sendVars>>

SocketCall ==
  \/ Begin \/ Unregister \/ \E ch \in Channels : Register(ch)
  \/ ((\E c \in Configs : SetAll(c)) \/ WaitForAcquisition \/ Stop) /\ Quiet
SocketApi ==
  \/ End
  \/ /\ \/ \E b \in Buffers : PostInitial(b)
        \/ StartAcquire \/ AcquireReturn \/ ProcessForApp \/ PushForApp \/ PostForApp
        \/ JoinRx \/ AbortOnStop
     /\ Quiet

SocketNext == SocketRx \/ SocketCall \/ SocketApi \/ \E ch \in Channels : Listen(ch)

SocketSpec == SocketInit /\ [][SocketNext]_allVars

(* Both threads are scheduled and the listeners read what comes. *)
ListenedSpec ==
  SocketSpec /\ WF_allVars(SocketRx) /\ WF_allVars(SocketApi)
             /\ \A ch \in Channels : WF_allVars(Listen(ch))
(* Also: the client keeps polling. *)
PolledSpec == ListenedSpec /\ WF_allVars(WaitForAcquisition /\ Quiet)
-----------------------------------------------------------------------------
(* Properties. *)

SocketTypeOK ==
  /\ TypeOK
  /\ filling \in {NoBuffer} \cup Buffers /\ filling # NoBuffer => rxpc = "wait"
  /\ written \in Nat /\ recordCounter \in Nat /\ samplesPerRecord \in Nat
  /\ step \in {"none", "look1", "look2", "size1", "size2", "data1", "data2"}
  /\ (step # "none") => rxpc \in {"send1", "send2"}
  /\ rem \in 0..WorkLen /\ chunk \in 0..SocketBuffSize /\ moved \in 0..chunk
  /\ \A ch \in Channels : Len(wire[ch]) <= WireCapacity

(* Sizes and floats never change places on a socket, also when the client  *)
(* unregisters in the middle of a message: a listener that expects a size  *)
(* finds one, one that expects floats finds no size.                       *)
FramesWhole ==
  \A ch \in Channels : wire[ch] # <<>> =>
    (Head(wire[ch]).kind = "size") = (expecting[ch] = 0)

(* The stand-in's queue is for one producer (alazarSim.cpp:32, a           *)
(* ReaderWriterQueue): rx and the client never post at the same time, also *)
(* when the client unregisters and polls while rx finishes a buffer it     *)
(* began to send.                                                          *)
OneProducer == ~(rxpc = "post" /\ apc = "post")

(* The stack of stand-in, chunked sending and library does what            *)
(* Acquisition says: the stand-in is a board, though it knows no trigger   *)
(* and no time-out, and the chunks of a work buffer are one message.       *)
BoardFifo == IF filling = NoBuffer THEN posted ELSE <<filling>> \o posted
BoardFilled == IF filling # NoBuffer /\ written >= RecordsPerBuffer THEN 1 ELSE 0
Library == INSTANCE Acquisition WITH
  posted <- BoardFifo, nFilled <- BoardFilled, Faults <- {"send"}
LibrarySpec == Library!Spec

(* What the stand-in writes into a buffer ends where the buffer ends,      *)
(* although the length it goes by is that of the latest post and the       *)
(* record length that of AlazarBeforeAsyncRead (alazarSim.cpp:45, 57, 279).*)
WritesInside ==
  filling # NoBuffer /\ samplesPerRecord # 0 =>
    RecordsPerBuffer * samplesPerRecord <= room[filling]

(* The listener of a channel that stays registered gets the acquisition's  *)
(* floats one by one, in order, across results and chunks; and never more  *)
(* than there are.                                                         *)
Steady == kept \cap sockets
FloatsDue(ch) == IF ch \in Steady THEN NumberAcquisitions * WorkLen ELSE 0
LastFloat(ch) == IF ch \in Steady THEN received[ch] ELSE NoData
Ch1FloatStream == INSTANCE BufferStream WITH
  running <- "ch1" \in Steady, total <- FloatsDue("ch1"), last <- LastFloat("ch1")
Ch2FloatStream == INSTANCE BufferStream WITH
  running <- "ch2" \in Steady, total <- FloatsDue("ch2"), last <- LastFloat("ch2")
FloatStreams == Ch1FloatStream!Spec /\ Ch2FloatStream!Spec

(* stop returns as long as the listeners read, although neither the        *)
(* stand-in's wait nor a blocked send looks at threadStop.                 *)
StopReturnsHere == apc = "join" ~> apc = "idle"

(* Every result of an acquisition that is not cut short reaches the        *)
(* application, or to the last float the listeners of its sockets.         *)
AllReceived ==
  threadRunning ~>
    \/ ~threadRunning \/ threadStop
    \/ sockets = {} /\ appRound = NumberAcquisitions - 1
    \/ sockets # {} /\ \A ch \in sockets : received[ch] = NumberAcquisitions * WorkLen - 1
    \/ kept # sockets
==============================================================================
