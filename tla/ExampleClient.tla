---------------------------- MODULE ExampleClient ----------------------------
(***************************************************************************)
(* The C example (apiExample.cpp): main() reads its command line, connects *)
(* to the board, configures it, and polls one acquisition into two files   *)
(* until it has every result or has waited too long; a detached thread     *)
(* ends the process at any moment when the user types "q".                 *)
(*                                                                         *)
(* main is the API thread of Acquisition, whose rx thread and board go on  *)
(* beside it; connectBoard is BoardInformation; what the parser makes of   *)
(* the command line is CommandLine's Meaning, which OptionParser is shown  *)
(* to compute.                                                             *)
(***************************************************************************)
EXTENDS Acquisition, BoardInformation, CommandLine

CONSTANTS CommandLines,     \* what users type
          Atoi,             \* a number's integral part, as a uint32_t
          DefaultTimeout    \* 1000 in the code: polls without a result

ASSUME ExampleAssumption ==
  /\ Atoi \in [Numbers \cup {"negative"} -> Nat]
  /\ DefaultTimeout \in Nat

VARIABLES
  mpc,                      \* where main is
  argv,                     \* its arguments
  setup, timeout,           \* the settings that matter after parsing
  listening,                \* the quit thread is running
  count, buffer_timeout,    \* the loop's counters
  file,                     \* round robins written to ch1.dat and ch2.dat
  exit                      \* how the process ended

mainVars == <<mpc, argv, setup, timeout, listening, count, buffer_timeout, file, exit>>
libraryVars == <<boardVars, flagVars, queueVars, bufferCounter, setupVars, rxVars,
                 apiVars, outVars>>
exampleVars == <<libraryVars, infoVars, mainVars>>

Running == exit = "running"

ExampleInit ==
  /\ Init /\ InfoInit
  /\ mpc = "parse" /\ argv \in CommandLines
  /\ setup = "sound" /\ timeout = DefaultTimeout /\ listening = FALSE
  /\ count = 0 /\ buffer_timeout = 0 /\ file = <<>>
  /\ exit = "running"

(* The descriptors of the example. *)
ExampleUsage ==
  LET option(index, long, check) ==
        [index |-> index, short |-> {}, long |-> long, check |-> check]
  IN << option(0, "", "None"), option(1, "help", "None"), option(2, "mode", "None"),
        option(3, "segments", "Numeric"), option(4, "waveforms", "Numeric"),
        option(5, "roundrobins", "Numeric"), option(6, "samples", "Numeric"),
        option(7, "buffer", "Numeric"), option(8, "samplingRate", "Numeric"),
        option(9, "timeout", "Numeric"), option(10, "logLevel", "Numeric"),
        option(0, "", "None") >>
HELP == 1
MODE == 2
SEGMENTS == 3
WAVEFORMS == 4
ROUNDROBINS == 5
RECORDLENGTH == 6
SAMPLINGRATE == 8
TIMEOUT == 9

(* options[X] is X's first occurrence. *)
Given(meaning, index) ==
  {i \in DOMAIN meaning.options : meaning.options[i].index = index}
ArgumentOf(meaning, index) == meaning.options[Min(Given(meaning, index))].arg

(* What main makes of the options for setAll: "fatal", if setAll cannot    *)
(* get past them: --mode leaves a null acquireMode (Arg::None), a zero     *)
(* sampling rate or number of round robins is divided by; "risky", if it   *)
(* depends on the numbers given.  The defaults are "sound".                *)
Setup(meaning) ==
  LET zero(index) ==
        Given(meaning, index) # {} /\ Atoi[ArgumentOf(meaning, index)] = 0
  IN CASE Given(meaning, MODE) # {} \/ zero(ROUNDROBINS) \/ zero(SAMPLINGRATE) -> "fatal"
       [] OTHER -> IF \E index \in {SEGMENTS, WAVEFORMS, ROUNDROBINS, RECORDLENGTH,
                                    SAMPLINGRATE} : Given(meaning, index) # {}
                   THEN "risky" ELSE "sound"

(* --timeout, like the other numbers, is checked to have one (Arg::Numeric). *)
ASSUME TimeoutAssumption ==
  \A line \in CommandLines :
    LET meaning == Meaning(FALSE, line)
    IN meaning.verdict = "ok" =>
         \A index \in {ROUNDROBINS, SAMPLINGRATE, TIMEOUT} :
           Given(meaning, index) # {} => ArgumentOf(meaning, index) \in DOMAIN Atoi

(***************************************************************************)
(* main up to the acquisition.                                             *)
(***************************************************************************)
End(status) == exit' = status /\ mpc' = "ended"

(* Parsing: a numeric option without a value, or with one out of range,    *)
(* raises an exception nothing catches.                                    *)
(* (argv is not read again and forgotten, as is, later, what connectBoard  *)
(* looked at.)                                                             *)
Parse ==
  LET meaning == Meaning(FALSE, argv)
  IN /\ mpc = "parse"
     /\ \/ meaning.verdict = "throws" /\ End("aborted") /\ UNCHANGED <<setup, timeout, listening>>
        \/ meaning.verdict = "ILLEGAL" /\ End("failed") /\ UNCHANGED <<setup, timeout, listening>>
        \/ /\ meaning.verdict = "ok"
           /\ Given(meaning, HELP) # {} \/ argv = <<>>
           /\ End("ok")
           /\ UNCHANGED <<setup, timeout, listening>>
        \/ /\ meaning.verdict = "ok"
           /\ Given(meaning, HELP) = {} /\ argv # <<>>
           /\ setup' = Setup(meaning)
           /\ timeout' = IF Given(meaning, TIMEOUT) = {} THEN DefaultTimeout
                         ELSE Atoi[ArgumentOf(meaning, TIMEOUT)]
           /\ listening' = TRUE
           /\ mpc' = "connect"
           /\ UNCHANGED exit
     /\ argv' = IF mpc' = "connect" THEN <<>> ELSE argv
     /\ UNCHANGED <<libraryVars, infoVars, count, buffer_timeout, file>>

(* connectBoard, whose result main does not look at. *)
Connect ==
  /\ mpc = "connect"
  /\ InfoStep
  /\ mpc' = IF infopc' = "done" THEN "setAll" ELSE "connect"
  /\ UNCHANGED <<libraryVars, argv, setup, timeout, listening, count, buffer_timeout,
                 file, exit>>

(* setAll, which always may refuse: a board that is not there, a number or *)
(* a driver call it does not accept.  It does not survive a "fatal" setup: *)
(* ConfigureBoard makes a std::string of the null mode (101), divides by   *)
(* the zeros (111, 658); numbers may lead it to other divisions by zero,   *)
(* as a long record does (652).                                            *)
Configure ==
  /\ mpc = "setAll"
  /\ \/ End("failed") /\ UNCHANGED libraryVars
     \/ setup # "sound" /\ End("aborted") /\ UNCHANGED libraryVars
     \/ /\ setup # "fatal"
        /\ \E c \in Configs : SetAll(c)
        /\ mpc' = "acquire"
        /\ UNCHANGED exit
  /\ InfoForgotten
  /\ UNCHANGED <<argv, setup, timeout, listening, count, buffer_timeout, file>>

(***************************************************************************)
(* The acquisition.  acquire's result is not looked at: when the board     *)
(* refuses, main polls an acquisition that never began.                    *)
(***************************************************************************)
MainGoto(pc) ==
  /\ mpc' = pc
  /\ UNCHANGED <<infoVars, argv, setup, timeout, listening, count, buffer_timeout, file, exit>>

CallAcquire ==
  /\ mpc = "acquire"
  /\ Acquire \/ UNCHANGED libraryVars
  /\ MainGoto("loop")

(* The loop condition; force_trigger only asks for what BoardStep may do.  *)
LoopTest ==
  /\ mpc = "loop" /\ apc = "idle"
  /\ UNCHANGED libraryVars
  /\ MainGoto(IF count < NumberAcquisitions THEN "wait" ELSE "stop")

BugEmptyIsResult ==
  /\ mpc = "wait"
  /\ \/ /\ WaitForAcquisition
        /\ mpc' = "result"
        /\ UNCHANGED <<count, file>>
     \/ /\ dataQ = <<>>
        /\ UNCHANGED libraryVars
        /\ mpc' = "tick"
        /\ count' = count + 1
        /\ file' = Append(file, RoundOf(appSlots))
  /\ UNCHANGED <<infoVars, argv, setup, timeout, listening, buffer_timeout, exit>>
(* wait_for_acquisition: 0 at once without data. *)
CallWait ==
  /\ mpc = "wait"
  /\ \/ WaitForAcquisition /\ MainGoto("result")
     \/ dataQ = <<>> /\ UNCHANGED libraryVars /\ MainGoto("tick")

BugCountsOnly ==
  LET reposted == posted' # posted
  IN /\ mpc = "result"
     /\ PostForApp
     /\ IF apiFull \/ ~reposted
        THEN /\ count' = count + 1
             /\ buffer_timeout' = 0
             /\ file' = IF reposted THEN Append(file, RoundOf(appSlots)) ELSE file
        ELSE UNCHANGED <<count, buffer_timeout, file>>
     /\ mpc' = "tick"
     /\ UNCHANGED <<infoVars, argv, setup, timeout, listening, exit>>
(* It returns: 0 for a buffer that did not complete a round robin; every   *)
(* other result, -1 for a buffer the board did not take back included, is  *)
(* counted and written, and the time-out starts again.                     *)
WaitReturns ==
  LET reposted == posted' # posted
  IN /\ mpc = "result"
     /\ PostForApp
     /\ IF apiFull \/ ~reposted
        THEN /\ count' = count + 1
             /\ buffer_timeout' = 0
             /\ file' = Append(file, RoundOf(appSlots))
        ELSE UNCHANGED <<count, buffer_timeout, file>>
     /\ mpc' = "tick"
     /\ UNCHANGED <<infoVars, argv, setup, timeout, listening, exit>>

BugNoTimeout ==
  /\ mpc = "tick"
  /\ mpc' = IF buffer_timeout > timeout THEN "stop" ELSE "loop"
  /\ UNCHANGED <<libraryVars, infoVars, argv, setup, timeout, listening, count,
                 buffer_timeout, file, exit>>
Tick ==
  /\ mpc = "tick"
  /\ buffer_timeout' = buffer_timeout + 1
  /\ mpc' = IF buffer_timeout > timeout THEN "stop" ELSE "loop"
  /\ UNCHANGED <<libraryVars, infoVars, argv, setup, timeout, listening, count, file, exit>>

CallStop ==
  /\ mpc = "stop"
  /\ Stop
  /\ MainGoto("disconnect")

(* disconnect stops again what is still running, which by now is nothing. *)
CallDisconnect ==
  /\ mpc = "disconnect" /\ apc = "idle"
  /\ IF threadRunning THEN Stop /\ UNCHANGED <<mpc, exit>>
     ELSE End("ok") /\ UNCHANGED libraryVars
  /\ UNCHANGED <<infoVars, argv, setup, timeout, listening, count, buffer_timeout, file>>

(* The inside of a library call main is in. *)
InLibrary ==
  /\ ApiStep
  /\ mpc = "result" => apc # "post"
  /\ UNCHANGED <<infoVars, mainVars>>

(* "q": exit(0), from a thread of its own, wherever main is.  The boards   *)
(* are static objects; an rx thread nobody joined makes their destruction  *)
(* end in terminate().                                                     *)
Quit ==
  /\ listening /\ mpc # "ended"
  /\ End(IF threadRunning THEN "aborted" ELSE "quit")
  /\ UNCHANGED <<libraryVars, infoVars, argv, setup, timeout, listening, count,
                 buffer_timeout, file>>

Main ==
  \/ Parse \/ Connect \/ Configure \/ CallAcquire \/ LoopTest \/ CallWait \/ WaitReturns
  \/ Tick \/ CallStop \/ CallDisconnect \/ InLibrary

Beside(A) == A /\ Running /\ UNCHANGED <<infoVars, mainVars>>

ExampleNext == (Running /\ (Main \/ Quit)) \/ Beside(Rx) \/ Beside(BoardStep)

ExampleSpec == ExampleInit /\ [][ExampleNext]_exampleVars

(* main and rx are scheduled; nobody has to type "q", no trigger has to    *)
(* come.  (The example registers no socket, so that its rx never sends.)   *)
FairExampleSpec ==
  ExampleSpec /\ WF_exampleVars(Running /\ Main) /\ WF_exampleVars(Beside(Rx))
-----------------------------------------------------------------------------
(***************************************************************************)
(* Properties.                                                             *)
(***************************************************************************)
ExampleTypeOK ==
  /\ mpc \in {"parse", "connect", "setAll", "acquire", "loop", "wait", "result", "tick",
              "stop", "disconnect", "ended"}
  /\ exit \in {"running", "ok", "failed", "quit", "aborted"} /\ (mpc = "ended") = ~Running
  /\ setup \in {"sound", "risky", "fatal"} /\ listening \in BOOLEAN /\ timeout \in Nat
  /\ count = Len(file) /\ buffer_timeout \in 0..(timeout + 2)
  /\ infopc \in {"idle", "system", "board", "led", "done"} /\ flashes \in 0..LedCommands
  /\ led \cup stuck \cup visited \subseteq SystemIds \X BoardIds

(* The files hold the results of the acquisition from the first on, none   *)
(* missing, repeated or torn, whatever the board refuses on the way, and   *)
(* never more than numberAcquisitions of them (complete buffers only: see  *)
(* the README for partial ones).                                           *)
FileRight ==
  /\ \A i \in DOMAIN file : file[i] = i - 1
  /\ mpc # "parse" => Len(file) <= NumberAcquisitions

(* main leaves nothing behind when it ends by itself, at its return or at  *)
(* a configuration that was refused (apiExample.cpp:152, 184-191): rx is   *)
(* joined, every buffer and queue given back, no LED is on but one the     *)
(* driver refused to turn off, also when acquire had been refused, rx had  *)
(* failed or no board answered.                                            *)
CleanExit ==
  exit \in {"ok", "failed"} =>
    /\ rxpc = "none" /\ ~threadRunning /\ apc = "idle"
    /\ posted = <<>> /\ bufferQ = <<>> /\ dataQ = <<>> /\ ownerQ = {}
    /\ led \subseteq stuck

(* main ends by its own time-out, although no trigger may come, acquire    *)
(* may have been refused and rx may have failed (apiExample.cpp:168-181).  *)
ExampleEnds == <>(mpc = "ended")
==============================================================================
