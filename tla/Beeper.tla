------------------------------- MODULE Beeper -------------------------------
(***************************************************************************)
(* The beeper pin, GPB0, which pan_beep and both variants of pan_poll      *)
(* drive, none of them asking whether another does, and the program        *)
(* key_beep_test, which asks pan_key for the key and tells pan_beep what   *)
(* to do, over and over.  The program is at                                *)
(*   "start"  before its opens,                                            *)
(*   "ask"    before ioctl on pan_key,                                     *)
(*   "tell"   before ioctl on pan_beep, with the answer in hand.           *)
(***************************************************************************)
EXTENDS Integers

VARIABLES
  output,  \* is GPB0 configured as an output?
  level,   \* what its data register says
  down,    \* is the key held down?
  test,    \* where key_beep_test is
  answer   \* what pan_key last told it: 1 for a key that is down

pinVars == <<output, level>>
testVars == <<down, test, answer>>

BeeperInit ==
  /\ output \in BOOLEAN /\ level \in {0, 1}
  /\ down = FALSE /\ test = "start" /\ answer = 0

(* beep_start and beep_stop of pan_poll configure the pin each time.       *)
PinDriven(v) == output' = TRUE /\ level' = v

KeyMoves == down' = ~down /\ UNCHANGED <<pinVars, test, answer>>

(* beep_open configures the pin, key_open the key's.                       *)
BeepOpen_Not == UNCHANGED output   \* mutant: the pin stays as it was
BeepOpen == output' = TRUE

OpenBoth ==
  /\ test = "start" /\ test' = "ask"
  /\ BeepOpen
  /\ UNCHANGED <<level, down, answer>>

(* key_ioctl: the pin is low while the key is down.                        *)
KeyIoctl ==
  /\ test = "ask" /\ test' = "tell"
  /\ answer' = IF down THEN 1 ELSE 0
  /\ UNCHANGED <<pinVars, down>>

(* beep_ioctl: BEEP_START_CMD or BEEP_STOP_CMD.                            *)
BeepIoctl ==
  /\ test = "tell" /\ test' = "ask"
  /\ level' = answer
  /\ UNCHANGED <<output, down, answer>>

TestProgram == OpenBoth \/ KeyIoctl \/ BeepIoctl

BeeperTypeOK ==
  /\ output \in BOOLEAN /\ level \in {0, 1}
  /\ down \in BOOLEAN /\ test \in {"start", "ask", "tell"} /\ answer \in {0, 1}
============================================================================
